------------------------- MODULE TimeSteppingProofs -------------------------
(***************************************************************************)
(* Proofs about TimeStepping for all values of its constants: the types,    *)
(* the bound on postponed energy steps, the energy clock, the accounting of *)
(* model time, the implementation of ModelClock, and, while the bounds on   *)
(* the step do not change, the stability of the energy steps.  The second   *)
(* part is about StressBalance, the update each of those steps begins with. *)
(***************************************************************************)
EXTENDS TimeStepping, MCSteadyTimeStepping, StressBalance, TLAPS

(* A skip cycle exists only where step() counts it down.                    *)
SkipOnlyWithMass == skipCountDown > 0 => option.mass /\ option.skip

(* The inductive invariant.  SkipBound alone is not inductive: a counter    *)
(* that nobody decrements would let substeps grow.                          *)
IInv ==
  /\ TypeOK
  /\ hitLast =< now
  /\ SkipOnlyWithMass
  /\ SkipBound
  /\ EnergyClock

(* Integer division by a positive number rounds down to a natural number.   *)
LEMMA DivisionLemma ==
  ASSUME NEW a \in Nat, NEW m \in Nat, m > 0
  PROVE  /\ a \div m \in Nat
         /\ m * (a \div m) =< a
         /\ m * (a \div m) \in Nat
  OBVIOUS

(* Every restriction max_timestep() collects is a number of ticks.          *)
LEMMA LimitIsNat ==
  ASSUME TypeOK, NEW in \in Inputs, NEW why \in Reasons, why \in Present(in)
  PROVE  Limit(why, in) \in Nat
<1>1. in \in InputType /\ BTULimit \in Nat /\ MaxDt \in Nat
  BY TimeAssumption, SubmodelAssumption
<1>2. CASE why = "end of the run"
  <2>1. end > now
    BY <1>2 DEF Present
  <2>2. now \in Nat /\ end \in Nat
    BY DEF TypeOK
  <2>3. Limit(why, in) = end - now
    BY <1>2 DEF Limit
  <2> QED
    BY <2>1, <2>2, <2>3
<1>3. NewCFL(in) \in Nat /\ Min2(MaxDt, in.cfl2d) \in Nat
  BY <1>1 DEF NewCFL, Min2, TypeOK, InputType
<1>4. CASE why # "end of the run"
  BY <1>1, <1>3, <1>4 DEF Limit, Reasons, InputType
<1> QED
  BY <1>2, <1>4

(* The last multiple before t is no later than t.                           *)
LEMMA LastMultipleBounds ==
  ASSUME hitLast \in Nat, HitMultiples \in Nat, HitMultiples > 0,
         NEW t \in Nat, hitLast =< t
  PROVE  LastMultiple(t) \in Nat /\ LastMultiple(t) =< t
<1>1. t - hitLast \in Nat
  OBVIOUS
<1>2. /\ HitMultiples * ((t - hitLast) \div HitMultiples) =< t - hitLast
      /\ HitMultiples * ((t - hitLast) \div HitMultiples) \in Nat
  BY <1>1, DivisionLemma
<1>3. PICK p \in Nat : p = HitMultiples * ((t - hitLast) \div HitMultiples)
  BY <1>2
<1>4. LastMultiple(t) = hitLast + p
  BY <1>3 DEF LastMultiple
<1> QED
  BY <1>2, <1>3, <1>4

(* The step ends later than it begins and at most Epsilon later than the    *)
(* binding restriction says.                                                *)
LEMMA StepLengthBounds ==
  ASSUME TypeOK, hitLast =< now, NEW d \in Nat
  PROVE  /\ StepLength(d) \in Nat
         /\ StepLength(d) =< d + Epsilon
         /\ HitMultiples = 0 => StepLength(d) = d
         /\ d > 0 => StepLength(d) > 0
<1>1. Epsilon \in Nat /\ HitMultiples \in Nat /\ now \in Nat /\ hitLast \in Nat
  BY TimeAssumption DEF TypeOK
<1>2. CASE HitsMultiple(d)
  <2>1. HitMultiples > 0 /\ LastMultiple(now + d + Epsilon) > now
    BY <1>2 DEF HitsMultiple
  <2>2. now + d + Epsilon \in Nat /\ hitLast =< now + d + Epsilon
    BY <1>1
  <2>3. /\ LastMultiple(now + d + Epsilon) \in Nat
        /\ LastMultiple(now + d + Epsilon) =< now + d + Epsilon
    BY <1>1, <2>1, <2>2, LastMultipleBounds
  <2>4. StepLength(d) = LastMultiple(now + d + Epsilon) - now
    BY <1>2 DEF StepLength
  <2> QED
    BY <1>1, <2>1, <2>3, <2>4
<1>3. CASE ~HitsMultiple(d)
  BY <1>1, <1>3 DEF StepLength
<1> QED
  BY <1>2, <1>3

(* max_timestep() keeps the skip counter within SkipMax and starts a cycle  *)
(* only in a configuration that skips.                                      *)
LEMMA CountDownBounds ==
  ASSUME TypeOK, SkipOnlyWithMass, NEW in \in Inputs, NEW why \in Reasons,
         NEW c \in CountDown(why, in)
  PROVE  /\ c \in 0..SkipMax
         /\ c > 0 => option.mass /\ option.skip
         /\ ~major => c =< skipCountDown
         /\ "diffusivity" \notin Present(in) => c =< skipCountDown
<1> DEFINE others == Present(in) \ {"diffusivity"}
           long == {r \in others : \A s \in others : Limit(r, in) =< Limit(s, in)}
           fresh == IF "diffusivity" \in Present(in) /\ major
                    THEN UNION {SkipCounter(Limit(r, in), in.diff) : r \in long}
                    ELSE {skipCountDown}
<1>1. PICK f \in fresh : c = f \/ (c = 1 /\ f > 1)
  BY DEF CountDown
<1>2. /\ f \in 0..SkipMax
      /\ f > 0 => option.mass /\ option.skip
      /\ ~major \/ "diffusivity" \notin Present(in) => f = skipCountDown
  <2>1. CASE "diffusivity" \in Present(in) /\ major
    <3>1. PICK r \in long : f \in SkipCounter(Limit(r, in), in.diff)
      BY <1>1, <2>1
    <3>2. option.mass
      BY <2>1 DEF Present
    <3>3. Limit(r, in) \in Nat
      <4>1. r \in Reasons
        BY <3>1 DEF Present, Reasons
      <4> QED
        BY <3>1, <4>1, LimitIsNat
    <3>4. in.diff \in Nat /\ in.diff > 0 /\ SkipMax \in Nat
      BY SubmodelAssumption DEF InputType
    <3>5. (95 * Limit(r, in)) \div (100 * in.diff) \in Nat
      <4>1. 95 * Limit(r, in) \in Nat /\ 100 * in.diff \in Nat /\ 100 * in.diff > 0
        BY <3>3, <3>4
      <4> QED
        BY <4>1, DivisionLemma
    <3>6. f \in 0..SkipMax /\ (f > 0 => option.skip)
      BY <3>1, <3>4, <3>5, Zenon, SMT DEF SkipCounter, Min2
    <3> QED
      BY <2>1, <3>2, <3>6
  <2>2. CASE ~("diffusivity" \in Present(in) /\ major)
    BY <1>1, <2>2 DEF TypeOK, SkipOnlyWithMass
  <2> QED
    BY <2>1, <2>2
<1> QED
  BY <1>1, <1>2, SubmodelAssumption

-----------------------------------------------------------------------------
(* The jump of Time::step() is shorter than SnapTol and ends at the end.    *)
LEMMA TimeAfterBounds ==
  ASSUME end \in Nat, NEW t \in Nat
  PROVE  /\ TimeAfter(t) \in Nat
         /\ TimeAfter(t) = t \/ (t < end /\ TimeAfter(t) = end /\ end - t < SnapTol)
  BY DEF TimeAfter

LEMMA InitEstablishes == Init => IInv
<1> SUFFICES ASSUME Init PROVE IInv
  OBVIOUS
<1>1. TypeOK
  BY TimeAssumption, SubmodelAssumption DEF Init, TypeOK
<1>2. hitLast =< now /\ SkipOnlyWithMass /\ SkipBound /\ EnergyClock
  BY TimeAssumption, SubmodelAssumption
  DEF Init, SkipOnlyWithMass, SkipBound, EnergyClock
<1> QED
  BY <1>1, <1>2 DEF IInv

LEMMA RunToPreserves ==
  ASSUME IInv, NEW newEnd \in EndTimes, RunTo(newEnd)
  PROVE  IInv'
<1>1. TypeOK'
  BY TimeAssumption DEF IInv, TypeOK, RunTo, NoInterval
<1>2. (hitLast =< now)' /\ SkipOnlyWithMass' /\ SkipBound'
  BY DEF IInv, RunTo, SkipOnlyWithMass, SkipBound
<1>3. EnergyClock'
  BY DEF IInv, TypeOK, RunTo, EnergyClock
<1> QED
  BY <1>1, <1>2, <1>3 DEF IInv

LEMMA StepPreserves ==
  ASSUME IInv, NEW in \in Inputs, NEW why \in Reasons, Step(in, why)
  PROVE  IInv'
<1> DEFINE d == StepLength(Limit(why, in))
           length == EnergyInterval(d)
           energyStep == major /\ option.energy
<1>1. TypeOK /\ hitLast =< now /\ SkipOnlyWithMass /\ SkipBound /\ EnergyClock
  BY DEF IInv
<1>2. d \in Nat
  <2>1. why \in Present(in)
    BY DEF Step, Binding
  <2> QED
    BY <1>1, <2>1, LimitIsNat, StepLengthBounds
<1>3. now \in Nat /\ end \in Nat /\ dtTempAge \in Nat /\ tTempAge \in Nat
      /\ length \in Nat /\ now + d \in Nat /\ length = dtTempAge + d
  BY <1>1, <1>2 DEF TypeOK, EnergyInterval
<1>4. PICK c \in CountDown(why, in) : skipCountDown' = Decrement(c)
  BY DEF Step
<1>5. /\ c \in 0..SkipMax
      /\ c > 0 => option.mass /\ option.skip
      /\ ~major => c =< skipCountDown
  BY <1>1, CountDownBounds
<1>6. /\ now' \in Nat
      /\ now' = now + d \/ (now + d < end /\ now' = end /\ end - (now + d) < SnapTol)
  BY <1>3, TimeAfterBounds DEF Step
<1>7. skipCountDown' \in 0..SkipMax /\ skipCountDown' =< c
  <2>1. skipCountDown' = c \/ (c > 0 /\ skipCountDown' = c - 1)
    BY <1>4 DEF Decrement
  <2> QED
    BY <1>5, <2>1, SubmodelAssumption
<1>8. SkipOnlyWithMass'
  <2>1. option' = option
    BY DEF Step
  <2> QED
    BY <1>5, <1>7, <2>1, SubmodelAssumption DEF SkipOnlyWithMass
<1>9. SkipBound'
  <2>1. c > 0 => skipCountDown' = c - 1
    BY <1>4, <1>5 DEF Decrement
  <2>2. c = 0 => skipCountDown' = 0
    BY <1>4, <1>5 DEF Decrement
  <2>3. CASE major
    <3>1. substeps' = 0
      BY <2>3 DEF Step
    <3> QED
      BY <1>5, <2>1, <2>2, <3>1, SubmodelAssumption DEF SkipBound
  <2>4. CASE ~major
    <3>1. substeps' = substeps + 1 /\ c =< skipCountDown /\ skipCountDown > 0
      BY <1>1, <1>5, <2>4, SubmodelAssumption DEF Step, TypeOK, major
    <3>2. substeps \in Nat /\ skipCountDown \in Nat
      BY <1>1, SubmodelAssumption DEF TypeOK
    <3>3. c \in Nat /\ SkipMax \in Nat
      BY <1>5, SubmodelAssumption
    <3>4. SkipMax > 0
      BY <1>1, <3>1, <3>2, <3>3 DEF SkipBound
    <3> QED
      BY <1>1, <2>1, <2>2, <3>1, <3>2, <3>3, <3>4 DEF SkipBound
  <2> QED
    BY <2>3, <2>4
<1>10. (hitLast =< now)' /\ hitLast' \in Nat
  <2>1. hitLast' = now + d \/ hitLast' = hitLast
    BY DEF Step
  <2> QED
    BY <1>1, <1>2, <1>3, <1>6, <2>1 DEF TypeOK
<1>11. EnergyClock'
  <2>1. /\ tTempAge' = IF energyStep THEN now' ELSE tTempAge
        /\ dtTempAge' = IF energyStep THEN 0 ELSE length
    BY DEF Step
  <2>2. phase' = "running" => now' < end
    BY DEF Step
  <2>3. tTempAge + dtTempAge = now
    BY <1>1 DEF EnergyClock, Step
  <2>4. /\ tTempAge' + dtTempAge' = now' \/ tTempAge' + dtTempAge' = now + d
        /\ tTempAge' + dtTempAge' =< now'
    <3>1. \/ tTempAge' = now' /\ dtTempAge' = 0
          \/ tTempAge' = tTempAge /\ dtTempAge' = length
      BY <2>1, Zenon
    <3> HIDE DEF d, length, energyStep
    <3> QED
      BY <1>2, <1>3, <1>6, <2>3, <3>1
  <2> HIDE DEF d, length, energyStep
  <2> QED
    BY <1>2, <1>3, <1>6, <2>2, <2>4 DEF EnergyClock
<1>12. TypeOK'
  <2>1. end' = end /\ option' = option /\ dropped' = dropped
    BY DEF Step
  <2>2. phase' \in {"running", "done"}
    BY DEF Step
  <2>3. CFLmaxdt' \in Nat
    <3>1. in \in InputType /\ MaxDt \in Nat
      BY TimeAssumption, SubmodelAssumption
    <3> QED
      BY <1>1, <3>1 DEF Step, NewCFL, Min2, TypeOK, InputType
  <2>4. tTempAge' \in Nat /\ dtTempAge' \in Nat
    BY <1>3, <1>6 DEF Step
  <2>5. btu' = NoInterval \/ btu' \in [t : Nat, dt : Nat]
    <3>1. btu' = btu \/ btu' = [t |-> tTempAge, dt |-> length]
      BY DEF Step
    <3>2. btu = NoInterval \/ btu \in [t : Nat, dt : Nat]
      BY <1>1 DEF TypeOK
    <3> QED
      BY <1>3, <3>1, <3>2
  <2>6. substeps' \in Nat /\ energyTime' \in Nat /\ ageTime' \in Nat
    <3>1. substeps \in Nat /\ energyTime \in Nat /\ ageTime \in Nat
      BY <1>1 DEF TypeOK
    <3>2. substeps' \in {0, substeps + 1}
      BY DEF Step
    <3>3. energyTime' \in {energyTime, energyTime + length}
      BY DEF Step
    <3>4. ageTime' \in {ageTime, ageTime + length}
      BY DEF Step
    <3> HIDE DEF length
    <3> QED
      BY <1>3, <3>1, <3>2, <3>3, <3>4
  <2> QED
    BY <1>1, <1>6, <1>7, <1>10, <2>1, <2>2, <2>3, <2>4, <2>5, <2>6
    DEF TypeOK, NoInterval
<1> QED
  BY <1>8, <1>9, <1>10, <1>11, <1>12 DEF IInv

LEMMA FailuresPreserve ==
  ASSUME IInv,
         StressBalanceFails
           \/ \E in \in Inputs, why \in Reasons : EnergyStepFails(in, why)
  PROVE  IInv'
<1>1. /\ phase' = "failed"
      /\ UNCHANGED <<now, end, option, skipCountDown, CFLmaxdt, tTempAge,
                     dtTempAge, hitLast, btu, historyVars>>
  BY DEF StressBalanceFails, EnergyStepFails
<1> QED
  BY <1>1 DEF IInv, TypeOK, SkipOnlyWithMass, SkipBound, EnergyClock,
              historyVars, NoInterval

LEMMA NextPreserves == IInv /\ [Next]_vars => IInv'
<1> SUFFICES ASSUME IInv, [Next]_vars PROVE IInv'
  OBVIOUS
<1>1. ASSUME NEW newEnd \in EndTimes, RunTo(newEnd) PROVE IInv'
  BY <1>1, RunToPreserves
<1>2. ASSUME NEW in \in Inputs, NEW why \in Reasons, Step(in, why) PROVE IInv'
  BY <1>2, StepPreserves
<1>3. CASE StressBalanceFails
           \/ \E in \in Inputs, why \in Reasons : EnergyStepFails(in, why)
  BY <1>3, FailuresPreserve
<1>4. CASE UNCHANGED vars
  BY <1>4 DEF vars, clockVars, historyVars, IInv, TypeOK, SkipOnlyWithMass,
              SkipBound, EnergyClock, NoInterval
<1> QED
  BY <1>1, <1>2, <1>3, <1>4 DEF Next, Advance

(* The inductive invariant holds in every reachable state.                  *)
THEOREM Invariance == Spec => []IInv
  BY InitEstablishes, NextPreserves, PTL DEF Spec

(* Every variable keeps its type: in particular the unsigned skip counter   *)
(* never wraps below zero and never exceeds skip_max.                       *)
THEOREM TypeCorrectness == Spec => []TypeOK
<1>1. IInv => TypeOK
  BY DEF IInv
<1> QED
  BY <1>1, Invariance, PTL

(* An energy step is postponed by fewer than skip_max steps, whatever the   *)
(* bounds do and however often run_to() is called.                          *)
THEOREM SkipIsBounded == Spec => []SkipBound
<1>1. IInv => SkipBound
  BY DEF IInv
<1> QED
  BY <1>1, Invariance, PTL

(* The interval of the next energy step starts at t_TempAge and ends now.   *)
THEOREM EnergyClockIsRight == Spec => []EnergyClock
<1>1. IInv => EnergyClock
  BY DEF IInv
<1> QED
  BY <1>1, Invariance, PTL

-----------------------------------------------------------------------------
(* The clock after a step.                                                  *)
LEMMA StepAdvancesClock ==
  ASSUME IInv, NEW in \in Inputs, NEW why \in Reasons, Step(in, why)
  PROVE  /\ StepLength(Limit(why, in)) \in Nat
         /\ now' = now + StepLength(Limit(why, in))
            \/ /\ now + StepLength(Limit(why, in)) < end
               /\ now' = end
               /\ end - (now + StepLength(Limit(why, in))) < SnapTol
<1> DEFINE d == StepLength(Limit(why, in))
<1>1. why \in Present(in)
  BY DEF Step, Binding
<1>2. d \in Nat
  BY <1>1, LimitIsNat, StepLengthBounds DEF IInv
<1>3. now + d \in Nat /\ end \in Nat
  BY <1>2 DEF IInv, TypeOK
<1>4. now' = TimeAfter(now + d)
  BY DEF Step
<1> HIDE DEF d
<1>5. now' = now + d \/ (now + d < end /\ now' = end /\ end - (now + d) < SnapTol)
  BY <1>3, <1>4, TimeAfterBounds
<1> QED
  BY <1>2, <1>5 DEF d

LEMMA StepAccounts ==
  ASSUME IInv, EnergyTimeAccounted,
         NEW in \in Inputs, NEW why \in Reasons, Step(in, why)
  PROVE  EnergyTimeAccounted'
<1> SUFFICES ASSUME option'.energy, SnapTol =< 1
             PROVE  (energyTime + dropped + dtTempAge)' = now' - Start
  BY DEF EnergyTimeAccounted
<1> DEFINE d == StepLength(Limit(why, in))
           energyStep == major /\ option.energy
<1>1. d \in Nat /\ (now' = now + d \/ (now + d < end /\ now' = end
                                      /\ end - (now + d) < SnapTol))
  BY StepAdvancesClock
<1>2. /\ energyTime \in Nat /\ dropped \in Nat /\ dtTempAge \in Nat
      /\ now \in Nat /\ end \in Nat /\ Start \in Nat /\ SnapTol \in Nat
  BY TimeAssumption DEF IInv, TypeOK
<1>3. energyTime + dropped + dtTempAge = now - Start
  BY DEF EnergyTimeAccounted, Step
<1>4. dropped' = dropped
  BY DEF Step
<1>5. /\ energyTime' = IF energyStep THEN energyTime + (dtTempAge + d) ELSE energyTime
      /\ dtTempAge' = IF energyStep THEN 0 ELSE dtTempAge + d
  BY Zenon DEF Step, EnergyInterval
<1>6. \/ energyTime' = energyTime + (dtTempAge + d) /\ dtTempAge' = 0
      \/ energyTime' = energyTime /\ dtTempAge' = dtTempAge + d
  BY <1>5, Zenon
<1> HIDE DEF d, energyStep
<1>7. now' = now + d
  BY <1>1, <1>2
<1> QED
  BY <1>1, <1>2, <1>3, <1>4, <1>6, <1>7

LEMMA NextAccounts ==
  IInv /\ EnergyTimeAccounted /\ [Next]_vars => EnergyTimeAccounted'
<1> SUFFICES ASSUME IInv, EnergyTimeAccounted, [Next]_vars
             PROVE  EnergyTimeAccounted'
  OBVIOUS
<1>1. ASSUME NEW newEnd \in EndTimes, RunTo(newEnd)
      PROVE  EnergyTimeAccounted'
  <2>1. /\ energyTime \in Nat /\ dropped \in Nat /\ dtTempAge \in Nat
        /\ now \in Nat /\ Start \in Nat
    BY TimeAssumption DEF IInv, TypeOK
  <2>2. /\ option' = option /\ energyTime' = energyTime /\ now' = now
        /\ dropped' = dropped + dtTempAge /\ dtTempAge' = 0
    BY <1>1 DEF RunTo
  <2>3. (energyTime + dropped + dtTempAge)' = energyTime + dropped + dtTempAge
    BY <2>1, <2>2
  <2> QED
    BY <2>2, <2>3 DEF EnergyTimeAccounted
<1>2. ASSUME NEW in \in Inputs, NEW why \in Reasons, Step(in, why)
      PROVE  EnergyTimeAccounted'
  BY <1>2, StepAccounts
<1>3. CASE \/ StressBalanceFails
           \/ \E in \in Inputs, why \in Reasons : EnergyStepFails(in, why)
           \/ UNCHANGED vars
  BY <1>3 DEF StressBalanceFails, EnergyStepFails, EnergyTimeAccounted, vars,
              clockVars, historyVars
<1> QED
  BY <1>1, <1>2, <1>3 DEF Next, Advance

(* Energy steps, the pending interval and what run() discards account for   *)
(* all the model time that passed.                                          *)
THEOREM EnergyTimeIsAccounted == Spec => []EnergyTimeAccounted
<1>1. Init => EnergyTimeAccounted
  BY TimeAssumption DEF Init, EnergyTimeAccounted
<1> QED
  BY <1>1, Invariance, NextAccounts, PTL DEF Spec

-----------------------------------------------------------------------------
(* The implementation of the abstract clock, for a program with a maximum   *)
(* step.  The cached 3D CFL bound is positive whenever a minor step uses    *)
(* it, and the loop body runs only before the end.                          *)
ClockInv ==
  /\ IInv
  /\ phase = "running" => now < end
  /\ skipCountDown > 0 /\ option.energy => CFLmaxdt > 0

LEMMA LimitIsPositive ==
  ASSUME ClockInv, MaxDt > 0, NEW in \in Inputs, NEW why \in Reasons,
         why \in Present(in)
  PROVE  Limit(why, in) > 0
<1>1. /\ in \in InputType /\ BTULimit \in Nat /\ BTULimit > 0 /\ MaxDt \in Nat
  BY TimeAssumption, SubmodelAssumption
<1>2. CASE why = "end of the run"
  <2>1. end > now /\ now \in Nat /\ end \in Nat
    BY <1>2 DEF Present, ClockInv, IInv, TypeOK
  <2>2. Limit(why, in) = end - now
    BY <1>2 DEF Limit
  <2> QED
    BY <2>1, <2>2
<1>3. CASE why = "3D CFL"
  <2>1. Limit(why, in) = NewCFL(in) /\ in.force = 0 /\ option.energy
    BY <1>3 DEF Limit, Present
  <2>2. ~major => CFLmaxdt > 0
    BY <2>1, SubmodelAssumption DEF ClockInv, IInv, TypeOK, major
  <2> QED
    BY <1>1, <2>1, <2>2 DEF NewCFL, Min2, InputType
<1>4. CASE why \notin {"end of the run", "3D CFL"}
  <2>1. Min2(MaxDt, in.cfl2d) > 0
    BY <1>1 DEF Min2, InputType
  <2>2. CASE why \in {"internal", "report", "fixed", "ocean"}
    <3>1. /\ why = "internal" => in.derived > 0
          /\ why = "report" => in.report > 0
          /\ why = "fixed" => in.force > 0
          /\ why = "ocean" => in.ocean > 0
      BY DEF Present
    <3> QED
      BY <2>2, <3>1 DEF Limit
  <2>3. CASE why \in {"max", "BTU", "2D CFL", "diffusivity"}
    <3>1. Limit(why, in) \in {MaxDt, BTULimit, Min2(MaxDt, in.cfl2d), in.diff}
      BY <2>3 DEF Limit
    <3>2. in.diff > 0
      BY <1>1 DEF InputType
    <3> QED
      BY <1>1, <2>1, <3>1, <3>2
  <2> QED
    BY <1>4, <2>2, <2>3 DEF Reasons
<1> QED
  BY <1>2, <1>3, <1>4

LEMMA StepIsTick ==
  ASSUME ClockInv, MaxDt > 0,
         NEW in \in Inputs, NEW why \in Reasons, Step(in, why)
  PROVE  Clock!Tick
<1> DEFINE limit == Limit(why, in)
           d == StepLength(limit)
<1>1. IInv /\ phase = "running" /\ now < end /\ why \in Present(in)
  BY DEF ClockInv, Step, Binding
<1>2. limit \in Nat /\ limit > 0
  BY <1>1, LimitIsNat, LimitIsPositive DEF IInv
<1>3. /\ d \in Nat /\ d > 0 /\ d =< limit + Epsilon
      /\ HitMultiples = 0 => d = limit
  BY <1>1, <1>2, StepLengthBounds DEF IInv
<1>4. limit =< end - now
  <2>1. "end of the run" \in Present(in)
    BY <1>1 DEF Present, Reasons
  <2>2. Limit("end of the run", in) = end - now
    BY DEF Limit
  <2> QED
    BY <2>1, <2>2 DEF Step, Binding
<1>5. now' = now + d \/ (now + d < end /\ now' = end /\ end - (now + d) < SnapTol)
  BY <1>1, StepAdvancesClock
<1>6. /\ now \in Nat /\ end \in Nat /\ Epsilon \in Nat /\ HitMultiples \in Nat
  BY <1>1, TimeAssumption DEF IInv, TypeOK
<1>7. end' = end /\ phase' \in IF now' < end THEN {"running", "done"} ELSE {"done"}
  BY DEF Step
<1> HIDE DEF d, limit
<1>8. now' > now /\ now' =< end + (IF HitMultiples > 0 THEN Epsilon ELSE 0)
  BY <1>1, <1>2, <1>3, <1>4, <1>5, <1>6
<1> QED
  BY <1>1, <1>7, <1>8 DEF Clock!Tick

LEMMA StepKeepsClockInv ==
  ASSUME ClockInv, MaxDt > 0,
         NEW in \in Inputs, NEW why \in Reasons, Step(in, why)
  PROVE  ClockInv'
<1>1. IInv'
  BY StepPreserves DEF ClockInv
<1>2. (phase = "running" => now < end)'
  BY DEF Step
<1>3. (skipCountDown > 0 /\ option.energy => CFLmaxdt > 0)'
  <2>1. /\ in \in InputType /\ MaxDt \in Nat
    BY TimeAssumption, SubmodelAssumption
  <2>2. option' = option /\ CFLmaxdt' = NewCFL(in)
    BY DEF Step
  <2>3. CASE ~major
    <3>1. skipCountDown > 0
      BY <2>3, SubmodelAssumption DEF ClockInv, IInv, TypeOK, major
    <3>2. CFLmaxdt' = CFLmaxdt
      BY <2>2, <2>3 DEF NewCFL
    <3> QED
      BY <2>2, <3>1, <3>2 DEF ClockInv
  <2>4. CASE major /\ in.force = 0
    BY <2>1, <2>2, <2>4 DEF NewCFL, Min2, InputType
  <2>5. CASE major /\ in.force # 0
    <3>1. "diffusivity" \notin Present(in)
      BY <2>5 DEF Present
    <3>2. PICK c \in CountDown(why, in) : skipCountDown' = Decrement(c)
      BY DEF Step
    <3>3. c \in 0..SkipMax /\ c =< skipCountDown /\ skipCountDown = 0
      BY <2>5, <3>1, <3>2, CountDownBounds DEF ClockInv, IInv, major
    <3> QED
      BY <3>2, <3>3, SubmodelAssumption DEF Decrement
  <2> QED
    BY <2>3, <2>4, <2>5
<1> QED
  BY <1>1, <1>2, <1>3 DEF ClockInv

LEMMA NextImplementsClock ==
  ASSUME ClockInv, MaxDt > 0, [Next]_vars
  PROVE  ClockInv' /\ [Clock!Next]_(Clock!clock)
<1>1. ASSUME NEW newEnd \in EndTimes, RunTo(newEnd)
      PROVE  ClockInv' /\ Clock!Begin
  <2>1. IInv'
    BY <1>1, RunToPreserves DEF ClockInv
  <2>2. /\ end' = newEnd /\ now' = now
        /\ phase \in {"ready", "done"}
        /\ phase' = IF now < newEnd THEN "running" ELSE "done"
        /\ UNCHANGED <<skipCountDown, option, CFLmaxdt>>
    BY <1>1 DEF RunTo
  <2> QED
    BY <2>1, <2>2 DEF ClockInv, Clock!Begin
<1>2. ASSUME NEW in \in Inputs, NEW why \in Reasons, Step(in, why)
      PROVE  ClockInv' /\ Clock!Tick
  BY <1>2, StepIsTick, StepKeepsClockInv
<1>3. CASE StressBalanceFails
           \/ \E in \in Inputs, why \in Reasons : EnergyStepFails(in, why)
  <2>1. IInv'
    BY <1>3, FailuresPreserve DEF ClockInv
  <2>2. /\ phase = "running" /\ phase' = "failed"
        /\ UNCHANGED <<now, end, skipCountDown, option, CFLmaxdt>>
    BY <1>3 DEF StressBalanceFails, EnergyStepFails
  <2> QED
    BY <2>1, <2>2 DEF ClockInv, Clock!Next, Clock!Abort
<1>4. CASE UNCHANGED vars
  <2>1. IInv'
    BY <1>4, NextPreserves DEF ClockInv
  <2>2. UNCHANGED <<now, end, phase, skipCountDown, option, CFLmaxdt>>
    BY <1>4 DEF vars, clockVars
  <2> QED
    BY <2>1, <2>2 DEF ClockInv, Clock!clock
<1> QED
  BY <1>1, <1>2, <1>3, <1>4 DEF Next, Advance, Clock!Next

(* With a maximum step length, the time-stepping loop implements the clock  *)
(* the other parts of the program rely on: every pass of the loop moves the *)
(* time forward, and passes the end of the run only with                    *)
(* -timestep_hit_multiples, by no more than its tolerance.                  *)
THEOREM ImplementsClock == MaxDt > 0 => (Spec => ClockSpec)
<1> SUFFICES ASSUME MaxDt > 0 PROVE Spec => ClockSpec
  OBVIOUS
<1>1. Init => ClockInv /\ Clock!Init
  BY InitEstablishes DEF Init, ClockInv, Clock!Init
<1>2. ClockInv /\ [Next]_vars => ClockInv' /\ [Clock!Next]_(Clock!clock)
  BY NextImplementsClock
<1> QED
  BY <1>1, <1>2, PTL DEF Spec, ClockSpec, Clock!Spec
-----------------------------------------------------------------------------
(* An energy step this long is stable and accepted by the bedrock unit.     *)
Stable(length) == length =< steady.cfl3d /\ (option.btu => length =< BTULimit)

(* Either a cycle is about to begin, or it ends with a stable energy step,  *)
(* should every step that is left be as long as the diffusivity allows.     *)
CycleFits ==
  option.energy =>
    \/ dtTempAge = 0 /\ skipCountDown = 0
    \/ option.mass /\ Stable(dtTempAge + (skipCountDown + 1) * steady.diff)

SteadyInv == IInv /\ steady \in Inputs /\ CycleFits

(* Bounds are kept, a fixed step does not override them, the last step is   *)
(* not stretched, and unsigned int holds skip_max.                          *)
SteadyConditions ==
  /\ HitMultiples = 0 /\ SkipMax =< UIntMax
  /\ \A in \in Inputs : in.force = 0

(* Fewer steps take less time.                                              *)
LEMMA FewerSteps ==
  ASSUME NEW a \in Nat, NEW b \in Nat, a =< b, NEW k \in Nat
  PROVE  a * k =< b * k /\ a * k \in Nat /\ b * k \in Nat
<1>1. PICK d \in Nat : b = a + d
  <2>1. b - a \in Nat /\ b = a + (b - a)
    OBVIOUS
  <2> QED
    BY <2>1
<1>2. a * k \in Nat /\ d * k \in Nat
  OBVIOUS
<1>3. b * k = a * k + d * k
  BY <1>1
<1> QED
  BY <1>2, <1>3

(* skip_counter(): the steps it asks for fit in the long one.               *)
LEMMA SkipCounterFits ==
  ASSUME SkipMax =< UIntMax, NEW long \in Nat, NEW short \in Nat \ {0},
         NEW f \in SkipCounter(long, short)
  PROVE  f \in Nat /\ f * short =< long
<1> DEFINE quotient == (95 * long) \div (100 * short)
<1>1. /\ quotient \in Nat
      /\ (100 * short) * quotient =< 95 * long
  <2>1. 95 * long \in Nat /\ 100 * short \in Nat /\ 100 * short > 0
    OBVIOUS
  <2> QED
    BY <2>1, DivisionLemma
<1>2. SkipMax \in Nat /\ UIntMax \in Nat
  BY SubmodelAssumption
<1>3. \/ f = 0
      \/ f \in 0..SkipMax /\ quotient > UIntMax
      \/ f = Min2(quotient, SkipMax)
  BY DEF SkipCounter
<1> HIDE DEF quotient
<1>4. f \in Nat /\ f =< quotient
  BY <1>1, <1>2, <1>3 DEF Min2
<1>5. f * short =< quotient * short /\ quotient * short \in Nat /\ f * short \in Nat
  BY <1>1, <1>4, FewerSteps
<1>6. (100 * short) * quotient = 100 * (quotient * short)
  BY <1>1
<1> QED
  BY <1>1, <1>4, <1>5, <1>6

(* In a major step the 3D CFL bound and the bedrock unit are among the      *)
(* restrictions.                                                            *)
LEMMA LongStepIsStable ==
  ASSUME TypeOK, SteadyConditions, steady \in Inputs, option.energy, major,
         NEW length \in Int,
         \A other \in Present(steady) \ {"diffusivity"} :
            length =< Limit(other, steady)
  PROVE  Stable(length)
<1>1. /\ steady.force = 0 /\ steady.cfl3d \in Nat /\ MaxDt \in Nat
      /\ BTULimit \in Nat
  BY TimeAssumption, SubmodelAssumption DEF SteadyConditions, InputType
<1>2. "3D CFL" \in Present(steady) /\ (option.btu => "BTU" \in Present(steady))
  BY <1>1 DEF Present, Reasons
<1>3. /\ Limit("3D CFL", steady) = Min2(MaxDt, steady.cfl3d)
      /\ Limit("BTU", steady) = BTULimit
  BY <1>1 DEF Limit, NewCFL
<1>4. length =< Min2(MaxDt, steady.cfl3d)
  BY <1>2, <1>3
<1>5. option.btu => length =< BTULimit
  BY <1>2, <1>3
<1> QED
  BY <1>1, <1>4, <1>5 DEF Min2, Stable

(* The cycle that a major step begins.                                      *)
LEMMA NewCycleFits ==
  ASSUME IInv, SteadyConditions, steady \in Inputs, option.energy, major,
         NEW why \in Reasons, NEW c \in CountDown(why, steady), c > 0
  PROVE  /\ c \in Nat /\ option.mass /\ option.skip
         /\ Stable(c * steady.diff)
<1> DEFINE others == Present(steady) \ {"diffusivity"}
           long   == {r \in others :
                        \A s \in others : Limit(r, steady) =< Limit(s, steady)}
<1>1. /\ c \in 0..SkipMax /\ option.mass /\ option.skip
      /\ "diffusivity" \notin Present(steady) => c =< skipCountDown
  BY CountDownBounds DEF IInv
<1>2. SkipMax \in Nat /\ steady.diff \in Nat \ {0} /\ skipCountDown = 0
  BY SubmodelAssumption DEF InputType, major
<1>3. "diffusivity" \in Present(steady)
  BY <1>1, <1>2
<1>4. PICK f \in UNION {SkipCounter(Limit(r, steady), steady.diff) : r \in long} :
         c = f \/ (c = 1 /\ f > 1)
  BY <1>3 DEF CountDown
<1>5. PICK r \in long : f \in SkipCounter(Limit(r, steady), steady.diff)
  BY <1>4
<1>6. r \in Reasons /\ r \in Present(steady)
  BY <1>5 DEF Present
<1>7. Limit(r, steady) \in Nat
  BY <1>6, LimitIsNat DEF IInv
<1>8. f \in Nat /\ f * steady.diff =< Limit(r, steady)
  BY <1>2, <1>5, <1>7, SkipCounterFits DEF SteadyConditions
<1>9. c \in Nat /\ c =< f
  BY <1>1, <1>2, <1>4, <1>8
<1>10. c * steady.diff =< f * steady.diff /\ c * steady.diff \in Nat /\ f * steady.diff \in Nat
  BY <1>2, <1>8, <1>9, FewerSteps
<1>11. ASSUME NEW other \in others
       PROVE  c * steady.diff =< Limit(other, steady)
  <2>1. Limit(r, steady) =< Limit(other, steady)
    BY <1>5
  <2>2. Limit(other, steady) \in Nat
    BY LimitIsNat DEF IInv, Present
  <2> QED
    BY <1>7, <1>8, <1>10, <2>1, <2>2
<1>12. Stable(c * steady.diff)
  BY <1>10, <1>11, LongStepIsStable DEF IInv
<1> QED
  BY <1>1, <1>9, <1>12

(* A step is not longer than any restriction.                               *)
LEMMA SteadyStepLength ==
  ASSUME IInv, SteadyConditions, steady \in Inputs, NEW why \in Reasons,
         Binding(why, steady)
  PROVE  /\ StepLength(Limit(why, steady)) = Limit(why, steady)
         /\ Limit(why, steady) \in Nat
         /\ \A other \in Present(steady) : Limit(why, steady) =< Limit(other, steady)
         /\ option.mass => Limit(why, steady) =< steady.diff
<1>1. Limit(why, steady) \in Nat
  BY LimitIsNat DEF IInv, Binding
<1>2. StepLength(Limit(why, steady)) = Limit(why, steady)
  BY <1>1, StepLengthBounds DEF IInv, SteadyConditions
<1>3. \A other \in Present(steady) : Limit(why, steady) =< Limit(other, steady)
  BY DEF Binding
<1>4. option.mass => "diffusivity" \in Present(steady)
  BY DEF SteadyConditions, Present, Reasons
<1>5. Limit("diffusivity", steady) = steady.diff
  BY DEF Limit
<1> QED
  BY <1>1, <1>2, <1>3, <1>4, <1>5

(* A cycle goes on as planned, or is cut short.                             *)
LEMMA StepKeepsCycle ==
  ASSUME SteadyInv, SteadyConditions, NEW why \in Reasons, Step(steady, why),
         steady' = steady
  PROVE  CycleFits'
<1> SUFFICES ASSUME option.energy'
             PROVE  \/ dtTempAge' = 0 /\ skipCountDown' = 0
                    \/ option'.mass /\ Stable(dtTempAge + (skipCountDown + 1) * steady.diff)'
  BY DEF CycleFits
<1> DEFINE d == StepLength(Limit(why, steady))
<1>1. /\ option' = option /\ option.energy /\ IInv /\ CycleFits /\ steady \in Inputs
      /\ Binding(why, steady)
  BY DEF Step, SteadyInv
<1>2. PICK c \in CountDown(why, steady) : skipCountDown' = Decrement(c)
  BY DEF Step
<1>3. /\ c \in 0..SkipMax
      /\ c > 0 => option.mass /\ option.skip
      /\ ~major => c =< skipCountDown
  BY <1>1, CountDownBounds DEF IInv
<1>4. /\ steady.diff \in Nat \ {0} /\ dtTempAge \in Nat /\ skipCountDown \in Nat
      /\ SkipMax \in Nat /\ BTULimit \in Nat /\ steady.cfl3d \in Nat
  BY <1>1, SubmodelAssumption DEF InputType, IInv, TypeOK
<1>5. CASE major
  <2>1. dtTempAge' = 0
    BY <1>1, <1>5 DEF Step
  <2>2. CASE c = 0
    <3>1. skipCountDown' = 0
      BY <1>2, <2>2 DEF Decrement
    <3> QED
      BY <2>1, <3>1
  <2>3. CASE c > 0
    <3>1. c \in Nat /\ option.mass /\ option.skip /\ Stable(c * steady.diff)
      BY <1>1, <1>5, <2>3, NewCycleFits
    <3>2. skipCountDown' = c - 1
      BY <1>2, <2>3, <3>1 DEF Decrement
    <3>3. dtTempAge' + (skipCountDown' + 1) * steady.diff = c * steady.diff
      <4>1. c * steady.diff \in Nat
        BY <1>4, <3>1
      <4>2. skipCountDown' + 1 = c
        BY <3>1, <3>2
      <4> QED
        BY <2>1, <4>1, <4>2
    <3>4. Stable(dtTempAge + (skipCountDown + 1) * steady.diff)'
      BY <1>1, <3>1, <3>3 DEF Stable
    <3> QED
      BY <1>1, <3>1, <3>4
  <2> QED
    BY <1>3, <1>4, <2>2, <2>3
<1>6. CASE ~major
  <2>1. skipCountDown > 0
    BY <1>4, <1>6 DEF major
  <2>2. option.mass /\ Stable(dtTempAge + (skipCountDown + 1) * steady.diff)
    BY <1>1, <2>1 DEF CycleFits
  <2>3. option.skip
    BY <1>1, <2>1 DEF IInv, SkipOnlyWithMass
  <2>4. skipCountDown' \in Nat /\ skipCountDown' + 1 =< skipCountDown
    BY <1>2, <1>3, <1>4, <1>6, <2>1, <2>2, <2>3 DEF Decrement
  <2>5. d \in Nat /\ d =< steady.diff
    BY <1>1, <2>2, SteadyStepLength
  <2>6. dtTempAge' = dtTempAge + d
    BY <1>6 DEF Step, EnergyInterval
  <2>7. PICK rest \in Nat : rest = (skipCountDown' + 1) * steady.diff
    BY <1>4, <2>4
  <2>8. PICK left \in Nat : left = skipCountDown * steady.diff
    BY <1>4
  <2>9. rest =< left
    <3>1. skipCountDown' \in Nat
      BY <2>4
    <3>2. PICK m \in Nat : m = skipCountDown'
      BY <3>1
    <3>3. PICK n \in Nat : n = m + 1
      OBVIOUS
    <3>4. n =< skipCountDown
      BY <2>4, <3>2, <3>3
    <3>5. n * steady.diff =< skipCountDown * steady.diff
      BY <1>4, <3>4, FewerSteps
    <3> QED
      BY <2>7, <2>8, <3>2, <3>3, <3>5
  <2>10. (skipCountDown + 1) * steady.diff = left + steady.diff
    BY <1>4, <2>8
  <2> HIDE DEF d
  <2>11. dtTempAge' + rest =< dtTempAge + (skipCountDown + 1) * steady.diff
    BY <1>4, <2>5, <2>6, <2>9, <2>10
  <2>12. dtTempAge' + rest \in Nat
    BY <1>4, <2>5, <2>6
  <2>13. dtTempAge + (skipCountDown + 1) * steady.diff \in Nat
    BY <1>4, <2>10
  <2>14. Stable(dtTempAge' + rest)
    BY <1>4, <2>2, <2>11, <2>12, <2>13 DEF Stable
  <2>15. Stable(dtTempAge + (skipCountDown + 1) * steady.diff)'
    BY <1>1, <2>7, <2>14 DEF Stable
  <2> QED
    BY <1>1, <2>2, <2>15
<1> QED
  BY <1>5, <1>6

(* Only steps change the cycle; the beginning of a run shortens it.         *)
LEMMA SteadyNextPreserves ==
  SteadyInv /\ SteadyConditions /\ [SteadyNext]_<<vars, steady>> => SteadyInv'
<1> SUFFICES ASSUME SteadyInv, SteadyConditions, [SteadyNext]_<<vars, steady>>
             PROVE  SteadyInv'
  OBVIOUS
<1>1. steady' = steady /\ steady' \in Inputs
  BY DEF SteadyInv, SteadyNext
<1>2. IInv'
  <2>1. [Next]_vars
    BY DEF SteadyNext, Next, Advance, SteadyInv
  <2> QED
    BY <2>1, NextPreserves DEF SteadyInv
<1>3. CycleFits'
  <2>1. ASSUME NEW why \in Reasons, Step(steady, why) PROVE CycleFits'
    BY <1>1, <2>1, StepKeepsCycle
  <2>2. ASSUME NEW newEnd \in EndTimes, RunTo(newEnd) PROVE CycleFits'
    <3>1. /\ option' = option /\ skipCountDown' = skipCountDown /\ dtTempAge' = 0
      BY <2>2 DEF RunTo
    <3>2. /\ dtTempAge \in Nat /\ skipCountDown \in Nat /\ steady.diff \in Nat
          /\ steady.cfl3d \in Nat /\ BTULimit \in Nat
      BY SubmodelAssumption DEF SteadyInv, InputType, IInv, TypeOK
    <3>3. PICK left \in Nat : left = (skipCountDown + 1) * steady.diff
      BY <3>2
    <3>4. Stable(dtTempAge + left) => Stable(0 + left)
      BY <3>2 DEF Stable
    <3> QED
      BY <1>1, <3>1, <3>3, <3>4 DEF SteadyInv, CycleFits, Stable
  <2>3. ASSUME NEW why \in Reasons, EnergyStepFails(steady, why) PROVE CycleFits'
    BY <1>1, <2>3 DEF EnergyStepFails, SteadyInv, CycleFits, Stable
  <2>4. CASE UNCHANGED <<vars, steady>>
    BY <2>4 DEF vars, SteadyInv, CycleFits, Stable
  <2> QED
    BY <2>1, <2>2, <2>3, <2>4 DEF SteadyNext
<1> QED
  BY <1>1, <1>2, <1>3 DEF SteadyInv

(* While the bounds stay as they are, no skipped energy step is longer than *)
(* the 3D CFL bound and the stable step of the bedrock unit: 95% of the     *)
(* long step in skip_counter() are enough, unless the step is stretched by  *)
(* -timestep_hit_multiples or fixed.                                        *)
THEOREM SkippedEnergyStepsAreStable ==
  SteadyConditions => (SteadySpec => []SteadyEnergyStepStable)
<1> SUFFICES ASSUME SteadyConditions PROVE SteadySpec => []SteadyEnergyStepStable
  OBVIOUS
<1>1. SteadyInit => SteadyInv
  <2> SUFFICES ASSUME SteadyInit PROVE SteadyInv
    OBVIOUS
  <2>1. IInv
    BY InitEstablishes DEF SteadyInit
  <2> QED
    BY <2>1 DEF SteadyInit, Init, SteadyInv, CycleFits
<1>2. SteadyInv => SteadyEnergyStepStable
  <2> SUFFICES ASSUME SteadyInv, major, option.energy,
                      NEW why \in Reasons, Binding(why, steady)
               PROVE  Stable(dtTempAge + StepLength(Limit(why, steady)))
    BY DEF SteadyEnergyStepStable, Stable
  <2>1. IInv /\ TypeOK /\ CycleFits /\ steady \in Inputs /\ skipCountDown = 0
    BY DEF SteadyInv, IInv, major
  <2>2. PICK d \in Nat : d = Limit(why, steady)
    BY <2>1, SteadyStepLength
  <2>3. /\ StepLength(Limit(why, steady)) = d
        /\ \A other \in Present(steady) : d =< Limit(other, steady)
        /\ option.mass => d =< steady.diff
    BY <2>1, <2>2, SteadyStepLength
  <2>4. /\ dtTempAge \in Nat /\ steady.diff \in Nat
        /\ steady.cfl3d \in Nat /\ BTULimit \in Nat
    BY <2>1, SubmodelAssumption DEF InputType, TypeOK
  <2>5. CASE dtTempAge = 0
    <3>1. Stable(d)
      BY <2>1, <2>3, LongStepIsStable
    <3> QED
      BY <2>3, <2>5, <3>1
  <2>6. CASE option.mass /\ Stable(dtTempAge + (skipCountDown + 1) * steady.diff)
    <3>1. (skipCountDown + 1) * steady.diff = steady.diff
      BY <2>1, <2>4
    <3>2. Stable(dtTempAge + steady.diff) /\ d =< steady.diff
      BY <2>3, <2>6, <3>1
    <3>3. Stable(dtTempAge + d)
      BY <2>4, <3>2 DEF Stable
    <3> QED
      BY <2>3, <3>3
  <2> QED
    BY <2>1, <2>5, <2>6 DEF CycleFits
<1> QED
  BY <1>1, <1>2, SteadyNextPreserves, PTL DEF SteadySpec

-----------------------------------------------------------------------------
(***************************************************************************)
(* The stress balance of a step: what the retries of its solver leave       *)
(* behind, for every number of updates, runs, tries and iterations.         *)
(***************************************************************************)

(* While SSAFD looks for a velocity, exactly the attempts before the        *)
(* present one have failed; the present one is among AllAttempts.           *)
TriedInOrder ==
  Solving =>
    /\ setup.solver = "fd"
    /\ strategy = "default" => tries = 0 /\ attempted = {}
    /\ strategy = "underrelaxed" => tries = 0 /\ attempted = {<<"default", 0>>}
    /\ strategy = "regularized" =>
         /\ setup.regularized
         /\ attempted = {<<"default", 0>>, <<"underrelaxed", 0>>}
                          \cup {<<"regularized", t>> : t \in 0..(tries - 1)}

(* Block Jacobi is used only if it may fail once more.                      *)
MayFail == Solving /\ ~asm => failures < MaxFailures

RetryInv == Recovery /\ TriedInOrder /\ MayFail

LEMMA SolverBounds ==
  /\ MaxFailures \in Nat \ {0} /\ MaxTries \in Nat \ {0}
  /\ MaxIterations \in Nat \ {0} /\ MaxRuns \in Nat \ {0}
  /\ MaxUpdates \in Nat
  /\ 0 \in 0..(MaxTries - 1) /\ 0 \in 0..(MaxIterations - 1)
  /\ 0 \in 0..MaxFailures /\ 0 \in 0..MaxUpdates /\ 1 \in 1..MaxRuns
<1>1. {MaxFailures, MaxTries, MaxIterations, MaxRuns} \subseteq Nat \ {0}
  BY StressBalanceAssumption
<1>2. MaxUpdates \in Nat
  BY StressBalanceAssumption
<1> QED
  BY <1>1, <1>2

USE StressBalanceAssumption, SolverBounds

-----------------------------------------------------------------------------
(* Scaling changes nothing but the scale.                                   *)
LEMMA ScaledVelocity ==
  ASSUME setup \in SetupType, NEW u \in 0..MaxUpdates, NEW s \in States
  PROVE  LET v == Scaled(Velocity(u, s))
         IN  /\ v \in Velocities
             /\ v.state = s
             /\ v.update = u
             /\ v.scaled = IF setup.brutal THEN 1 ELSE 0
BY DEF Scaled, Velocity, Velocities, SetupType

LEMMA PlainVelocity ==
  ASSUME NEW u \in 0..MaxUpdates, NEW s \in States
  PROVE  /\ Velocity(u, s) \in Velocities
         /\ Velocity(u, s).state = s
         /\ Velocity(u, s).update = u
         /\ Velocity(u, s).scaled = 0
BY DEF Velocity, Velocities

LEMMA ZeroVelocity == Zero \in Velocities /\ Zero.state = "zero"
<1>1. 0 \in 0..MaxUpdates /\ "zero" \in States
  BY DEF States
<1> QED
  BY <1>1, PlainVelocity DEF Zero

LEMMA InitRetryInv == SolverInit => RetryInv
<1> SUFFICES ASSUME SolverInit PROVE RetryInv
  OBVIOUS
<1> USE ZeroVelocity DEF SolverInit
<1>1. SolverTypeOK
  BY Setups \subseteq SetupType DEF SolverTypeOK, Strategies
<1>2. NeverDiverged /\ UnsolvedAfterAll /\ FreshGuess /\ ScaledOnce
  BY DEF NeverDiverged, UnsolvedAfterAll, FreshGuess, ScaledOnce, Solving, Strategies
<1>3. TriedInOrder /\ MayFail
  BY DEF TriedInOrder, MayFail, Solving, Strategies
<1> QED
  BY <1>1, <1>2, <1>3 DEF RetryInv, Recovery

-----------------------------------------------------------------------------
LEMMA BeginFDKeeps == RetryInv /\ BeginFD => RetryInv'
<1> SUFFICES ASSUME RetryInv, BeginFD PROVE RetryInv'
  OBVIOUS
<1> USE DEF RetryInv, Recovery, BeginFD, Update, Attempt, derived, Strategies
<1>1. SolverTypeOK'
  BY DEF SolverTypeOK
<1>2. NeverDiverged' /\ UnsolvedAfterAll' /\ FreshGuess' /\ ScaledOnce'
  BY DEF NeverDiverged, UnsolvedAfterAll, FreshGuess, ScaledOnce, Solving
<1>3. TriedInOrder'
  BY DEF TriedInOrder, Solving
<1>4. failures \in Nat /\ failures' = failures
  BY DEF SolverTypeOK
<1>5. MayFail'
  <2>1. ~(failures >= MaxFailures) => failures < MaxFailures
    BY <1>4
  <2>2. ~asm' => ~(failures >= MaxFailures)
    BY Zenon
  <2> QED
    BY <1>4, <2>1, <2>2 DEF MayFail
<1> QED
  BY <1>1, <1>2, <1>3, <1>5

LEMMA SolveFEMKeeps == RetryInv /\ SolveFEM => RetryInv'
<1> SUFFICES ASSUME RetryInv, SolveFEM PROVE RetryInv'
  OBVIOUS
<1> USE DEF RetryInv, Recovery, SolveFEM, Update, Strategies
<1>1. updates' \in 0..MaxUpdates /\ {"converged", "diverged"} \subseteq States
  BY DEF SolverTypeOK, States
<1>2. CASE global' = Velocity(updates', "converged") /\ Finish(global') /\ UNCHANGED saved
  <2> USE <1>1, <1>2, PlainVelocity DEF Finish
  <2>1. SolverTypeOK'
    BY DEF SolverTypeOK
  <2>2. NeverDiverged' /\ UnsolvedAfterAll' /\ FreshGuess' /\ ScaledOnce'
    BY DEF NeverDiverged, UnsolvedAfterAll, FreshGuess, ScaledOnce, Solving
  <2>3. TriedInOrder' /\ MayFail'
    BY DEF TriedInOrder, MayFail, Solving
  <2> QED
    BY <2>1, <2>2, <2>3
<1>3. CASE global' = Velocity(updates', "diverged") /\ Throw /\ UNCHANGED <<velocity, derived>>
  <2> USE <1>1, <1>3, PlainVelocity DEF Throw, derived
  <2>1. SolverTypeOK'
    BY DEF SolverTypeOK
  <2>2. NeverDiverged' /\ UnsolvedAfterAll' /\ FreshGuess' /\ ScaledOnce'
    BY DEF NeverDiverged, UnsolvedAfterAll, FreshGuess, ScaledOnce, Solving
  <2>3. TriedInOrder' /\ MayFail'
    BY DEF TriedInOrder, MayFail, Solving
  <2> QED
    BY <2>1, <2>2, <2>3
<1> QED
  BY <1>2, <1>3

LEMMA IterateKeeps == RetryInv /\ Iterate => RetryInv'
<1> SUFFICES ASSUME RetryInv, Iterate PROVE RetryInv'
  OBVIOUS
<1> USE DEF RetryInv, Recovery, Iterate, Solving, Strategies, derived
<1>1. updates \in 0..MaxUpdates /\ "iterate" \in States
  BY DEF SolverTypeOK, States
<1>2. SolverTypeOK'
  BY <1>1, PlainVelocity DEF SolverTypeOK
<1>3. NeverDiverged' /\ UnsolvedAfterAll' /\ FreshGuess' /\ ScaledOnce'
  BY <1>1, PlainVelocity
     DEF SolverTypeOK, NeverDiverged, UnsolvedAfterAll, FreshGuess, ScaledOnce
<1>4. TriedInOrder' /\ MayFail'
  BY DEF TriedInOrder, MayFail
<1> QED
  BY <1>2, <1>3, <1>4

LEMMA ConvergeKeeps == RetryInv /\ Converge => RetryInv'
<1> SUFFICES ASSUME RetryInv, Converge PROVE RetryInv'
  OBVIOUS
<1> USE DEF RetryInv, Recovery, Converge, Finish, Solving, Strategies
<1>1. updates \in 0..MaxUpdates /\ "converged" \in States /\ setup \in SetupType
  BY DEF SolverTypeOK, States
<1>2. SolverTypeOK'
  BY <1>1, PlainVelocity, ScaledVelocity DEF SolverTypeOK
<1>3. NeverDiverged' /\ UnsolvedAfterAll' /\ FreshGuess' /\ ScaledOnce'
  BY <1>1, ScaledVelocity
     DEF NeverDiverged, UnsolvedAfterAll, FreshGuess, ScaledOnce, TriedInOrder
<1>4. TriedInOrder' /\ MayFail'
  BY DEF TriedInOrder, MayFail
<1> QED
  BY <1>2, <1>3, <1>4

LEMMA RetryWithASMKeeps == RetryInv /\ RetryWithASM => RetryInv'
<1> SUFFICES ASSUME RetryInv, RetryWithASM PROVE RetryInv'
  OBVIOUS
<1> USE DEF RetryInv, Recovery, RetryWithASM, Solving, Strategies, derived
<1>1. SolverTypeOK'
  BY DEF SolverTypeOK, MayFail
<1>2. NeverDiverged' /\ UnsolvedAfterAll' /\ FreshGuess' /\ ScaledOnce'
  BY DEF NeverDiverged, UnsolvedAfterAll, FreshGuess, ScaledOnce
<1>3. TriedInOrder' /\ MayFail'
  BY DEF TriedInOrder, MayFail
<1> QED
  BY <1>1, <1>2, <1>3

LEMMA LinearSolveFailsKeeps == RetryInv /\ LinearSolveFails => RetryInv'
<1> SUFFICES ASSUME RetryInv, LinearSolveFails PROVE RetryInv'
  OBVIOUS
<1> USE DEF RetryInv, Recovery, LinearSolveFails, Throw, Solving, Strategies, derived
<1>1. updates \in 0..MaxUpdates /\ "diverged" \in States
  BY DEF SolverTypeOK, States
<1>2. SolverTypeOK'
  BY <1>1, PlainVelocity DEF SolverTypeOK
<1>3. NeverDiverged' /\ UnsolvedAfterAll' /\ FreshGuess' /\ ScaledOnce'
  BY DEF NeverDiverged, UnsolvedAfterAll, FreshGuess, ScaledOnce
<1>4. TriedInOrder' /\ MayFail'
  BY DEF TriedInOrder, MayFail
<1> QED
  BY <1>2, <1>3, <1>4

-----------------------------------------------------------------------------
(* A failure adds the present attempt to those that have failed.            *)
LEMMA OneMoreFailed ==
  ASSUME SolverTypeOK, TriedInOrder, PicardFailure
  PROVE  /\ strategy = "default" => attempted' = {<<"default", 0>>}
         /\ strategy = "underrelaxed" =>
              attempted' = {<<"default", 0>>, <<"underrelaxed", 0>>}
         /\ strategy = "regularized" =>
              attempted' = {<<"default", 0>>, <<"underrelaxed", 0>>}
                             \cup {<<"regularized", t>> : t \in 0..tries}
         /\ attempted' \subseteq Strategies \X (0..(MaxTries - 1))
<1> USE DEF PicardFailure, TriedInOrder, Solving, Strategies
<1>1. strategy = "default" => attempted' = {<<"default", 0>>}
  OBVIOUS
<1>2. strategy = "underrelaxed" =>
        attempted' = {<<"default", 0>>, <<"underrelaxed", 0>>}
  OBVIOUS
<1>3. strategy = "regularized" =>
        attempted' = {<<"default", 0>>, <<"underrelaxed", 0>>}
                       \cup {<<"regularized", t>> : t \in 0..tries}
  <2>1. tries \in Nat
    BY DEF SolverTypeOK
  <2>2. 0..tries = 0..(tries - 1) \cup {tries}
    BY <2>1
  <2> QED
    BY <2>2
<1>4. attempted' \subseteq Strategies \X (0..(MaxTries - 1))
  BY DEF SolverTypeOK
<1> QED
  BY <1>1, <1>2, <1>3, <1>4

LEMMA LastVelocity ==
  ASSUME SolverTypeOK
  PROVE  Last \in Velocities /\ Last.state = "iterate"
<1>1. updates \in 0..MaxUpdates /\ "iterate" \in States
  BY DEF SolverTypeOK, States
<1> QED
  BY <1>1, PlainVelocity DEF Last

LEMMA TryUnderrelaxedKeeps == RetryInv /\ TryUnderrelaxed => RetryInv'
<1> SUFFICES ASSUME RetryInv, TryUnderrelaxed PROVE RetryInv'
  OBVIOUS
<1> USE DEF RetryInv, Recovery, TryUnderrelaxed, Attempt, derived, Strategies
<1>1. /\ UNCHANGED <<setup, old, failures, updates, runs, saved>>
      /\ setup.solver = "fd"
  BY DEF PicardFailure, TriedInOrder, Solving
<1>2. SolverTypeOK'
  BY <1>1, OneMoreFailed, LastVelocity DEF SolverTypeOK
<1>3. NeverDiverged' /\ UnsolvedAfterAll' /\ FreshGuess' /\ ScaledOnce'
  BY <1>1, LastVelocity
     DEF NeverDiverged, UnsolvedAfterAll, FreshGuess, ScaledOnce, Solving, Last
<1>4. TriedInOrder' /\ MayFail'
  BY <1>1, OneMoreFailed DEF SolverTypeOK, TriedInOrder, MayFail, Solving
<1> QED
  BY <1>2, <1>3, <1>4

LEMMA TryRegularizedKeeps == RetryInv /\ TryRegularized => RetryInv'
<1> SUFFICES ASSUME RetryInv, TryRegularized PROVE RetryInv'
  OBVIOUS
<1> USE DEF RetryInv, Recovery, TryRegularized, Attempt, derived, Strategies
<1>1. /\ UNCHANGED <<setup, old, failures, updates, runs, saved>>
      /\ setup.solver = "fd"
      /\ strategy \in {"underrelaxed", "regularized"}
  BY DEF PicardFailure, TriedInOrder, Solving
<1>2. NextTry \in 0..(MaxTries - 1)
  BY DEF SolverTypeOK, NextTry
<1>3. SolverTypeOK'
  BY <1>1, <1>2, OneMoreFailed DEF SolverTypeOK
<1>4. NeverDiverged' /\ UnsolvedAfterAll' /\ FreshGuess' /\ ScaledOnce'
  BY <1>1 DEF NeverDiverged, UnsolvedAfterAll, FreshGuess, ScaledOnce, Solving
<1>5. attempted' = {<<"default", 0>>, <<"underrelaxed", 0>>}
                     \cup {<<"regularized", t>> : t \in 0..(tries' - 1)}
  <2>1. CASE strategy = "underrelaxed"
    BY <2>1, OneMoreFailed DEF NextTry
  <2>2. CASE strategy = "regularized"
    <3>1. tries' - 1 = tries
      BY <2>2 DEF NextTry, SolverTypeOK
    <3> QED
      BY <2>2, <3>1, OneMoreFailed
  <2> QED
    BY <1>1, <2>1, <2>2
<1>6. TriedInOrder' /\ MayFail'
  BY <1>1, <1>5 DEF SolverTypeOK, TriedInOrder, MayFail, Solving
<1> QED
  BY <1>3, <1>4, <1>6

LEMMA GiveUpKeeps == RetryInv /\ GiveUp => RetryInv'
<1> SUFFICES ASSUME RetryInv, GiveUp PROVE RetryInv'
  OBVIOUS
<1> USE DEF RetryInv, Recovery, GiveUp, Finish, Strategies
<1>1. /\ UNCHANGED <<setup, old, failures, updates, runs, saved>>
      /\ setup.solver = "fd"
      /\ strategy \in {"underrelaxed", "regularized"}
      /\ updates \in 0..MaxUpdates /\ "iterate" \in States /\ setup \in SetupType
  BY DEF PicardFailure, TriedInOrder, Solving, SolverTypeOK, States
<1>2. SolverTypeOK'
  BY <1>1, OneMoreFailed, LastVelocity, ScaledVelocity DEF SolverTypeOK, Last
<1>3. NeverDiverged' /\ FreshGuess' /\ ScaledOnce'
  BY <1>1, ScaledVelocity DEF NeverDiverged, FreshGuess, ScaledOnce, Solving, Last
<1>4. attempted' = AllAttempts
  <2>1. CASE strategy = "underrelaxed"
    <3>1. ~setup.regularized
      BY <2>1 DEF NextTry
    <3> QED
      BY <2>1, <3>1, OneMoreFailed DEF AllAttempts
  <2>2. CASE strategy = "regularized"
    <3>1. setup.regularized /\ tries = MaxTries - 1
      BY <2>2 DEF NextTry, SolverTypeOK, TriedInOrder, Solving
    <3>2. {<<"regularized", t>> : t \in 0..tries} = {"regularized"} \X (0..(MaxTries - 1))
      BY <3>1
    <3> QED
      BY <2>2, <3>1, <3>2, OneMoreFailed DEF AllAttempts
  <2> QED
    BY <1>1, <2>1, <2>2
<1>5. UnsolvedAfterAll'
  BY <1>1, <1>4, ScaledVelocity DEF UnsolvedAfterAll, AllAttempts, Last
<1>6. TriedInOrder' /\ MayFail'
  BY DEF TriedInOrder, MayFail, Solving
<1> QED
  BY <1>2, <1>3, <1>5, <1>6

-----------------------------------------------------------------------------
LEMMA WriteKeeps == RetryInv /\ Write => RetryInv'
<1> SUFFICES ASSUME RetryInv, Write PROVE RetryInv'
  OBVIOUS
<1> USE DEF RetryInv, Recovery, Write, guess, derived, progress
<1>1. SolverTypeOK'
  BY DEF SolverTypeOK
<1>2. NeverDiverged' /\ UnsolvedAfterAll' /\ FreshGuess' /\ ScaledOnce'
  BY DEF NeverDiverged, UnsolvedAfterAll, AllAttempts, FreshGuess, Last, ScaledOnce,
         Solving
<1>3. TriedInOrder' /\ MayFail'
  BY DEF TriedInOrder, MayFail, Solving
<1> QED
  BY <1>1, <1>2, <1>3

LEMMA RestartKeeps == RetryInv /\ Restart => RetryInv'
<1> SUFFICES ASSUME RetryInv, Restart PROVE RetryInv'
  OBVIOUS
<1> USE ZeroVelocity DEF RetryInv, Recovery, Restart, Strategies
<1>1. SolverTypeOK'
  <2>1. {velocity', global', old', heating', column', saved'} \subseteq Velocities
    BY DEF SolverTypeOK
  <2>2. runs' \in 1..MaxRuns
    BY DEF SolverTypeOK
  <2> QED
    BY <2>1, <2>2 DEF SolverTypeOK
<1>2. NeverDiverged' /\ UnsolvedAfterAll' /\ FreshGuess' /\ ScaledOnce'
  BY DEF NeverDiverged, UnsolvedAfterAll, FreshGuess, ScaledOnce, Solving
<1>3. TriedInOrder' /\ MayFail'
  BY DEF TriedInOrder, MayFail, Solving
<1> QED
  BY <1>1, <1>2, <1>3

LEMMA SolverStutterKeeps == RetryInv /\ UNCHANGED solverVars => RetryInv'
<1> SUFFICES ASSUME RetryInv, UNCHANGED solverVars PROVE RetryInv'
  OBVIOUS
<1> USE DEF RetryInv, Recovery, solverVars
<1>1. SolverTypeOK'
  BY DEF SolverTypeOK
<1>2. NeverDiverged' /\ UnsolvedAfterAll' /\ FreshGuess' /\ ScaledOnce'
  BY DEF NeverDiverged, UnsolvedAfterAll, AllAttempts, FreshGuess, Last, ScaledOnce,
         Solving
<1>3. TriedInOrder' /\ MayFail'
  BY DEF TriedInOrder, MayFail, Solving
<1> QED
  BY <1>1, <1>2, <1>3

LEMMA RetryInductive == SolverSpec => []RetryInv
<1>1. RetryInv /\ [SolverNext]_solverVars => RetryInv'
  BY BeginFDKeeps, SolveFEMKeeps, IterateKeeps, ConvergeKeeps,
     RetryWithASMKeeps, LinearSolveFailsKeeps, TryUnderrelaxedKeeps,
     TryRegularizedKeeps, GiveUpKeeps, WriteKeeps, RestartKeeps, SolverStutterKeeps
     DEF SolverNext, Solve
<1> QED
  BY <1>1, InitRetryInv, PTL DEF SolverSpec

(* For every choice of solver and options, and whatever diverges: no        *)
(* diverged vector gets into the velocity, the guess or a file; a velocity  *)
(* that did not converge is left only after every attempt has failed; each  *)
(* regularized attempt starts afresh; and the solution is scaled once, with *)
(* heating and 3D fields that belong to it.                                 *)
THEOREM RetriesRecover == SolverSpec => []Recovery
<1>1. RetryInv => Recovery
  BY DEF RetryInv
<1> QED
  BY <1>1, RetryInductive, PTL
=============================================================================

---------------------------- MODULE TimeStepping ----------------------------
(***************************************************************************)
(* The time-stepping loop of IceModel: run_to(), run(), step() and the      *)
(* adaptive choice of the step length in max_timestep(), with the "skip"    *)
(* mechanism (several mass-continuity steps per energy step), the cached    *)
(* 3D CFL bound, -timestep_hit_multiples, the energy clock                  *)
(* (t_TempAge, dt_TempAge) and the bedrock thermal unit, which accepts only *)
(* contiguous updates no longer than its stable step.                       *)
(*                                                                          *)
(* Time is counted in ticks.  Velocities and diffusivities appear only as   *)
(* the step lengths they allow, which the environment chooses anew in every *)
(* step (Inputs).  In those records 0 means that the restriction is absent. *)
(***************************************************************************)
EXTENDS Integers, Sequences

CONSTANTS Start,         \* Time::start()
          EndTimes,      \* ends a caller may pass to run_to(); bounds the clock
          Options,       \* configurations [mass, energy, age, skip, btu]
          Inputs,        \* what the sub-models allow in a step, see InputType
          MaxDt,         \* maximum_time_step_years; 0: "no maximum"
          SkipMax,       \* skip_max
          UIntMax,       \* largest quotient the cast to unsigned int can hold
          BTULimit,      \* stable step of the bedrock thermal unit
          HitMultiples,  \* timestep_hit_multiples; 0: off
          Epsilon,       \* its tolerance (1 second in the code)
          SnapTol        \* tolerance of Time::step (0.001 second in the code)

OptionType == [mass : BOOLEAN, energy : BOOLEAN, age : BOOLEAN,
               skip : BOOLEAN, btu : BOOLEAN]

InputType == [force : Nat, derived : Nat, report : Nat, ocean : Nat,
              cfl3d : Nat \ {0}, cfl2d : Nat \ {0}, diff : Nat \ {0}]

ASSUME TimeAssumption ==
  /\ Start \in Nat
  /\ EndTimes \subseteq Nat
  /\ Epsilon \in Nat
  /\ SnapTol \in Nat
  /\ HitMultiples \in Nat
  /\ MaxDt \in Nat

ASSUME SubmodelAssumption ==
  /\ Options \subseteq OptionType
  /\ Inputs \subseteq InputType
  /\ SkipMax \in Nat
  /\ UIntMax \in Nat
  /\ BTULimit \in Nat \ {0}

VARIABLES now,            \* m_time->current()
          end,            \* m_time->end()
          phase,          \* where the program is in run()
          option,         \* the configuration of this run
          skipCountDown,
          CFLmaxdt,       \* 3D CFL bound of the last major step
          tTempAge,       \* t_TempAge
          dtTempAge,      \* dt_TempAge
          hitLast,        \* timestep_hit_multiples_last_time
          btu,            \* last accepted interval of the bedrock unit
          substeps,       \* history: steps taken since the last major one
          energyTime,     \* history: model time the energy step has covered
          dropped,        \* history: model time run() removed from dt_TempAge
          ageTime         \* history: model time the age step has covered

clockVars   == <<now, end, phase>>
historyVars == <<substeps, energyTime, dropped, ageTime>>
vars == <<clockVars, option, skipCountDown, CFLmaxdt, tTempAge, dtTempAge,
          hitLast, btu, historyVars>>

Min2(a, b) == IF a =< b THEN a ELSE b

-----------------------------------------------------------------------------
(* The restrictions max_timestep() collects, in the order std::map keeps    *)
(* their names; ties are resolved in favour of the first one.  "report"     *)
(* stands for the reporting and calving restrictions, which sort first, and *)
(* "ocean" for the boundary models, which sort last.                        *)
MapOrder == <<"report", "2D CFL", "3D CFL", "BTU", "diffusivity",
              "end of the run", "fixed", "internal", "max", "ocean">>

Reasons == {"report", "2D CFL", "3D CFL", "BTU", "diffusivity",
            "end of the run", "fixed", "internal", "max", "ocean"}

Rank == [why \in Reasons |-> CHOOSE i \in 1..Len(MapOrder) : MapOrder[i] = why]

major == skipCountDown = 0

(* The bound of max_timestep_cfl_3d(), recomputed in major steps only; like *)
(* the 2D bound it starts from maximum_time_step_years.                     *)
NewCFL(in) ==
  IF in.force = 0 /\ option.energy /\ major THEN Min2(MaxDt, in.cfl3d)
                                            ELSE CFLmaxdt

(* Reading dt_restrictions["max"] inserts the key, so it is always there.   *)
Present(in) ==
  {w \in Reasons :
     \/ w = "max"
     \/ w = "end of the run" /\ end > now
     \/ w = "internal" /\ in.derived > 0
     \/ w = "report" /\ in.report > 0
     \/ w = "fixed" /\ in.force > 0
     \/ /\ in.force = 0
        /\ \/ w = "ocean" /\ in.ocean > 0
           \/ w = "BTU" /\ option.btu
           \/ w = "3D CFL" /\ option.energy
           \/ w \in {"2D CFL", "diffusivity"} /\ option.mass}

LimitEndIgnored(why, in) ==              \* mutant: time left counted from Start
  CASE why = "max"            -> MaxDt
    [] why = "end of the run" -> end - Start
    [] why = "diffusivity"    -> in.diff
    [] OTHER                  -> MaxDt

Limit(why, in) ==
  CASE why = "max"            -> MaxDt
    [] why = "end of the run" -> end - now
    [] why = "internal"       -> in.derived
    [] why = "report"         -> in.report
    [] why = "fixed"          -> in.force
    [] why = "ocean"          -> in.ocean
    [] why = "BTU"            -> BTULimit
    [] why = "3D CFL"         -> NewCFL(in)
    [] why = "2D CFL"         -> Min2(MaxDt, in.cfl2d)
    [] why = "diffusivity"    -> in.diff

(* why is the restriction that determines the step.  The search starts at   *)
(* "max" when a maximum is set, else at the first key.                      *)
Binding(why, in) ==
  /\ why \in Present(in)
  /\ \A other \in Present(in) : Limit(why, in) =< Limit(other, in)
  /\ \A other \in Present(in) :
        Limit(other, in) = Limit(why, in) =>
          IF MaxDt > 0 /\ MaxDt = Limit(why, in)
          THEN why = "max"
          ELSE Rank[why] =< Rank[other]

-----------------------------------------------------------------------------
(* -timestep_hit_multiples: the last multiple the step could reach, give or *)
(* take Epsilon, replaces the end of the step when it is ahead.             *)
LastMultiple(t) == hitLast + HitMultiples * ((t - hitLast) \div HitMultiples)

HitsMultipleNow(d) ==        \* mutant: a multiple at the present is "ahead"
  /\ HitMultiples > 0
  /\ LastMultiple(now + d + Epsilon) >= now

HitsMultiple(d) ==
  /\ HitMultiples > 0
  /\ LastMultiple(now + d + Epsilon) > now

StepLength(d) ==
  IF HitsMultiple(d) THEN LastMultiple(now + d + Epsilon) - now ELSE d

(* The values skip_counter() may return: the number of diffusive steps that *)
(* fit in 95% of the long step, at most SkipMax.  A quotient unsigned int   *)
(* cannot hold makes the cast undefined.                                    *)
SkipCounterRoundedUp(long, short) ==     \* mutant: ceil() for floor()
  {IF option.skip THEN Min2((long + short - 1) \div short, SkipMax) ELSE 0}

SkipCounter(long, short) ==
  LET quotient == (95 * long) \div (100 * short)
  IN  IF ~option.skip THEN {0}
      ELSE IF quotient > UIntMax THEN 0..SkipMax
      ELSE {Min2(quotient, SkipMax)}

(* The values max_timestep() may leave in skipCountDown.                    *)
CountDown(why, in) ==
  LET others == Present(in) \ {"diffusivity"}
      long   == {r \in others : \A s \in others : Limit(r, in) =< Limit(s, in)}
      fresh  == IF "diffusivity" \in Present(in) /\ major
                THEN UNION {SkipCounter(Limit(r, in), in.diff) : r \in long}
                ELSE {skipCountDown}
      big    == /\ why \in {"max", "internal", "end of the run"}
                /\ ~HitsMultiple(Limit(why, in))
  IN  {IF big /\ c > 1 THEN 1 ELSE c : c \in fresh}

(* step() counts a mass-continuity step of the skip mechanism.              *)
DecrementNever(c) == c                                                  \* mutant

Decrement(c) == IF option.mass /\ option.skip /\ c > 0 THEN c - 1 ELSE c

(* Time::step(): a remainder shorter than SnapTol is jumped over.           *)
TimeAfterRounded(t) ==      \* mutant: also jumps over a remainder of a whole tick
  IF end > t /\ end - t =< SnapTol THEN end ELSE t

TimeAfter(t) == IF end > t /\ end - t < SnapTol THEN end ELSE t

(* dt_TempAge after step() has added the length of the step to it.          *)
EnergyIntervalOneStep(d) == d           \* mutant: dt used where dt_TempAge is meant

EnergyInterval(d) == dtTempAge + d

-----------------------------------------------------------------------------
(* BedThermalUnit::update(tTempAge, length).  No interval is stored before  *)
(* the first update.                                                        *)
NoInterval == [t |-> -1, dt |-> 0]

BTURepeated(length) == btu = [t |-> tTempAge, dt |-> length]

BTUContiguous == btu = NoInterval \/ btu.t + btu.dt = tTempAge

BTURefuses(length) ==
  /\ option.btu
  /\ ~BTURepeated(length)
  /\ ~BTUContiguous \/ length > BTULimit

-----------------------------------------------------------------------------
Init ==
  /\ now = Start
  /\ end = Start
  /\ phase = "ready"
  /\ option \in Options
  /\ skipCountDown = 0
  /\ CFLmaxdt = 0
  /\ tTempAge = Start
  /\ dtTempAge = 0
  /\ hitLast = Start
  /\ btu = NoInterval
  /\ substeps = 0
  /\ energyTime = 0
  /\ dropped = 0
  /\ ageTime = 0

(* run_to(): set the end of the run, restart the energy clock at the        *)
(* current time and enter the loop.                                         *)
RunTo(newEnd) ==
  /\ phase \in {"ready", "done"}
  /\ end' = newEnd
  /\ phase' = IF now < newEnd THEN "running" ELSE "done"
  /\ tTempAge' = now
  /\ dtTempAge' = 0
  /\ dropped' = dropped + dtTempAge
  /\ UNCHANGED <<now, option, skipCountDown, CFLmaxdt, hitLast, btu,
                 substeps, energyTime, ageTime>>

(* step() followed by the test of the loop and endOfTimeStepHook(), which   *)
(* may ask to leave the loop (after SIGTERM).                               *)
Step(in, why) ==
  LET d       == StepLength(Limit(why, in))
      length  == EnergyInterval(d)
      t       == TimeAfter(now + d)
      energyStep == major /\ option.energy
  IN
  /\ phase = "running"
  /\ Binding(why, in)
  /\ energyStep => ~BTURefuses(length)
  /\ now' = t
  /\ phase' \in IF t < end THEN {"running", "done"} ELSE {"done"}
  /\ skipCountDown' \in {Decrement(c) : c \in CountDown(why, in)}
  /\ CFLmaxdt' = NewCFL(in)
  /\ hitLast' = IF HitsMultiple(Limit(why, in)) THEN now + d ELSE hitLast
  /\ tTempAge' = IF energyStep THEN t ELSE tTempAge
  /\ dtTempAge' = IF energyStep THEN 0 ELSE length
  /\ btu' = IF energyStep /\ option.btu
            THEN [t |-> tTempAge, dt |-> length] ELSE btu
  /\ substeps' = IF major THEN 0 ELSE substeps + 1
  /\ energyTime' = IF energyStep THEN energyTime + length ELSE energyTime
  /\ ageTime' = IF major /\ option.age THEN ageTime + length ELSE ageTime
  /\ UNCHANGED <<end, option, dropped>>

(* The bedrock thermal unit throws in the middle of the energy step; main() *)
(* reports the error and the program ends.                                  *)
EnergyStepFails(in, why) ==
  /\ phase = "running"
  /\ Binding(why, in)
  /\ major /\ option.energy
  /\ BTURefuses(EnergyInterval(StepLength(Limit(why, in))))
  /\ phase' = "failed"
  /\ UNCHANGED <<now, end, option, skipCountDown, CFLmaxdt, tTempAge,
                 dtTempAge, hitLast, btu, historyVars>>

(* The stress balance throws: step() saves the state and rethrows.          *)
StressBalanceFails ==
  /\ phase = "running"
  /\ phase' = "failed"
  /\ UNCHANGED <<now, end, option, skipCountDown, CFLmaxdt, tTempAge,
                 dtTempAge, hitLast, btu, historyVars>>

Advance ==
  \E in \in Inputs, why \in Reasons : Step(in, why) \/ EnergyStepFails(in, why)

Next ==
  \/ \E newEnd \in EndTimes : RunTo(newEnd)
  \/ Advance
  \/ StressBalanceFails

Spec == Init /\ [][Next]_vars

(* A running program keeps executing the loop.  No signal need ever come,   *)
(* so fairness does not rest on one.                                        *)
LoopPass == Advance /\ (phase' = "done" => now' >= end)
FairSpec == Spec /\ WF_vars(LoopPass)

-----------------------------------------------------------------------------
(* Every variable has a value of its type.                                  *)
TypeOK ==
  /\ now \in Nat /\ end \in Nat
  /\ phase \in {"ready", "running", "done", "failed"}
  /\ option \in Options
  /\ skipCountDown \in 0..SkipMax
  /\ CFLmaxdt \in Nat
  /\ tTempAge \in Nat /\ dtTempAge \in Nat
  /\ hitLast \in Nat
  /\ btu = NoInterval \/ btu \in [t : Nat, dt : Nat]
  /\ substeps \in Nat /\ energyTime \in Nat
  /\ dropped \in Nat /\ ageTime \in Nat

(* The skip mechanism postpones an energy step by fewer than SkipMax steps, *)
(* across changes of the counter by max_timestep(), by step() and by a new  *)
(* call of run_to() in the middle of a cycle.                               *)
SkipBound ==
  substeps + skipCountDown =< IF SkipMax = 0 THEN 0 ELSE SkipMax - 1

(* The interval the next energy step will cover starts where the last one   *)
(* ended and reaches the present, up to the remainder Time::step() jumped   *)
(* over at the end of a run.                                                *)
EnergyClock ==
  /\ tTempAge + dtTempAge =< now
  /\ tTempAge + dtTempAge = now \/ now - (tTempAge + dtTempAge) < SnapTol
  /\ phase = "running" => tTempAge + dtTempAge = now

(* No model time is lost or counted twice inside the loop: what the         *)
(* energy steps covered, what is still pending and what run() discarded at  *)
(* its beginning add up to the time elapsed (SnapTol apart).                *)
EnergyTimeAccounted ==
  (option.energy /\ SnapTol =< 1) =>
    energyTime + dropped + dtTempAge = now - Start

(* The loop implements the abstract clock: it moves forward only and passes *)
(* the end by at most Epsilon, and only with -timestep_hit_multiples.       *)
Clock == INSTANCE ModelClock
           WITH Slack <- IF HitMultiples > 0 THEN Epsilon ELSE 0
ClockSpec == Clock!Spec

(* The loop of run() ends (iceModel.cc:978, "ensuring that this while loop  *)
(* will terminate").                                                        *)
Terminates == phase = "running" ~> phase # "running"

-----------------------------------------------------------------------------
(* Statements of comments and of the manual, checked in runs of their own.  *)

(* "Never go past the end of a run" (iMadaptive.cc:237).                    *)
NeverPastEnd == [][phase = "running" => now' =< end]_vars

(* An energy step respects the bedrock unit's stability bound (the manual   *)
(* on -skip: "so as to satisfy certain numerical stability criteria").      *)
BedrockStepWithinLimit ==
  phase = "running" /\ major /\ option.energy /\ option.btu =>
    \A in \in Inputs, why \in Reasons :
      Binding(why, in) => dtTempAge + StepLength(Limit(why, in)) =< BTULimit

(* t_TempAge is the "time of last update for enthalpy/temperature"          *)
(* (iceModel.hh:335), so the bedrock unit is asked for contiguous updates.  *)
TempAgeIsLastUpdate ==
  phase = "running" /\ option.energy /\ option.btu => BTUContiguous

(* dt_TempAge holds the "enthalpy/temperature and age time-steps"           *)
(* (iceModel.hh:336): the age step never covers more time than passed.      *)
AgeTimeElapsed == option.age => ageTime =< now - Start
=============================================================================

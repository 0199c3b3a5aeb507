------------------------ MODULE MCSteadyTimeStepping ------------------------
(* TimeStepping under an environment whose bounds never change.             *)
EXTENDS MCTimeStepping

(* Bounds that a steady glacier keeps for the whole run.                    *)
SteadyInputs ==
  [force : {0}, derived : {0, 5}, report : {0, 3}, ocean : {0, 7},
   cfl3d : {4, 6, 9}, cfl2d : {8}, diff : 1..4]

VARIABLE steady       \* the bounds that hold for the whole run

SteadyInit == Init /\ steady \in Inputs

SteadyNext ==
  /\ steady' = steady
  /\ \/ \E newEnd \in EndTimes : phase = "ready" /\ RunTo(newEnd)
     \/ \E why \in Reasons : Step(steady, why) \/ EnergyStepFails(steady, why)

SteadySpec == SteadyInit /\ [][SteadyNext]_<<vars, steady>>

(* While the bounds do not change, skipping never makes an energy step      *)
(* longer than the 3D CFL bound or the bound of the bedrock unit: the       *)
(* conservative factor of skip_counter() is enough.                         *)
SteadyEnergyStepStable ==
  phase = "running" /\ major /\ option.energy =>
    \A why \in Reasons :
      Binding(why, steady) =>
        LET length == dtTempAge + StepLength(Limit(why, steady))
        IN  /\ length =< steady.cfl3d
            /\ option.btu => length =< BTULimit
=============================================================================

--------------------------- MODULE MCTimeStepping ---------------------------
(* Instances of TimeStepping for TLC.                                       *)
EXTENDS TimeStepping

AllOptions == OptionType

(* Configurations with energy conservation, mass continuity and skipping.   *)
SkipOptions ==
  {[mass |-> TRUE, energy |-> TRUE, age |-> a, skip |-> TRUE, btu |-> b] :
     a \in BOOLEAN, b \in BOOLEAN}

(* -age -energy none                                                        *)
AgeOnlyOptions ==
  {[mass |-> TRUE, energy |-> FALSE, age |-> TRUE, skip |-> FALSE,
    btu |-> FALSE]}

DepartureOptions == SkipOptions \cup AgeOnlyOptions

(* Every kind of restriction is the binding one in some step.               *)
KeyInputs ==
  {in \in [force : {0, 4}, derived : {0, 3}, report : {0, 2}, ocean : {0, 3},
           cfl3d : {3, 6}, cfl2d : {5}, diff : {1, 3}] :
     \/ in.force = 4 /\ in.derived = 0 /\ in.report = 2 /\ in.ocean = 0
     \/ in.force = 0 /\ in.cfl3d = 6 /\ in.derived + in.report + in.ocean \in {2, 3}
     \/ in.force + in.derived + in.report + in.ocean = 0}

(* The diffusive step varies while the other bounds are constant.           *)
DiffusiveInputs ==
  [force : {0}, derived : {0}, report : {0}, ocean : {0},
   cfl3d : {6}, cfl2d : {6}, diff : {1, 2, 5}]
=============================================================================

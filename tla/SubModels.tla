------------------------------ MODULE SubModels ------------------------------
(***************************************************************************)
(* The sub-models that IceModel::step() calls, in the order it calls them:  *)
(* yield stress, stress balance, surface and ocean, hydrology, geometry and *)
(* bed.  Each has a memory of its own (an update time, a cached field, a    *)
(* state counter, the snow, the water), each is called with the times of    *)
(* the loop, and the loop may be stopped after a step and resumed by        *)
(* another run, which begins with what a file holds.  The length of a step, *)
(* the geometry and the forcing are choices.                                *)
(***************************************************************************)
EXTENDS SnowCover, ClimateCache, BedDeformation, SubglacialWater

CONSTANTS Scenarios,   \* the runs to consider
          Steps,       \* lengths the other restrictions leave
          Slack,       \* by which a step may exceed a restriction
          Ends,        \* times at which a run may be asked to end
          MaxThk,      \* bound: change of the load
          MaxRuns      \* bound: number of runs

(* What is the same in all runs of a scenario: the options, and what the    *)
(* geometry and the input of water may be.                                  *)
ScenarioType ==
  [caches : SUBSET {"surface", "ocean"}, bed : BedModels, correction : Int,
   hydrology : {"null", "routing"}, lengths : SUBSET Steps, loads : SUBSET Int,
   masks : SUBSET [Cells -> CellTypes], rates : SUBSET [Cells -> Nat],
   inputToBed : BOOLEAN, stops : BOOLEAN, ends : SUBSET Ends]

ASSUME SubModelsAssumption ==
  /\ Scenarios \subseteq ScenarioType
  /\ Steps \subseteq Nat \ {0}
  /\ Slack \in Nat /\ Slack < Second
  /\ Ends \subseteq Nat
  /\ MaxThk \in Nat
  /\ MaxRuns \in Nat \ {0}

VARIABLES
  scenario,
  pc,          \* where in the step
  time, start, end,
  dt,          \* IceModel::dt, of the previous step until max_timestep()
  atDepth,     \* skipCountDown is zero
  bootstrapped,
  snow,        \* of the temperature-index model
  cache,       \* of the surface and of the ocean
  seaLevel,    \* the time whose forcing the ocean reports, or Never
  bed, smoother,   \* the elevation, and what SIAFD computed from it
  thk, mask, surface,  \* the geometry, and the bed below the surface elevation
  yield,       \* m_t and m_dt of the yield stress, and when it was computed
  ht,          \* time of the hydrology model in its update
  input,       \* m_total_input
  water,       \* water, till water and the losses of this update
  before,      \* history: the water at the beginning of the update
  supplied,    \* history: the water that entered in it
  forgotten,   \* history: changes of the load that no bed update has seen
  runs

loopVars  == <<scenario, start, end, bootstrapped, runs, forgotten>>
bedVars   == <<bed, smoother, thk, mask, surface>>
airVars   == <<snow, cache, seaLevel>>
waterVars == <<ht, input, water, before, supplied>>
vars == <<loopVars, pc, time, dt, atDepth, airVars, bedVars, yield, waterVars>>

Point == 1     \* the cell of the snow

-----------------------------------------------------------------------------
(* Updates of the surface and of the ocean over [t, t + d).                 *)
AirUpdate(s, c, l, t, d) ==
  LET surfaceDue == "surface" \notin scenario.caches \/ Due(c["surface"], t)
      oceanDue   == "ocean" \notin scenario.caches \/ Due(c["ocean"], t)
      length     == IF "surface" \in scenario.caches THEN Year ELSE d
  IN  [snow  |-> IF surfaceDue
                   THEN SnowUpdate(s, t, length, Ocean(mask[Point])) ELSE s,
       cache |-> [k \in DOMAIN c |-> CacheUpdate(c[k], t)],
       level |-> IF oceanDue THEN t ELSE l]

(* The restrictions of the caches.                                          *)
AirLimits(c, t) == {CacheLimit(c[k], t) : k \in scenario.caches}

(* init_step_couplers(), at the end of bootstrapping: an update over a year *)
(* or as long as the models allow.                                          *)
InitStep(s, c, t) ==
  AirUpdate(s, c, Never, t, Higher(Min(AirLimits(c, t) \cup {Year}), Second))

InitOnce(air, s, t) == air        \* mutant: not initialized a second time

(* misc_setup(): the couplers are initialized again, "they might have done  *)
(* one time-step".  The snow is that of the file, the caches are due, and   *)
(* only a cache remembers the sea level.                                    *)
InitAgain(air, s, t) ==
  [snow  |-> SnowInit(s, t),
   cache |-> [k \in DOMAIN air.cache |-> [air.cache[k] EXCEPT !.next = t]],
   level |-> IF "ocean" \in scenario.caches THEN air.level ELSE Never]

-----------------------------------------------------------------------------
NoWater == [W |-> [c \in Cells |-> 0], Wtil |-> [c \in Cells |-> 0],
            lost |-> NoLoss, fromTill |-> 0]

Init ==
  /\ scenario \in Scenarios
  /\ pc = "off"
  /\ time = 0 /\ start = 0 /\ end = 0 /\ dt = 0
  /\ atDepth = TRUE
  /\ bootstrapped = FALSE
  /\ snow = Bare(0)
  /\ cache = [k \in {"surface", "ocean"} |-> CacheInit(0)]
  /\ seaLevel = Never
  /\ bed = [last |-> 0, topg |-> 0, topgLast |-> 0, thkLast |-> 0, uplift |-> 0,
            counter |-> 0, call |-> NoCall]
  /\ smoother = [counter |-> -1, topg |-> 0]
  /\ thk = 0
  /\ mask \in scenario.masks
  /\ surface = 0
  /\ yield = [call |-> NoCall, at |-> Never]
  /\ ht = 0
  /\ input = [c \in Cells |-> 0]
  /\ water = NoWater
  /\ before = 0 /\ supplied = 0 /\ forgotten = 0
  /\ runs = 0

(* IceModel::init() and the beginning of run(): from a bootstrapping file,  *)
(* or from a file with the state that a run has left.                       *)
Begin(e, fromScratch) ==
  LET newSnow  == SnowInit(snow, time)
      newCache == [k \in DOMAIN cache |-> CacheInit(time)]
      none == [snow |-> newSnow, cache |-> newCache, level |-> Never]
      air == IF fromScratch
               THEN InitAgain(InitStep(newSnow, newCache, time), snow, time)
               ELSE InitAgain(none, snow, time)
      newBed == BedInit(bed, time, thk)
  IN  /\ pc \in {"off", "stopped", "ended"}
      /\ fromScratch => pc = "off"
      /\ runs < MaxRuns /\ e > time
      /\ runs' = runs + 1
      /\ pc' = "yield"
      /\ start' = time /\ end' = e
      /\ dt' = 0 /\ atDepth' = TRUE
      /\ bootstrapped' = fromScratch
      /\ snow' = air.snow /\ cache' = air.cache /\ seaLevel' = air.level
      /\ bed' = IF fromScratch /\ scenario.bed = "LingleClark"
                  THEN CorrectTopg(newBed, scenario.correction) ELSE newBed
      /\ smoother' = [smoother EXCEPT !.counter = -1]
      /\ surface' = bed'.topg
      /\ yield' = [call |-> NoCall, at |-> Never]
      /\ forgotten' = forgotten + thk - bed.thkLast
      /\ UNCHANGED <<scenario, time, thk, mask, waterVars>>

-----------------------------------------------------------------------------
(* The parts of IceModel::step().                                           *)

SameCall(call, t, d) == call = <<t, d>>

(* The yield stress is computed with the length of the previous step.       *)
YieldStress ==
  /\ pc = "yield"
  /\ pc' = "balance"
  /\ yield' = IF atDepth /\ ~SameCall(yield.call, time, dt)
                THEN [call |-> <<time, dt>>, at |-> time] ELSE yield
  /\ UNCHANGED <<loopVars, time, dt, atDepth, airVars, bedVars, waterVars>>

(* SIAFD::update() smooths the bed again if its state counter has grown.    *)
StressBalance ==
  /\ pc = "balance"
  /\ pc' = "limit"
  /\ smoother' = IF bed.counter > smoother.counter
                   THEN [counter |-> bed.counter, topg |-> bed.topg] ELSE smoother
  /\ UNCHANGED <<loopVars, time, dt, atDepth, airVars, bed, thk, mask, surface,
                 yield, waterVars>>

(* max_timestep()                                                           *)
MaxTimestep ==
  /\ pc = "limit"
  /\ pc' = "air"
  /\ dt' \in {d \in Steps \cap scenario.lengths :
                d <= Min(AirLimits(cache, time) \cup {end - time}) + Slack}
  /\ UNCHANGED <<loopVars, time, atDepth, airVars, bedVars, yield, waterVars>>

SurfaceAndOcean ==
  LET air == AirUpdate(snow, cache, seaLevel, time, dt)
  IN  /\ pc = "air"
      /\ pc' = "water"
      /\ snow' = air.snow /\ cache' = air.cache /\ seaLevel' = air.level
      /\ ht' = time
      /\ water' = [water EXCEPT !.lost = NoLoss, !.fromTill = 0]
      /\ before' = Total(water.W) + Total(water.Wtil)
      /\ supplied' = 0
      /\ UNCHANGED <<loopVars, time, dt, atDepth, bedVars, yield, input>>

NullTransport ==
  /\ pc = "water" /\ scenario.hydrology = "null"
  /\ pc' = "geometry"
  /\ input' \in {InputRate(mask, rate) : rate \in scenario.rates}
  /\ water' = AfterNullTransport(water, mask, input', dt)
  /\ UNCHANGED <<loopVars, time, dt, atDepth, airVars, bedVars, yield, ht, before,
                 supplied>>

(* A sub-step of the routing; the input rate is read at the first of an     *)
(* update, and at each if it comes from a file.                             *)
Route ==
  /\ pc = "water" /\ scenario.hydrology = "routing"
  /\ \E hdt \in SubSteps(time + dt - ht), flow \in Flows(water.W, mask) :
       /\ input' \in IF ht = time \/ scenario.inputToBed
                       THEN {InputRate(mask, rate) : rate \in scenario.rates}
                       ELSE {input}
       /\ water' = AfterSubStep(water, mask, input', flow, hdt)
       /\ supplied' = supplied + hdt * Total(input')
       /\ ht' = ht + hdt
       /\ pc' = IF ht + hdt < time + dt THEN "water" ELSE "geometry"
  /\ UNCHANGED <<loopVars, time, dt, atDepth, airVars, bedVars, yield, before>>

(* massContExplicitStep() and do_calving(); the surface elevation is        *)
(* computed again if the mass continuity equation is solved.                *)
Geometry ==
  /\ pc = "geometry"
  /\ pc' = "bed"
  /\ \E load \in scenario.loads :
       /\ thk + load \in -MaxThk..MaxThk
       /\ thk' = thk + load
  /\ mask' \in scenario.masks
  /\ surface' \in {surface, bed.topg}
  /\ UNCHANGED <<loopVars, time, dt, atDepth, airVars, bed, smoother, yield,
                 waterVars>>

(* The surface is computed again if the state counter of the bed changed.   *)
BedUpdate ==
  /\ pc = "bed"
  /\ pc' = "advance"
  /\ bed' \in BedUpdates(bed, scenario.bed, thk, time, dt, end)
  /\ surface' = IF bed'.counter # bed.counter THEN bed'.topg ELSE surface
  /\ UNCHANGED <<loopVars, time, dt, atDepth, airVars, smoother, thk, mask, yield,
                 waterVars>>

(* The end of the step: the run may be over, or be stopped by SIGTERM.      *)
Advance ==
  /\ pc = "advance"
  /\ time' = time + dt
  /\ atDepth' \in BOOLEAN
  /\ \/ pc' = IF time + dt >= end THEN "ended" ELSE "yield"
     \/ scenario.stops /\ pc' = "stopped"
  /\ UNCHANGED <<loopVars, dt, airVars, bedVars, yield, waterVars>>

Loop ==
  \/ YieldStress \/ StressBalance \/ MaxTimestep \/ SurfaceAndOcean
  \/ NullTransport \/ Route \/ Geometry \/ BedUpdate \/ Advance

Next == Loop \/ \E e \in Ends, fromScratch \in BOOLEAN :
                  e \in scenario.ends /\ Begin(e, fromScratch)

Spec == Init /\ [][Next]_vars

-----------------------------------------------------------------------------
(* Every variable has its type.                                             *)
TypeOK ==
  /\ scenario \in Scenarios
  /\ pc \in {"off", "yield", "balance", "limit", "air", "water", "geometry", "bed",
             "advance", "ended", "stopped"}
  /\ time \in Nat /\ start \in Nat /\ end \in Nat /\ dt \in Nat
  /\ atDepth \in BOOLEAN /\ bootstrapped \in BOOLEAN
  /\ snow \in SnowState
  /\ cache \in [{"surface", "ocean"} -> CacheState]
  /\ seaLevel \in Int
  /\ bed \in BedState
  /\ smoother \in [counter : Int, topg : Int]
  /\ thk \in Int /\ mask \in [Cells -> CellTypes] /\ surface \in Int
  /\ yield \in [call : Int \X Int, at : Int]
  /\ ht \in Nat
  /\ input \in [Cells -> Nat]
  /\ water \in [W : [Cells -> Int], Wtil : [Cells -> Int], lost : LossType,
                fromTill : Nat]
  /\ before \in Int /\ supplied \in Nat /\ forgotten \in Int
  /\ runs \in 0..MaxRuns

(* PSCache, POCache: whatever the lengths of the steps, and with updates a  *)
(* little early or late, the climate of a step is never older than the      *)
(* interval and two seconds at the end of the step.                         *)
ClimateFresh ==
  pc \in {"water", "geometry", "bed", "advance"} =>
    \A k \in scenario.caches :
      cache[k].at # Never /\ time + dt - cache[k].at < CacheInterval + 2 * Second

(* PSTemperatureIndex: snow that fell before the start of the balance year  *)
(* is gone, under a cache and after a restart too, unless a run skipped     *)
(* that start: it began then, and took the next year's start for the next   *)
(* one.                                                                     *)
YearlyReset ==
  snow.depth > 0 =>
    \/ snow.oldest >= BalanceYearStart(snow.last)
    \/ BalanceYearStart(snow.last) \in snow.skipped

(* init_step_couplers(), misc_setup(): no snowfall is counted twice, not in *)
(* the initialization and the first step, and not by a run and the one that *)
(* continues it; unless a cache has the snow of a year computed ahead.      *)
SnowOnce == pc = "air" /\ "surface" \notin scenario.caches => snow.last < time

(* The same with a cache.                                                   *)
SnowNeverTwice == pc = "yield" /\ time = start => snow.last < time

(* PSTemperatureIndex.cc: "snow cover depth (set to zero once a year)".     *)
OnceAYear == snow.resets <= 1

(* BedDef::compute_uplift(): the uplift is the movement of the bed between  *)
(* two updates, whatever interval lies between them; only the first one     *)
(* after -regrid_bed_special counts the correction of the bed as movement,  *)
(* because topg_last was set before correct_topg().                         *)
UpliftIsRate ==
  [][pc = "bed" /\ bed'.last # bed.last =>
       bed'.uplift = bed'.topg - bed.topg +
         (IF scenario.bed = "LingleClark" /\ bootstrapped /\ bed.last = start
            THEN scenario.correction ELSE 0)]_vars

(* PISMBedDef.cc: "uplift = (topg - topg_last) / dt".                       *)
UpliftIsMovement ==
  [][pc = "bed" /\ bed'.last # bed.last =>
       bed'.uplift = bed'.topg - bed.topg]_vars

(* PBPointwiseIsostasy: the bed has sunk by all of the load that was put on *)
(* it except for what a run that was stopped had not yet applied, and a run *)
(* that reaches its end has applied everything.                             *)
BedFollowsLoad ==
  /\ scenario.bed = "isostasy" => bed.topg + bed.thkLast = forgotten
  /\ pc = "ended" => bed.thkLast = thk

(* IceModel::step() and SIAFD::update(): the smoothed bed and the surface   *)
(* elevation that the stress balance sees belong to the bed as it is.       *)
BedSeen ==
  /\ pc = "limit" => smoother.topg = bed.topg
  /\ pc = "limit" => surface = bed.topg

(* MohrCoulombYieldStress: the shortcut for repeated calls never leaves an  *)
(* old yield stress, although the length it compares is of another step.    *)
YieldFresh == pc = "balance" /\ atDepth => yield.at = time

(* Delta_SL, POCache: the stress balance comes before the update of the     *)
(* ocean.  In every step but the first of a run the sea level it sees is at *)
(* most one step old, or as old as the cache lets it be, and the cache has  *)
(* one for the first step of a run that was bootstrapped.                   *)
SeaLevelCurrent ==
  pc = "balance" /\ (time > start \/ (bootstrapped /\ "ocean" \in scenario.caches)) =>
    /\ seaLevel # Never
    /\ IF "ocean" \in scenario.caches
         THEN time - seaLevel < CacheInterval + 2 * Second
         ELSE time - seaLevel <= dt

(* iMinit.cc: "make sure that surface and ocean models report a decent      *)
(* state".                                                                  *)
DecentState == pc = "balance" => seaLevel # Never

(* hydrology::Routing: check_water_thickness_nonnegative() and              *)
(* check_Wtil_bounds() never fail, and no water is left outside of the      *)
(* grounded ice by an update.                                               *)
WaterInBounds ==
  /\ \A c \in Cells : water.W[c] >= 0 /\ water.Wtil[c] \in 0..TillMax
  /\ pc = "geometry" => \A c \in Cells :
       mask[c] # "grounded" => water.W[c] = 0 /\ water.Wtil[c] = 0

(* The climate of a step: no part of what IceModel::step() takes from the   *)
(* surface and the ocean models is older than it may be or counted twice,   *)
(* whatever the steps, the caches and the runs.                             *)
ClimateCurrent == ClimateFresh /\ SnowOnce /\ SeaLevelCurrent

(* The bed of a step: it follows the load, and what is computed from it and *)
(* from the basal conditions is computed again in time.                     *)
BedCurrent == BedFollowsLoad /\ BedSeen /\ YieldFresh

Supply == IF scenario.inputToBed THEN supplied ELSE dt * Total(input)

Balance ==
  before + Supply + water.lost.gain
    - (water.lost.land + water.lost.ocean + water.lost.strip)

(* hydrology::Routing: however many sub-steps an update takes, the water in *)
(* the layer and in the till is what was there, what entered and what is    *)
(* reported as gained, less what is reported as lost; but water lost from   *)
(* the till is reported twice.                                              *)
WaterAccounted ==
  pc = "geometry" /\ scenario.hydrology = "routing" =>
    Total(water.W) + Total(water.Wtil) = Balance + water.fromTill

(* The stores that the steps fill and empty: the snow goes once a year, and *)
(* the water of an update is within its bounds and accounted for.           *)
StoresConsistent == TypeOK /\ YearlyReset /\ WaterInBounds /\ WaterAccounted

(* boundary_mass_changes(): "Do mass accounting."                           *)
LossesReported ==
  pc = "geometry" /\ scenario.hydrology = "routing" =>
    Total(water.W) + Total(water.Wtil) = Balance
=============================================================================

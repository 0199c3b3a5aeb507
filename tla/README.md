# A TLA+ verification project for PISM

PISM, the Parallel Ice Sheet Model, advances a discrete model of an ice sheet
in time. Its core is one loop (`IceModel::run` and `IceModel::step`) that asks
every component for the longest time step it tolerates, takes one step, and lets
the components update themselves on their own schedules. Around this loop are
the files a run writes, the signals that end it, and the runs that resume from
those files. All processors execute the same program and meet in collective
operations; the horizontal grid is cut into pieces, one per processor.

The specifications here model that control: when things happen, in which order,
over which interval of model time, and which kilogram of ice is counted where.
The floating-point physics appears only through what it gives to the control (a
bound on the step, a velocity, a rate of loss).

Paths below are relative to `src/src/` of the repository.

## 1. Inventory

| component | state it keeps | operations | interacts with | what makes it correct |
|---|---|---|---|---|
| time-stepping loop (`base/iceModel.cc`, `base/iMadaptive.cc`) | model time, `dt`, `t_TempAge`, `dt_TempAge`, `skipCountDown`, `CFLmaxdt`, `timestep_hit_multiples_last_time` | `run_to`, `run`, `step`, `max_timestep`, `skip_counter` | asks every component for `max_timestep()`, then calls `update(t, dt)` | time only advances and ends; no time is integrated twice or left out by the energy step; the skip cycle is bounded and stable |
| energy sub-models (`base/iMenergy.cc`, `base/energy/`) | enthalpy, age, the last interval of the bedrock unit | `energyStep`, `ageStep`, `BedThermalUnit::update` | called at the beginning of a skip cycle with the accumulated interval | contiguous intervals, each within the stable step |
| model clock (`base/util/PISMTime*.cc`) | start, end and current time, lists of times | `step`, `parse_times` | read by every component | |
| spatial reports, snapshots, backups (`base/iMtimeseries.cc`, `base/iMIO.cc`) | `extra_times`, `next_extra`, `last_extra`, `extra_file_is_ready`, `current_snapshot`, files | `init_extras`, `write_extras`, `extras_max_timestep`, `write_snapshot`, `write_backup`, `writeFiles` | limit the step; run after it; read back by the next run | no requested time lost or reported twice over a chain of runs; disjoint intervals |
| scalar time series (`base/util/Timeseries.cc`) | interpolation buffer `m_t`, `m_v`, records `m_time`, `m_values`, `m_start`; the shared file | `append`, `interp`, `flush`, `init` | all diagnostics share one file and its time axis | columns aligned, axis increasing, values of the right time |
| time-dependent forcing (`base/util/iceModelVec2T.cc`) | window of records `first`, `N`, `array3` | `init`, `update`, `max_timestep`, `init_interpolation` | owned by climate models | the window holds what it claims; allowed steps are accepted |
| ice geometry and mass transport (`base/iMgeometry.cc`, `base/iMpartgrid.cc`, `base/util/Mask.hh`) | thickness, `vHref`, mask, surface, `H_residual`, cumulative fluxes | `updateSurfaceElevationAndMask`, `massContExplicitStep`, `residual_redistribution` | velocities from the stress balance, mass balance from the couplers | mass is conserved and every change is reported once; mask, surface and thickness agree |
| calving (`base/iMcalving.cc`, `base/calving/`) | discharge; work copies of thickness and `Href` | five mechanisms, `Href_cleanup`, `update_cumulative_discharge` | change the geometry after the transport | the discharge is the mass removed; results do not depend on traversal or processors |
| iceberg remover (`base/calving/PISMIcebergRemover.cc`, `connected_components.cc`) | image on processor 0, runs, forest of runs | `update`, `cc`, `run_union` | gathers and scatters the mask | exactly the components without grounded ice go |
| signals (`base/pism_signal.c`, `base/iMutil.cc`) | `pism_signal`, of each processor | handler, `endOfTimeStepHook` | end the loop, write a file, flush the series | a signal is served in the next step; processors take the same way |
| climate couplers and models (`coupler/`) | caches with the time of their next update; snow depth and the next balance year | `update`, `max_timestep`, `init` (twice) | forcing buffers | fresh enough; snow neither kept nor counted too long |
| bed deformation (`earth/`) | time and load of the last update, uplift | `update`, `max_timestep` | changes the bed under the geometry | no load change is forgotten, the uplift is a rate |
| hydrology (`base/hydrology/`) | till and transportable water | sub-steps in `update` | basal melt, yield stress | water is conserved |
| stress balance (`base/stressbalance/`) | velocity, guess, preconditioner, regularization, smoothed bed | `update`, SSA retries | called with `fast` inside a skip cycle | retries in order, from the right guess; no diverged velocity |
| distributed fields (`base/util/iceModelVec*.cc`) | arrays with ghosts, access and state counters | `update_ghosts`, `begin_access`, `inc_state_counter` | all components | ghosts fresh when read |
| files (`base/util/io/`) | define mode, records, backups of old files | `open`, `append_time`, `close` | reports, series | a complete file always exists |
| errors across processors (`base/util/error_handling.cc`) | | `ParallelSection::failed`, `check` | collective | nobody waits for ever |
| drivers, configuration, initialization, diagnostics, inversion, regional and verification variants, bindings | | | | straight sequences, look-ups or numerics |

The behaviours that make this code hard are, in order of weight: chains of runs
in which one run ends or dies anywhere and the next takes up its files; schedules
of many components on one adaptive clock, with tolerances of a second on some
comparisons and none on others; mass that moves between three representations of
ice (thickness, `Href`, residual) in a sequence of functions that each account for
their part; grid loops that change what they test, on cells that have ghosts on
other processors; and the interplay of skipped energy steps with every bound on the
step. `PROJECT.json` lists the single hazards at their lines, with the properties
for them, or why there is none.

## 2. The modules

```
ModelClock <-- implemented by -- TimeStepping <- MCTimeStepping <- MCSteadyTimeStepping
                                                                       <- TimeSteppingProofs
ReportTimes <- Reporting  <- MCReporting
                          <- OutputProofs
            <- TimeSeries <- MCTimeSeries
                          <- TimeSeriesProofs
ForcingBuffer <- MCForcingBuffer
              <- ForcingBufferProofs
CellTypes <- Calving <- MassTransport <- IceMass <- MCIceMass
                                                 <- IceMassProofs
ConnectedComponents <- MCConnectedComponents
                    <- ConnectedComponentsProofs
ParallelSection <- MCParallelSection
                <- RunControlProofs
NetCDF3File <- MCNetCDF3File
            <- OutputProofs
RunControl <- RunControlProofs
ClimateCache, SnowCover, BedDeformation, SubglacialWater <- SubModels <- MCSubModels
                                                                      <- SubModelsProofs
StressBalance <- TimeSteppingProofs
```

The proofs about `StressBalance` stand at the end of `TimeSteppingProofs` and those about `ParallelSection`
at the end of `RunControlProofs`; `OutputProofs` is about both `Reporting` and `NetCDF3File`. The specifications
of these three are called `SolverSpec`, `SectionSpec` and `FilesSpec`, so that one module can extend two.

Operators that a comment calls *mutant* are plausible mistakes, used nowhere in a
specification; each stands before the operator it is a wrong version of, and the
property it is listed with in `PROJECT.json` must fail when it is put in its place.

### The loop and its reports

**ModelClock** is what the users of the clock may assume: time moves forward, the
end is passed by at most `Slack`, the loop is left at the end, early, or on an error.

**TimeStepping** is `run_to()`, `run()` and `step()`. `RunTo` sets the end and
restarts the energy clock as `run()` does. `Step(in, why)` is one whole pass of the
loop: `in` is what the sub-models allow in this step (an input, new in every
step) and `why` the name of the binding restriction; `Binding` repeats the search
through `std::map`, ties included, and `Present` the restrictions that are in the map,
"max" always, because reading it inserts it. `StepLength` is `-timestep_hit_multiples`,
`CountDown` and `Decrement` are the two places that change the skip counter, `TimeAfter`
is `Time::step()`. `EnergyStepFails` is the bedrock unit throwing "too big a timestep" or
"not contiguous", `StressBalanceFails` the exception that `step()` rethrows. An early
exit (SIGTERM) is the choice of `phase' = "done"` before the end. The cast of the quotient
in `skip_counter()` to `unsigned int` is undefined above `UIntMax`, where the model takes
any value. The variables `substeps`, `energyTime`, `dropped` and `ageTime` are history.

**ReportTimes** holds `compute_times()` and `reporting_max_timestep()`.
**Reporting** is a chain of runs: `StartRun` is `init_extras()` with the read-back of
`-extra_append` and the `write_extras()` that `run()` begins with; a pass of the loop is
`Step`, `WriteSnapshot`, one of `NoExtras`/`FirstExtra`/`WriteExtras`, and
`WriteBackup`, with a `Kill` possible between any two. A report is its pair of time
bounds. `saved` is the time of the latest state a run can resume from. `Reportable` says
which requested times must get a record; the proof of section 4 showed that it takes more than not being the
first one: a time within a second of the start of the request, or so near to its predecessor that
two runs pass the two of them in one step by different amounts, may be taken for consumed.

**TimeSeries** is the same chain for `-ts_file`. Values are replaced by the time at
which they were sampled, so that "the right value" can be said. `Save` consumes one
requested time (`interp()`), `Flush` writes one diagnostic, so a kill may find some of
them written. All diagnostics are updated together; they share the buffers.

**ForcingBuffer** is `IceModelVec2T`: `Update(length)` is `update(t, dt)` with the test
for what is in memory, the move of the window (`Kept`, `Shifted`, `Load`) and the
exception; `RecordAt` is the search of `update()`, which takes a time in a gap for the record before it;
`Limit` and `Index` are `max_timestep()` and `init_interpolation()`.

### The geometry

**CellTypes**, **Calving** and **MassTransport** are operators: the mask and its queries;
the five mechanisms, with the loops over the grid written as a fold over the cells in the
order of the code where the loop changes what it reads, processor by processor; the flux
through an interface, the update of a cell, and an iteration of the redistribution.
**IceMass** is the part of `step()` that changes the geometry: `BeginStep` (the update
of the mask with `-subgl`), `MassContExplicitStep`, up to three `ResidualRedistribution`,
`UpdateSurfaceElevationAndMask`, `DoCalving`. A setup says which options are on and, with
`rankOf`, which processor owns a cell. The cumulative fluxes are those that
`iceModel_diagnostics.cc` reports.

**ConnectedComponents** is `cc()`, with one action per pixel of the first scan and per
iteration of the loops of `run_union()`. IceMass finds icebergs by reachability
(`Detached`); `IcebergsFound` is the statement that `cc()` computes the same.

### Processors, files, signals

**ParallelSection**: every processor goes through the same sequence of loops with
`ParallelSection`, of work on processor 0 alone, and of plain reductions, each at its own
pace. `Work` ends with what a processor votes, `Check` is the collective vote and the
throw, `DumpToFile` is `step()` saving the state after a failed stress balance
(sections in `Guarded`), `Finalize` is `PetscFinalize()`.

**NetCDF3File** is `PIO` with the `netcdf3` back end. A function of the code
(`dumpToFile()`, `write_extras()`, ...) is the sequence of the calls it makes, and a call a
sequence of stages: library calls and checks of processor 0, collective operations, the
messages of `get_var_double()` and `put_var_double()`, changes of `m_define_mode` and of the
delayed writes. `Sessions` are sequences of such functions (`StartSession` begins the next). All processors have the
same stages ahead and each passes those that are for processor 0 or for the others (`Skip`: `if (m_rank == 0)`);
a library call is kept for later (`LibraryCall`), checked at once (`CheckedCall`), or a look-up whose
failure is an answer (`LookUp`: a name that does not exist). The library is external: it refuses
definitions outside of define mode, data in it, and names it does not know, and calls
may fail for a reason of their own, at most `MaxFaults` times. `Throw` unwinds to the destructor
of `PIO`. When processor 0 throws alone, MPI gives no meaning to what follows; the model stops
there (`alone`).

**RunControl** is a run that is interrupted. `Handler` may run on any processor at any moment
and overwrites `pism_signal`; `HookTERM`, `HookUSR1`, `HookUSR2` are the three readings
of `endOfTimeStepHook()`; `Move`, `Create`, `Complete` are the stages of a file opened with
`PISM_READWRITE_MOVE`. `Kill` may happen anywhere and `Restart` continues from any complete file
or from the beginning.

### The sub-models

**SubModels** is the loop once more, seen by the components that `step()` calls, each with the
memory that makes it depend on earlier calls: yield stress, stress balance, the limits of the
step, surface and ocean, hydrology, geometry, bed. `Begin` is the initialization, from
a bootstrapping file (with `init_step_couplers()`, a step of up to a year that the second
initialization of the couplers must undo) or from what a stopped run has saved.
**ClimateCache** is `PSCache`/`POCache`. **SnowCover** is the snow of the temperature-index
model: `Series` goes through the samples of a step, each reset at the start of a balance year.
**BedDeformation** is the schedule of `PBLingleClark` and the update of `PBPointwiseIsostasy`; the
movement of the former is a choice. **SubglacialWater** is `hydrology::NullTransport`
and a sub-step of `hydrology::Routing` with its losses; what crosses an edge is any amount that
the adaptive sub-step allows.

**StressBalance** is the control of the SSA solvers: `SSAFD::solve()` with its three strategies, the
switch of the preconditioner within an attempt, the guess that each attempt starts from, what a
run leaves in its file for the next one; and `SSAFEM`, which has no retries. Exceptions are
the actions `LinearSolveFails` and `PicardFailure`, which go to where the code catches them.

## 3. What is checked

| run | distinct states | question and answer |
|---|---|---|
| `timestep_core` | 9170 | All 32 combinations of options, every kind of binding restriction, a caller that runs twice: `SkipBound`, `EnergyClock`, `EnergyTimeAccounted` hold, the loop implements `ModelClock` (`ClockSpec`), and it `Terminates`. |
| `timestep_steady` | 10 176 | Bounds that stay constant: the 95% of `skip_counter()` is enough to keep postponed energy steps within the 3D CFL bound and the bound of the bedrock unit (`SteadyEnergyStepStable`). |
| `report_runs` | 981 275 | Chains of three runs; killed anywhere with listed times, ended anywhere with ranges and snapshots: `ListedTimesRecorded`; `ReportsConsistent`: reports are disjoint intervals, one for each request; `SnapshotsBoundLoss`. |
| `ts_runs` | 1 297 659 | Three kinds of chains (killed anywhere while appending; continued at requested times; a new file each): `SeriesConsistent`: columns of one table with an increasing axis, within the buffers; `AlignedSeriesComplete`; `InterpolationRight`: requests lie in the buffer, and in new files values belong to their times. |
| `forcing_window` | 1112 | Buffers of two and three records in non-uniform data, data with gaps, and a periodic year: `BufferConsistent`: the window holds the records it claims; `StepServed`: an allowed step is not refused and reads the right record. |
| `mass_balance` | 5582 | A shelf with crevasses, a thickness threshold and the redistribution; a broken shelf on two processors with `-subgl`, eigen-calving, `ocean_kill`, `float_kill` and icebergs; icebergs that calving cuts off: `MassAccounted`, `NoNetDivergence`, `StateConsistent`, `NoIcebergs`, `DischargeIsLoss`. |
| `cc_images` | 125 634 | All images of 3x3 pixels with at most one grounded pixel, labels and icebergs: `RunsWellFormed`, `ComponentsFound`, `Terminates`. |
| `sections` | 412 | Three processors, five sections, failures in any of them: `ProcessorsAgree`: a failure is heard by all, they throw together, nobody is overtaken; `Terminates`. |
| `files` | 62 343 | Two processors write a state and read it again, write two records of spatial series or snapshots; two library calls may fail: `InStep`: collective operations match; `NeverMisused`: the library refuses nothing; `RecordsComplete`: no field in a record without its time, complete arrays; `OutcomeAgreed`: nobody finishes what another gave up; `FilesClosed`: no file stays open and no write delayed; `FilesEnd`: everybody gets to the end. |
| `run_control` | 764 794 | Signals to two processors, kills, restarts: `Served` (in the next step), `Together` (evenly delivered signals never part the processors), `BackupSurvives`, `Ends` (with the output file). |
| `submodels` | 725 870 | Steps of many lengths, three runs, both caches, both bed models, retreating margins: `ClimateCurrent`: nothing of the climate is older than it may be, or counted twice; `BedCurrent`: the bed follows the load, and smoothed bed, surface and yield stress follow the bed and the step; `UpliftIsRate`; `StoresConsistent`: snow goes at the start of each balance year that no run skipped, water is in its bounds and accounted for. |
| `stress_balance` | 94 910 | Both solvers, whatever diverges, in two runs: `Recovery`: no diverged vector becomes the velocity, its guess or a file; no strategy is passed over; each attempt starts from the right guess; the solution is scaled once; `UpdateEnds`. |

The type invariant of a module is a conjunct of one of these properties or an invariant of its own;
in `ForcingBuffer` and `ConnectedComponents` it says that no index leaves its array.

### Bounds, and why they are enough

* *TimeStepping*: time in ticks with ends 5 and 9; every restriction has one value that
  binds and one that does not; `MaxDt = 8` is beyond the first end. `SkipMax = 3` gives cycles
  that the end of a run cuts, `UIntMax = 4` makes the undefined cast happen, `HitMultiples = 3`
  with `Epsilon = 1` makes steps both shorter and longer, also past the end.
  `SnapTol = 1` means that `Time::step()` jumps over no whole tick; larger values are covered by
  the proof of `EnergyClock`. In `timestep_steady`, the bounds are chosen once, the run has
  24 ticks, and cycles reach `SkipMax = 5`.
* *Reporting*: `Tol = 2` ticks are the second of the code, so that two requested times (3 and 4)
  are closer than a second; a step may pass a limit by `Slack = 1 < Tol`. Three runs let a
  resumed run be interrupted, too. `MaxRuns` and the ends bound the chain.
* *TimeSeries*: `BufferSize = 2` makes flushes happen in mid-run and at the end; requested times
  2 and 3 lie in one step; two diagnostics are enough for one of them to be ahead of the other.
* *ForcingBuffer*: eight records of different lengths; steps before, in and after the data and
  longer than the window; four records with gaps between them, one of them as short as a second,
  where steps may begin and end; a periodic year of three records with a reference time of its own.
* *IceMass*: 4x4 cells, periodic like the program's grid, two rows of them a channel between
  banks, with grounded ice at its head, a shoal, and room for a front of two cells; at most
  three steps. `dt/dx = 1`; heights are integers, surfaces are stored times `AlphaInv`, so
  flotation is exact. Flows obey the CFL condition that the time-stepping loop enforces,
  and thicknesses are multiples of what the code divides them by (velocity units, the number of
  neighbours), so that conservation is an equality. Four cells in a row are a cell, its two
  neighbours, and one that is neither: the least on a periodic grid for ice to leave the sight of
  the cell it came from.
* *ConnectedComponents*: 3x3 pixels have U-shaped components, whose runs meet late and make
  `run_union()` climb on both sides, and more runs than the initial size of the vectors.
* *ParallelSection*: a loop, a reduction, a loop, work of processor 0, a loop; the first three are
  guarded by the handler of `step()`. Three processors let one fail, one be ahead and one behind.
* *NetCDF3File*: two processors are the one that calls the library and one that is told; two faults
  at any calls, so that the close after a failure may fail too; a first record, which defines variables, and a later one, which finds them.
* *RunControl*: runs of three steps, two signals (the least for one to overwrite the other), two
  runs, so that a resumed run writes a backup over what the killed one left.
* *SubModels*: a year of 8 ticks, samples of a tick, balance years from tick 6; `Second = 2` and
  `Slack = 1` put updates early and late; steps of 1 to 9 ticks are shorter and longer than
  the interval of the caches (8), that of the bed (6) and the year; three runs, because snow that a run which
  skipped the start of a balance year has left over meets the next one in the third. Four cells for water
  have a margin, an interior and a strip; `TillMax = 2` fills and empties. The options are grouped in
  scenarios, because caches, bed and water do not see each other.
* *StressBalance*: five failures of the preconditioner and five regularizations, as in the code;
  three outer iterations, four updates in two runs.

`CHECK_DEADLOCK FALSE` stands in all configurations: each program ends (a failed or
finished run, the last of a chain of `MaxRuns`, `MaxSteps`, the labelled image, the end of
the forcing). In `run_control` processors that read a signal on different sides of a test may
also wait for each other, which `Together` limits to uneven signals; and `files` stops where processor
0 throws alone, which `FilesEnd` names.

### Fairness

`TimeStepping` assumes weak fairness of `LoopPass`: a program that is running keeps
executing passes of its own loop. It is a single sequential program, so nothing else can
keep it from it. The fair passes do not include leaving early on a signal, which need never come.
`ConnectedComponents` assumes weak fairness of its next-state relation and `StressBalance` of
`Solve`, the steps of an update that has begun, for the same reason. In
`ParallelSection` and `NetCDF3File` each processor is fair by itself: a
processor whose next instruction can be executed executes it, and a collective operation on which all have
arrived returns. `RunControl` assumes weak fairness of `Progress`, the steps of the program, not
of signals, kills or restarts. The other modules state safety only.
## 4. What is proved

All proofs are checked by TLAPS to the last leaf; they hold for every value of the constants
that satisfies the assumptions of the module, which TLC evaluates in every run.

**TimeSteppingProofs** (assumptions: `TimeAssumption`, `SubmodelAssumption`, which say that
times are natural numbers and that bounds which are present are positive). The inductive
invariant is

    IInv == TypeOK /\ hitLast =< now /\ SkipOnlyWithMass /\ SkipBound /\ EnergyClock

`SkipBound` is not inductive alone: a counter that nobody counts down would let `substeps`
grow. `SkipOnlyWithMass` closes that gap: `max_timestep()` sets the counter only where there is a
diffusive restriction, that is, with mass continuity on, and that is the condition under
which `step()` counts down. `hitLast =< now` is what the arithmetic of
`-timestep_hit_multiples` needs (`LastMultipleBounds`, from `DivisionLemma`). From it:

* `TypeCorrectness`, `SkipIsBounded`, `EnergyClockIsRight`: the invariants of the run `timestep_core`.
* `EnergyTimeIsAccounted`: relative to `IInv`, every step adds the interval it integrates, or
  postpones, exactly once.
* `ImplementsClock`: for `MaxDt > 0`, `TimeStepping` implements `ModelClock`. `ClockInv` adds that
  the loop body runs before the end only and that the cached 3D CFL bound is positive when a minor
  step uses it; then the binding restriction is positive (`LimitIsPositive`) and at most the
  time left, and each step is a `Tick` (`StepIsTick`). Without a maximum the theorem is false:
  the step length is 0 (section 6).
* `SkippedEnergyStepsAreStable`: `SteadyEnergyStepStable` for all bounds that do not change, from

      SteadyInv == IInv /\ steady \in Inputs /\ CycleFits

  `CycleFits`: should all steps left in a cycle be as long as the diffusivity allows, the energy step at the end is
  still stable. `skip_counter()` establishes it (`SkipCounterFits`: its steps fit in the long one), each step uses up a
  step of the count, and a cycle that is cut short only gains. `SteadyConditions` names what it needs:
  no `-timestep_hit_multiples`, which may stretch every step by `Epsilon`; no fixed step, which
  ignores the CFL bound; and an unsigned int that holds `skip_max`, since an undefined cast may return any
  count up to that. `steady` and its specification are those of `MCSteadyTimeStepping`.

*Reporting*, in **OutputProofs** (assumption: `ReportingAssumption`; any plan, tolerance, overshoot and number of runs).
The inductive invariant `IInv` has twelve conjuncts; those that carry the argument are

    CutInv /\ NextInv /\ FileInv /\ FirstInv /\ RecordedInv

`CutInv`: the list of a run holds every requested time that `parse_times()` or the read-back of
`-extra_append` did not cut off. `NextInv`: what `next_extra` has passed lies before the end of the last interval,
what it has not lies at least a second after the time of the run, and a forced step does not pass that by
more than `Slack`. `FirstInv`: the first time of a resumed run is the start of the request or earlier than a record
of the file. `RecordedInv`: whatever had passed when a state was saved has a record. From them
`ReportsStayConsistent`, `ListedTimesAreRecorded` and `SnapshotsBoundTheLoss`. The searches through lists
(`ParseTimesIs`, `SkippedIs`, ...) are minima and maxima of sets of indices, from well-foundedness.

*NetCDF3File*, in `OutputProofs` (assumption: `FileAssumption`; any number of processors, sequences of sessions and
number of failures). The inductive invariant is

    FilesInv == ~alone => Shapes /\ \E s, a : Shared(s, a) /\ \E h, D, e : Matched(...)

A processor's place (`View`) is what it has ahead and what it knows. Between two collective operations it moves from
place to place by itself, and `Moved` is a function: where it gets to depends on what it was told and on nothing else.
`Leads(c, d)` is a path of such moves; two that set out from one place and both wait are at the same place
(`SamePlace`). The operations that are under way are the slots 1, 2, ...; `D[n]` is the place from which all enter the
`n`-th, `h[n]` the place where the one before it left them, and a processor that has left the first `e[r] - 1` of them is on
the path from `h[e[r]]` (`Matched`). Hence whoever enters the `n`-th operation calls what the others have
called: `CollectivesMatch`, which is `InStep`.

The knowledge that is *not* shared is what processor 0 just got from the library. `Shared(s, a)` says that all others
know `s` and `a`, and that processor 0 may know more only while it is before the operation that tells them; `Shapes` that
such an operation comes before anything that depends on it (`Told`, in lists that are `Good`; `GoodSession`
shows it for every function of the code). `NobodyGoesOn` (`OutcomeAgreed`) adds that a path does not leave a
place that has been given up (`StaysGivenUp`): one processor that unwinds and another that is done would be on
one path, in the wrong order.

`NothingStaysOpen` (`FilesClosed`) needs what a processor still has to do, which `FilesKept` adds:
the library's file is open only while processor 0 unwinds or has a close ahead, and whoever has delayed
writes has a flush ahead, and its file open while it runs. Every function closes last and flushes
after its writes (`Sealed`), and delays only what it has opened (`Marked`); the rest of such a list stays so while a
processor runs (`Sound`) and while it unwinds through the destructors (`Ending`). An exception cannot stop a
destructor before its flush: nobody enters an operation with a failed status while a flush is ahead and it
unwinds (`Unharmed`, a conjunct of `Matched`).

**ConnectedComponentsProofs** (assumption: `ImageAssumption`). For the bounds of the vectors and the
order of the runs the inductive invariant is

    IInv == TypeOK /\ ChildrenFollowParents /\ Phases

`Phases` says that pixels already scanned hold numbers of runs, while those ahead still hold
the image (whence `Above` is a run, `AboveIsRun`), that labelling begins after the scan, and what
`grounded` holds then. `RunsStayWellFormed` is the absence of indices out of bounds, whatever
the size of the image and however often the vectors grow, and the
comment "children always follow parents", on which the termination of `run_union()` and the single
sweep over the runs rest. `ComponentsAreFound` is the correctness of `cc()` for images of every size, with

    CInv == IInv /\ ImageInv /\ RunInv /\ MaskInv /\ TreeInv /\ ResultInv

`ImageInv` says what the image holds before and after the present pixel, `RunInv` that `first` and `lengths` name
the pixels of each run, `MaskInv` that a run is grounded when one of its pixels is. `TreeInv` is the
heart: some function takes each run to the root of its tree, and pixels scanned so far have the same root
exactly if they are connected by scanned pixels; inside `run_union()` the same holds up to the edge that is
about to join two trees. Connectivity is stated by closed sets (`Connected`), not paths, which makes the
two steps that change it, a pixel joined to neighbours of one component and to neighbours of two
(`Adds`, `Joins`), provable without induction. The roots themselves, which `ComponentsFound` defines by a recursive
function, are identified with that function by a minimal counterexample (`RootIs`).

**ForcingBufferProofs** (assumption: `ForcingAssumption`). The inductive invariant is

    IInv == TypeOK /\ WindowContents /\ Filled /\ StepCovered

`Filled`: as many records are in memory as there is room for, or as the file has left; without it the
test for what is in memory could pass with a window that is too short. `StepCovered`: the
window reaches over the step that was asked for. `BufferAlwaysConsistent` holds for every file.
`StepsAreServed` has the hypothesis that the data are not periodic and `Regular`: two records or more
in memory, and inner records longer than the tolerance of `max_timestep()`. Records may have gaps between them.
`forcing_single.cfg` shows that it fails with one record. `PeriodicStepsFit` is the rest.
`MinNat`, `MaxNat` and `RecordAtIs`, facts about least and greatest elements, are what the searches for a record rest on.

**RunControlProofs** (assumption: `RunAssumption`; any number of processors, signals and runs).

    IInv == TypeOK /\ InLoop /\ Prompt /\ WritersMeet /\ BackupInPlace /\ Even

`Prompt` gives `SignalsServed`: a signal of an earlier step has its test still ahead.
`BackupInPlace` says in which of the two names the last backup is, at every stage of the
next one, and gives `BackupKept`. `Even` gives `StayTogether`: of two processors with the same signals one
is `Ahead` of the other on the way that the readings prescribe, and while only one of
them has its signal both are at the same place.

*ParallelSection*, in the same module (assumption: `SectionAssumption`; any number of processors and sections):

    SectionInv == SectionTypeOK /\ Contribution /\ Passed /\ WhyStopped /\ DumpedTogether

`Contribution` ties a vote to the place of its processor, `Passed` says that a section somebody has
left had only good votes, `WhyStopped` that a processor stops because of a failure or at the end.
`ProcessorsAlwaysAgree` follows.

**SubModelsProofs** (the assumptions of the five modules). Four inductive invariants:

    BedInv == LoopOK /\ BedTypes /\ BedKnown /\ BedTimes /\ YieldKnown
    AirInv == LoopOK /\ CachesKnown /\ SeaLevelKnown /\ SnowKnown
    WaterInv == LoopOK /\ WaterTypes /\ WaterKept /\ WaterCounted
    SnowInv == LoopOK /\ runs \in 0..MaxRuns /\ Covered(snow, time)

`BedKnown` says what the smoother and the surface hold at each place of a step, in terms of the
state counter; `YieldKnown` that a yield stress with the present time in its call was computed at it.
`CachesKnown` bounds the next update of a cache from both sides, because an update that is a little
early leaves the next one an interval after its due time; with `StepIsLimited`, that a step is not
longer than what the caches allow, it gives the age at the end of the step. From them:
`BedAlwaysCurrent`, `UpliftAlwaysRate`, `ClimateIsCurrent`.

`WaterCounted` says in the middle of an update what `StoresConsistent` says at its end: `Ever(water)`, what is in the
layer and the till with what was counted as lost, is what there was before the step and what was supplied
up to the time the hydrology model has reached. That one sub-step adds the supply of that sub-step
(`SubStepIsBalanced`) is a fact about sums over any number of cells. A sum over a set is the last of its partial
sums, which exist and are unique by a minimal counterexample (`SumsExist`, `SumsUnique`); `SumIs` identifies it with the
sum of the library, which takes the cells in an order nobody knows, by peeling one cell at a time. It
is then additive, and the flow out of each cell is the flow into its neighbour (`TotalOfMoved`). `Covered`
says that the present balance year began at a start no later than now, and that snow is no older,
or that a run skipped the start. Starts are at least a year apart (`StartsApart`), so a step of many samples
can pass several, and none is missed (`SeriesKeeps`). From these two, and from the other two the types:
`StoresStayConsistent`.

**TimeSeriesProofs** (assumption: `TimeSeriesAssumption`: the requested times increase, the diagnostics are different
ones, the ends of runs are bounded). The inductive invariant is `IInv == TableInv /\ CompleteInv`; the first part is inductive
alone and gives `SeriesIsConsistent` and `InterpolationIsRight`:

    TableInv == TypeOK /\ FileTypes /\ ColumnsAligned /\ AxisIncreasing /\ ColumnSamples
                /\ (Active => RunTimes /\ BufferInv /\ FullInv /\ HeldInv /\ FlushInv)

`BufferInv`: the second time of the interpolation buffer is the present one whenever a time is due, and the first one
is earlier than the next time requested, however many steps lie between. `HeldInv`: the records
that wait are those of the last times consumed, in order. `FlushInv` is the heart: times still to be written are later than
the axis, which is as long as each diagnostic takes it for; while a flush is under way (`Begun`) the axis ends with the
records that wait, those diagnostics that have been flushed know its new length, and the others (`Unflushed`) its old one. A
kill may leave that state in the file; the next run takes up the length of the axis for all of them and drops what is
earlier than its end, so columns may have holes but no misplaced records. `FullInv` bounds the records that wait in a
run that was asked for its start.

`CompleteInv` holds under the condition of `AlignedSeriesComplete` (`Aligned`) and says where a requested time is: in the
file if a run before this one passed it, in the list of the run if it is not before its start, in every column if it was consumed
before the first record that waits, in the columns already flushed if it is among those. `AlignedSeriesIsComplete`
follows. The proof corrected the property, which did not say that the chain begins at a requested time and that its runs append:
a run with a new file has nothing from before its start, and without a record at the start the first interval is lost
(the departure `SeriesComplete` of section 6). What the searches in lists return (`DropEarlyIs`, `ParseTimesIs`) are minima and maxima of
sets of indices, from well-foundedness (`Least`, `Greatest`), and an entry that is written is described by its
place (`WrittenAs`, `FilledFrom`), so no induction over a list is needed.

**IceMassProofs** (assumptions: those of `CellTypes`, `Calving`, `MassTransport` and `IceMass`; grids of any size from 3 by 3, any
partition, setup, flow and number of steps). Five inductive invariants on top of the first:

    TypeInv         every field has its type; no thickness, filling or residual is negative
    DivergenceInv == TypeInv /\ NoNetDivergence
    ConsistentInv == TypeInv /\ GeometryConsistent
    IcebergInv    == TypeInv /\ NoIcebergs
    SeaInv        == TypeInv /\ FillingsAtSea
    AccountInv    == SeaInv /\ mass0 \in Int /\ MassAccounted

The loops over the grid are folds over sets of cells. What such a fold computes is proved by `SetInduction`, an argument about
a minimal counterexample for each fold, because a theorem of induction would need an operator for a parameter. From it
come the facts about sums over all cells (additive, invariant when cells are paired) on which conservation
rests: the flux out of a cell through an interface is the flux into its neighbour through the
opposite one, and a residual handed on is divided among the neighbours that receive it.

Each theorem names what it needs, and TLC finds each of these true in all states of the `mass_balance` instance:

* `BCMask = {}` (`FlowMovesIce`, `MassIsAccounted`): a cell with prescribed velocity keeps its thickness while its
  neighbours exchange ice with it, so the flow alone does not conserve mass there.
* `NoJoining` (`StateIsConsistent`): calving meets no cell with both ice and a partial filling; `Href_cleanup()` would add
  to the ice after the mask was computed (`GeometryConsistent` of section 6). `ThinNeverJoins` (`IcebergsAreGone`)
  is its weaker form for cells with less ice than counts as ice.
* `SoundSetups` (`DischargeIsTheLoss`, `MassIsAccounted`): fillings only with `-part_grid` and at sea, `-part_redist`
  only with `-part_grid`, which it is an option of, and no crevasses opening on land, which the discharge does not see.
* `ClosedBoundary` (`MassIsAccounted`): across the periodic boundary of the grid the neighbours that a residual is divided among are counted,
  but those beyond the boundary do not receive their share.
* `NoCellDrained` (`MassIsAccounted`): no partially filled cell loses more than it holds. The non-negativity rule would then
  add mass that `massContExplicitStep()` counts with the sign of `vHref` (`nonneg_rule_flux += vHref`, near `iMgeometry.cc:700`), a departure in
  section 6.

Under them the mass at any time is what there was, plus what the fluxes report, less what three iterations of the
redistribution did not place (`dropped`), which the code does not report.

*StressBalance*, in `TimeSteppingProofs` (assumption: `StressBalanceAssumption`).

    RetryInv == Recovery /\ TriedInOrder /\ MayFail

`TriedInOrder` says which attempts have failed when a strategy is under way, whence giving up means that
all have; `MayFail` that the count of preconditioner failures has room for one more. `RetriesRecover`
follows.

Model-checked only:

* liveness (`Terminates`, `Ends`, `UpdateEnds`, `FilesEnd`), which is out of the prover's reach;
* `NeverMisused` and `RecordsComplete` of `NetCDF3File`, which are about what the calls of a whole function leave in the
  file.

## 5. What is not modelled, and why

* Floating-point formulas: column solvers, SIA and SSA assembly, flow laws, degree days, lapse rates,
  the visco-elastic deformation, the pressure of distributed hydrology, fracture density, the inversion,
  diagnostics. Where the control depends on them they appear as inputs or choices.
* In `IceMass` the bed and the sea level do not change, the surface and basal mass balance are
  uniform in a step, and `check_maximum_thickness()` is left out. Ghosts are modelled where the
  code writes to them (the redistribution) or reads what another processor has changed within a loop;
  the ghosts of the thickness and of the mask are taken as fresh, as they are after each of their updates, the
  removal of icebergs included.
* Under the caches, the limits of the models they cache; they could only shorten steps, and steps may be short.
* In the reports: `-extra_split`, calendars. Rates of change in the time
  series are left out because a comment in the code calls their restart wrong.
* The NetCDF-4, PnetCDF and HDF5 back ends, which are the same functions over other libraries, and regridding.
* The access counters of `IceModelVec`: assertions about pairs of calls in one function.
* Initialization beyond the couplers and the bed, configuration, metadata, units, the regional and
  verification variants, bindings, vendored libraries: straight sequences, look-ups, exact solutions.
* The modules do not see each other where the code does not make them: `SubModels` takes the geometry as a choice,
  `IceMass` the velocity, `TimeStepping` the limits. What the models of one component assume of
  another's is what the other's properties say (the CFL condition, steps within the limits, the
  clock).

## 6. Where the code departs from what is said of it

The configurations below are not among the runs. Each states what a comment, the manual or the plain
purpose says; TLC violates every property of it (`tlc -continue`, or one property at a time).

| configuration, module | property | what happens |
|---|---|---|
| `timestep_no_maximum`, MCTimeStepping | `Terminates` | `maximum_time_step_years = 0` makes every step 0 long (`iMadaptive.cc:323`). |
| `timestep_departures`, MCTimeStepping | `AgeTimeElapsed` | with `-age -energy none` `dt_TempAge` is never cleared, so each age step covers the whole run again. |
| | `NeverPastEnd` | `-timestep_hit_multiples` passes the end by up to a second. |
| | `BedrockStepWithinLimit` | when the diffusive bound relaxes in a skip cycle, the bedrock unit refuses the step. |
| | `TempAgeIsLastUpdate` | a second `run_to()` in the middle of a skip cycle leaves a gap the bedrock unit refuses. |
| `report_departures`, MCReporting | `AppendNeedsNoFile` | `-extra_append` fails when there is no file yet. |
| | `NoExtraRecord` | a run resumed from before the last report writes it again. |
| | `RequestsRecorded` | with a range, the first requested time after a restart gets no report; a kill between snapshot and report loses the report. |
| `ts_departures`, MCTimeSeries | `SamplesMatchTimes` | after `-ts_append` the values in the interpolation buffer are one element behind its times, in all the run. |
| | `WithinLastStep` | values are interpolated since the last requested time, not within the last step. |
| | `SeriesComplete` | a run resumed between two requested times loses a record. |
| | `NoMissingValue` | the first record is NaN when the first step passes two requested times. |
| `forcing_single`, MCForcingBuffer | `StepFits` | with one record in memory a step from a time bound on is refused. |
| `mass_departures`, MCIceMass | `Accounted` | icebergs removed after the transport are in no flux; eigen-calving counts a full cell as lost that keeps most of its ice in `Href`; a residual added to a ghost of `vHref` is lost. |
| | `DischargeAlwaysIsLoss` | crevasses on land are not in the discharge; without a 2D diagnostic it is computed from left-overs in work vectors. |
| | `RedistributionConserves` | the residual of a neighbour on another processor is lost. |
| | `NothingDropped` | three redistribution iterations leave mass, which is dropped. |
| | `IsolatedHrefBecomesIce` | a partially filled cell without icy neighbours does not become ice. |
| | `TonguesAtOnce` | a narrow tongue is removed cell after cell in one direction only. |
| | `HrefAtShelves` | `Href` is kept next to grounded ice as well. |
| | `LandAndOcean` | land and ocean fluxes miss the factor of the cell area. |
| | `Accounted` | mass added to a negative `Href` is reported with the wrong sign. |
| | `GeometryConsistent` | `Href_cleanup()` adds to thin ice after the mask was updated. |
| `submodels_departures`, MCSubModels | `OnceAYear` | a step that crosses the start of a balance year, or a restart, sets the next start back: the snow is removed twice. |
| | `SnowNeverTwice` | under a cache the snow of a year is computed ahead, and again by the run that resumes. |
| | `DecentState` | the second initialization takes the sea level of the first away. |
| | `LossesReported` | till water that is lost is reported twice. |
| | `UpliftIsMovement` | the first uplift after `-regrid_bed_special` counts the correction of the bed. |
| `stress_balance_departures`, StressBalance | `FailureReported` | when all strategies fail the loop of `SSAFD::solve()` ends before its error is thrown. |
| | `RegularizedAfterKSP` | a linear solver failure in the second strategy is not caught, so the regularization is not tried. |

The passing runs state the same properties on the part of the behaviour where they hold:
`ListedTimesRecorded`, `AlignedSeriesComplete`, `InterpolationRight`, `WaterAccounted`, `UpliftIsRate` and
`YearlyReset` name the condition in the formula (for `YearlyReset` the history `skipped`: a run that begins in a balance
year does not look for its start, so snow of the year before stays, also for the runs after it); the setups of `mass_balance` leave out the redistribution on two
processors and geometries with thin ice.

Three more observations that no configuration shows: `init_interpolation()` gives a time in a gap between two records, and all
later times of the series, the index `N` (`Index`), which is beyond the window: `RightRecord` excepts them (`InGap`); `PGivenClimate` and most other owners of an `IceModelVec2T`
set no limit to the step, so what `StepServed` says does not protect them from the exception; and
`PDDrandMassBalance::get_PDDs()` (`localMassBalance.cc:271`) leaves the number of degree days of the
previous grid point in its work array where all samples are at or below the threshold.

## 7. Plan

Done, in this order: the loop and its clock; reports and time series over chains of runs; forcing;
geometry, transport and calving; connected components; sections across processors; files; signals,
backups and kills; the sub-models within the loop; the stress balance; the proofs of
section 4.

What is left, the most valuable first:

1. *Refinement*: `RunControl` and `NetCDF3File` both have a file as it is being written; the file of
   `RunControl` (missing, partial, complete) should be the abstraction of the calls of `NetCDF3File`,
   and `saved` of `Reporting` that of the files of `RunControl`.
2. *FieldAccess*: ghosts and state counters of all fields in `step()`, not only the bed.
3. The other file back ends, where all processors call the library and define mode is collective.
4. `IceMass` with a bed that moves and a sea level that changes.
5. Proofs of `NeverMisused` and `RecordsComplete`: the state of the file along the stages of each function.

## 8. Running it

`tlc -config report_runs.cfg MCReporting.tla` checks a run; the module of a configuration is
the MC module of section 2, and `timestep_steady` uses `MCSteadyTimeStepping`. `RunControl` and
`StressBalance` need no MC module: their configurations are those of the module itself.
`tlapm TimeSteppingProofs.tla` checks the proofs of a module, and so for the other modules
ending in `Proofs`. `PROJECT.json` maps every definition to the lines it stands for.

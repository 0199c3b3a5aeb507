--------------------------- MODULE SubModelsProofs ---------------------------
(***************************************************************************)
(* For every sequence of runs, lengths of steps, intervals and loads: what  *)
(* the sub-models remember of the bed and of the climate is what the step   *)
(* needs, and their stores, the water under the ice and the snow on it,     *)
(* add up.                                                                  *)
(***************************************************************************)
EXTENDS SubModels, FiniteSetTheorems, WellFoundedInduction, TLAPS

Places == {"off", "yield", "balance", "limit", "air", "water", "geometry", "bed",
           "advance", "ended", "stopped"}

(* Where the length of the step is known, and where the climate is.         *)
Moving   == {"air", "water", "geometry", "bed", "advance"}
Known    == {"water", "geometry", "bed", "advance"}

LoopOK ==
  /\ scenario \in Scenarios
  /\ pc \in Places
  /\ time \in Nat /\ start \in Nat /\ end \in Nat /\ dt \in Nat
  /\ start <= time
  /\ atDepth \in BOOLEAN /\ bootstrapped \in BOOLEAN
  /\ pc \in Moving => dt > 0

LEMMA Options ==
  ASSUME scenario \in Scenarios
  PROVE  /\ scenario.caches \subseteq {"surface", "ocean"}
         /\ scenario.bed \in BedModels
         /\ scenario.correction \in Int
BY SubModelsAssumption DEF ScenarioType

LEMMA LoopInit == Init => LoopOK
<1> SUFFICES ASSUME Init PROVE LoopOK
  OBVIOUS
<1>1. /\ scenario \in Scenarios /\ pc = "off"
      /\ time = 0 /\ start = 0 /\ end = 0 /\ dt = 0
  BY DEF Init
<1>2. atDepth \in BOOLEAN /\ bootstrapped \in BOOLEAN
  BY DEF Init
<1> QED
  BY <1>1, <1>2 DEF LoopOK, Places, Moving

LEMMA LoopStep == LoopOK /\ [Next]_vars => LoopOK'
<1> SUFFICES ASSUME LoopOK, [Next]_vars PROVE LoopOK'
  OBVIOUS
<1> USE DEF LoopOK, Places, Moving
<1>1. ASSUME NEW e \in Ends, NEW b \in BOOLEAN, Begin(e, b) PROVE LoopOK'
  BY <1>1, SubModelsAssumption DEF Begin
<1>2. CASE YieldStress
  BY <1>2 DEF YieldStress, loopVars
<1>3. CASE StressBalance
  BY <1>3 DEF StressBalance, loopVars
<1>4. CASE MaxTimestep
  BY <1>4, SubModelsAssumption DEF MaxTimestep, loopVars
<1>5. CASE SurfaceAndOcean
  BY <1>5 DEF SurfaceAndOcean, loopVars
<1>6. CASE NullTransport \/ Route
  BY <1>6 DEF NullTransport, Route, loopVars
<1>7. CASE Geometry
  BY <1>7 DEF Geometry, loopVars
<1>8. CASE BedUpdate
  BY <1>8 DEF BedUpdate, loopVars
<1>9. CASE Advance
  BY <1>9 DEF Advance, loopVars
<1>10. CASE UNCHANGED vars
  BY <1>10 DEF vars, loopVars
<1> QED
  BY <1>1, <1>2, <1>3, <1>4, <1>5, <1>6, <1>7, <1>8, <1>9, <1>10 DEF Next, Loop

-----------------------------------------------------------------------------
(* The bed.                                                                 *)
BedTypes ==
  /\ bed \in BedState
  /\ smoother \in [counter : Int, topg : Int]
  /\ thk \in Int /\ forgotten \in Int
  /\ yield \in [call : Int \X Int, at : Int]

(* What correct_topg() has added since topg_last was set.                   *)
Correction ==
  IF scenario.bed = "LingleClark" /\ bootstrapped /\ bed.last = start
    THEN scenario.correction ELSE 0

(* The elevation at the last update, the load it answers, and the users of  *)
(* the bed: the surface, and the smoother with its state counter.           *)
BedKnown ==
  /\ bed.topg = bed.topgLast + Correction
  /\ scenario.bed = "isostasy" => bed.topg + bed.thkLast = forgotten
  /\ surface = bed.topg
  /\ smoother.counter <= bed.counter
  /\ smoother.counter = bed.counter => smoother.topg = bed.topg
  /\ pc = "limit" => smoother.counter = bed.counter

(* The bed is updated once in a step, and at the end of a run.              *)
BedTimes ==
  /\ pc # "advance" => bed.last <= time
  /\ pc = "advance" => bed.last <= time + dt
  /\ pc # "advance" => bed.call[1] < time \/ bed.call = NoCall
  /\ pc = "advance" => bed.call[1] <= time \/ bed.call = NoCall
  /\ pc = "advance" /\ time + dt >= end => bed.thkLast = thk
  /\ pc = "ended" => bed.thkLast = thk

YieldKnown ==
  /\ yield.call = NoCall \/ yield.call[1] = yield.at
  /\ pc = "balance" /\ atDepth => yield.at = time

BedInv == LoopOK /\ BedTypes /\ BedKnown /\ BedTimes /\ YieldKnown

LEMMA InitBedInv == Init => BedInv
<1> SUFFICES ASSUME Init PROVE BedInv
  OBVIOUS
<1>1. LoopOK
  BY LoopInit
<1>2. BedTypes
  BY DEF Init, BedTypes, BedState, NoCall, Never
<1>3. BedKnown /\ BedTimes /\ YieldKnown
  BY DEF Init, BedKnown, BedTimes, YieldKnown, Correction, NoCall, Never
<1> QED
  BY <1>1, <1>2, <1>3 DEF BedInv

LEMMA BeginKeepsBed ==
  ASSUME BedInv, NEW e \in Ends, NEW b \in BOOLEAN, Begin(e, b)
  PROVE  BedTypes' /\ BedKnown' /\ BedTimes' /\ YieldKnown'
<1> DEFINE newBed == BedInit(bed, time, thk)
<1>1. /\ newBed \in BedState
      /\ newBed.last = time /\ newBed.topg = bed.topg /\ newBed.topgLast = bed.topg
      /\ newBed.thkLast = thk /\ newBed.counter = 0 /\ newBed.call = <<-1, -1>>
  <2>1. bed \in BedState /\ time \in Nat /\ thk \in Int
    BY DEF BedInv, LoopOK, BedTypes
  <2> DEFINE none == <<-1, -1>>
  <2>2. none \in Int \X Int
    OBVIOUS
  <2>3. newBed = [bed EXCEPT !.last = time, !.thkLast = thk, !.topgLast = bed.topg,
                             !.counter = 0, !.call = none]
    BY DEF BedInit
  <2> HIDE DEF none, newBed
  <2>4. newBed = [last |-> time, topg |-> bed.topg, topgLast |-> bed.topg,
                  thkLast |-> thk, uplift |-> bed.uplift, counter |-> 0, call |-> none]
    BY <2>1, <2>3 DEF BedState
  <2>5. /\ newBed \in BedState
        /\ newBed.last = time /\ newBed.topg = bed.topg /\ newBed.topgLast = bed.topg
        /\ newBed.thkLast = thk /\ newBed.counter = 0 /\ newBed.call = none
    BY <2>1, <2>2, <2>4 DEF BedState
  <2> QED
    BY <2>5 DEF none
<1> HIDE DEF newBed
<1>2. /\ scenario.correction \in Int /\ scenario.bed \in BedModels
      /\ time \in Nat /\ bed \in BedState
  BY Options DEF BedInv, LoopOK, BedTypes
<1>3. /\ bed' \in BedState
      /\ bed'.last = time /\ bed'.topgLast = bed.topg
      /\ bed'.topg = bed.topg + (IF b /\ scenario.bed = "LingleClark"
                                   THEN scenario.correction ELSE 0)
      /\ bed'.thkLast = thk /\ bed'.counter = 0 /\ bed'.call = <<-1, -1>>
  BY <1>1, <1>2 DEF Begin, newBed, CorrectTopg, BedState
<1>4. /\ smoother' \in [counter : Int, topg : Int] /\ smoother'.counter = -1
      /\ surface' = bed'.topg /\ thk' = thk /\ scenario' = scenario
      /\ forgotten' = forgotten + thk - bed.thkLast
      /\ yield' = [call |-> NoCall, at |-> Never]
      /\ pc' = "yield" /\ time' = time /\ start' = time /\ bootstrapped' = b
  BY DEF Begin, BedInv, BedTypes
<1>5. BedTypes'
  BY <1>2, <1>3, <1>4 DEF BedInv, BedTypes, BedState, NoCall, Never
<1>6. BedKnown'
  BY <1>2, <1>3, <1>4 DEF BedInv, BedTypes, BedKnown, Correction, BedState, BedModels
<1>7. BedTimes' /\ YieldKnown'
  BY <1>2, <1>3, <1>4 DEF BedTimes, YieldKnown, NoCall, Never
<1> QED
  BY <1>5, <1>6, <1>7

(* One update of the bed.                                                   *)
LEMMA BedMoved ==
  ASSUME BedInv, BedUpdate
  PROVE  \/ /\ bed' = [bed EXCEPT !.call = <<time, dt>>]
            /\ time + dt < end
         \/ /\ \E e \in Elevations(bed, scenario.bed, thk) :
                 bed' = Moved([bed EXCEPT !.call = <<time, dt>>], e, thk, time + dt)
            /\ bed.last < time + dt
<1>1. /\ pc = "bed" /\ time \in Nat /\ dt \in Nat /\ dt > 0 /\ end \in Nat
      /\ bed \in BedState /\ bed.last <= time
      /\ bed.call[1] < time \/ bed.call = NoCall
  BY DEF BedInv, LoopOK, Moving, BedTypes, BedTimes, BedUpdate
<1>2. bed.call # <<time, dt>>
  BY <1>1 DEF NoCall
<1>3. bed' \in BedUpdates(bed, scenario.bed, thk, time, dt, end)
  BY DEF BedUpdate
<1> DEFINE called == [bed EXCEPT !.call = <<time, dt>>]
<1>4. CASE BedDue(bed, time + dt, end)
  <2>1. bed' \in {Moved(called, e, thk, time + dt) :
                     e \in Elevations(bed, scenario.bed, thk)}
    <3>1. BedUpdates(bed, scenario.bed, thk, time, dt, end) =
            {Moved(called, e, thk, time + dt) :
               e \in Elevations(bed, scenario.bed, thk)}
      BY <1>2, <1>4, Zenon DEF BedUpdates
    <3> QED
      BY <1>3, <3>1
  <2>2. bed.last < time + dt
    BY <1>1, <1>4 DEF BedDue, BedState
  <2> QED
    BY <2>1, <2>2
<1>5. CASE ~BedDue(bed, time + dt, end)
  <2>1. bed' = called
    BY <1>2, <1>3, <1>5 DEF BedUpdates
  <2>2. ~(time + dt >= end)
    BY <1>1, <1>5 DEF BedDue, BedState
  <2> QED
    BY <1>1, <2>1, <2>2
<1> QED
  BY <1>4, <1>5

(* Where it goes.                                                           *)
LEMMA BedAfter ==
  ASSUME BedInv, BedUpdate, bed.last < time + dt,
         NEW e \in Elevations(bed, scenario.bed, thk),
         bed' = Moved([bed EXCEPT !.call = <<time, dt>>], e, thk, time + dt)
  PROVE  /\ bed' \in BedState
         /\ bed'.last = time + dt /\ bed'.topg = e /\ bed'.topgLast = e
         /\ bed'.thkLast = thk /\ bed'.uplift = e - bed.topgLast
         /\ bed'.counter = bed.counter + 1 /\ bed'.call = <<time, dt>>
         /\ scenario.bed = "isostasy" => e = bed.topgLast - (thk - bed.thkLast)
<1>1. /\ time \in Nat /\ dt \in Nat /\ bed \in BedState /\ thk \in Int
      /\ scenario.bed \in BedModels
  BY Options DEF BedInv, LoopOK, BedTypes
<1> DEFINE called == [bed EXCEPT !.call = <<time, dt>>]
<1>2. /\ called \in BedState /\ called.topg = bed.topg
      /\ called.topgLast = bed.topgLast /\ called.thkLast = bed.thkLast
      /\ called.counter = bed.counter /\ called.call = <<time, dt>>
  BY <1>1 DEF BedState
<1>3. bed' = Moved(called, e, thk, time + dt)
  OBVIOUS
<1> HIDE DEF called
<1>4. e \in Int /\ (scenario.bed = "isostasy" => e = bed.topgLast - (thk - bed.thkLast))
  BY <1>1, BedAssumption DEF Elevations, BedState, BedModels
<1>5. bed' = [last |-> time + dt, topg |-> e, topgLast |-> e, thkLast |-> thk,
              uplift |-> e - bed.topgLast, counter |-> bed.counter + 1,
              call |-> <<time, dt>>]
  BY <1>2, <1>3 DEF Moved, BedState
<1> QED
  BY <1>1, <1>4, <1>5 DEF BedState

LEMMA BedUpdateKeeps ==
  ASSUME BedInv, BedUpdate
  PROVE  BedTypes' /\ BedKnown' /\ BedTimes' /\ YieldKnown'
<1>1. /\ pc = "bed" /\ pc' = "advance" /\ time' = time /\ dt' = dt /\ start' = start
      /\ end' = end /\ scenario' = scenario /\ bootstrapped' = bootstrapped
      /\ forgotten' = forgotten /\ thk' = thk /\ smoother' = smoother
      /\ yield' = yield /\ atDepth' = atDepth
      /\ surface' = IF bed'.counter # bed.counter THEN bed'.topg ELSE surface
  BY DEF BedUpdate, loopVars
<1>2. /\ time \in Nat /\ dt \in Nat /\ dt > 0 /\ start \in Nat /\ start <= time /\ end \in Nat
      /\ bed \in BedState /\ thk \in Int /\ forgotten \in Int
      /\ smoother \in [counter : Int, topg : Int]
      /\ yield \in [call : Int \X Int, at : Int]
      /\ scenario.correction \in Int
  BY <1>1, Options DEF BedInv, LoopOK, Moving, BedTypes
<1>3. CASE bed' = [bed EXCEPT !.call = <<time, dt>>] /\ time + dt < end
  <2>1. /\ bed' \in BedState
        /\ bed'.last = bed.last /\ bed'.topg = bed.topg /\ bed'.topgLast = bed.topgLast
        /\ bed'.thkLast = bed.thkLast /\ bed'.counter = bed.counter
        /\ bed'.call = <<time, dt>>
    BY <1>2, <1>3 DEF BedState
  <2>2. BedTypes'
    BY <1>1, <1>2, <2>1 DEF BedTypes
  <2>3. BedKnown'
    BY <1>1, <1>2, <2>1 DEF BedInv, BedKnown, Correction
  <2>4. BedTimes' /\ YieldKnown'
    BY <1>1, <1>2, <1>3, <2>1 DEF BedInv, BedTimes, YieldKnown, BedState
  <2> QED
    BY <2>2, <2>3, <2>4
<1>4. ASSUME NEW e \in Elevations(bed, scenario.bed, thk),
             bed' = Moved([bed EXCEPT !.call = <<time, dt>>], e, thk, time + dt),
             bed.last < time + dt
      PROVE  BedTypes' /\ BedKnown' /\ BedTimes' /\ YieldKnown'
  <2>1. /\ bed' \in BedState
        /\ bed'.last = time + dt /\ bed'.topg = e /\ bed'.topgLast = e
        /\ bed'.thkLast = thk
        /\ bed'.counter = bed.counter + 1 /\ bed'.call = <<time, dt>>
        /\ scenario.bed = "isostasy" => e = bed.topgLast - (thk - bed.thkLast)
    BY <1>4, BedAfter
  <2>2. BedTypes'
    BY <1>1, <1>2, <2>1 DEF BedTypes
  <2>3. Correction' = 0
    BY <1>1, <1>2, <2>1 DEF Correction
  <2>4. scenario.bed = "isostasy" => bed.topg = bed.topgLast
    BY <1>2 DEF BedInv, BedKnown, Correction, BedState
  <2>5. BedKnown'
    BY <1>1, <1>2, <2>1, <2>3, <2>4 DEF BedInv, BedKnown, BedState
  <2>6. BedTimes' /\ YieldKnown'
    BY <1>1, <1>2, <2>1 DEF BedInv, BedTimes, YieldKnown
  <2> QED
    BY <2>2, <2>5, <2>6
<1> QED
  BY <1>3, <1>4, BedMoved

LEMMA BedStep == BedInv /\ [Next]_vars => BedInv'
<1> SUFFICES ASSUME BedInv, [Next]_vars PROVE BedTypes' /\ BedKnown' /\ BedTimes' /\ YieldKnown'
  BY LoopStep DEF BedInv
<1>0. /\ time \in Nat /\ start \in Nat /\ end \in Nat /\ dt \in Nat /\ start <= time
      /\ pc \in Places /\ (pc \in Moving => dt > 0)
  BY DEF BedInv, LoopOK
<1>1. ASSUME NEW e \in Ends, NEW b \in BOOLEAN, Begin(e, b)
      PROVE BedTypes' /\ BedKnown' /\ BedTimes' /\ YieldKnown'
  BY <1>1, BeginKeepsBed
<1>2. CASE YieldStress
  <2>1. /\ pc = "yield" /\ pc' = "balance" /\ UNCHANGED <<loopVars, bedVars, time, dt, atDepth>>
        /\ yield' = IF atDepth /\ ~SameCall(yield.call, time, dt)
                      THEN [call |-> <<time, dt>>, at |-> time] ELSE yield
    BY <1>2 DEF YieldStress
  <2>2. BedTypes'
    BY <1>0, <2>1 DEF BedInv, BedTypes, loopVars, bedVars
  <2>3. BedKnown' /\ BedTimes'
    BY <2>1 DEF BedInv, BedKnown, BedTimes, Correction, loopVars, bedVars
  <2>4. YieldKnown'
    BY <1>0, <2>1 DEF BedInv, BedTypes, YieldKnown, SameCall, NoCall
  <2> QED
    BY <2>2, <2>3, <2>4
<1>3. CASE StressBalance
  <2>1. /\ pc = "balance" /\ pc' = "limit"
        /\ smoother' = IF bed.counter > smoother.counter
                         THEN [counter |-> bed.counter, topg |-> bed.topg] ELSE smoother
        /\ UNCHANGED <<loopVars, time, dt, atDepth, bed, thk, surface, yield>>
    BY <1>3 DEF StressBalance
  <2>2. BedTypes'
    BY <2>1 DEF BedInv, BedTypes, BedState, loopVars
  <2>3. BedKnown'
    BY <2>1 DEF BedInv, BedTypes, BedState, BedKnown, Correction, loopVars
  <2>4. BedTimes' /\ YieldKnown'
    BY <2>1 DEF BedInv, BedTimes, YieldKnown, loopVars
  <2> QED
    BY <2>2, <2>3, <2>4
<1>4. CASE MaxTimestep
  <2>1. /\ pc = "limit" /\ pc' = "air" /\ UNCHANGED <<loopVars, time, atDepth, bedVars, yield>>
    BY <1>4 DEF MaxTimestep
  <2> QED
    BY <2>1 DEF BedInv, BedTypes, BedKnown, BedTimes, YieldKnown, Correction, loopVars, bedVars
<1>5. CASE SurfaceAndOcean \/ NullTransport \/ Route
  <2>1. /\ pc \in {"air", "water"} /\ pc' \in {"water", "geometry"}
        /\ UNCHANGED <<loopVars, time, dt, atDepth, bedVars, yield>>
    BY <1>5 DEF SurfaceAndOcean, NullTransport, Route
  <2> QED
    BY <2>1 DEF BedInv, BedTypes, BedKnown, BedTimes, YieldKnown, Correction, loopVars, bedVars
<1>6. CASE Geometry
  <2>1. /\ pc = "geometry" /\ pc' = "bed"
        /\ thk' \in Int /\ surface' \in {surface, bed.topg}
        /\ UNCHANGED <<loopVars, time, dt, atDepth, bed, smoother, yield>>
    BY <1>6, SubModelsAssumption DEF Geometry, BedInv, BedTypes
  <2> QED
    BY <2>1 DEF BedInv, BedTypes, BedKnown, BedTimes, YieldKnown, Correction, loopVars
<1>7. CASE BedUpdate
  BY <1>7, BedUpdateKeeps
<1>8. CASE Advance
  <2>1. /\ pc = "advance" /\ time' = time + dt
        /\ pc' \in {"ended", "yield", "stopped"} /\ (pc' = "ended" => time + dt >= end)
        /\ UNCHANGED <<loopVars, dt, bedVars, yield>>
    BY <1>8 DEF Advance
  <2>2. BedTypes' /\ BedKnown' /\ YieldKnown'
    BY <2>1 DEF BedInv, BedTypes, BedKnown, YieldKnown, Correction, loopVars, bedVars
  <2>3. BedTimes'
    BY <1>0, <2>1 DEF BedInv, BedTypes, BedState, BedTimes, Moving, loopVars, bedVars
  <2> QED
    BY <2>2, <2>3
<1>9. CASE UNCHANGED vars
  BY <1>9 DEF vars, BedInv, BedTypes, BedKnown, BedTimes, YieldKnown, Correction,
              loopVars, bedVars
<1> QED
  BY <1>1, <1>2, <1>3, <1>4, <1>5, <1>6, <1>7, <1>8, <1>9 DEF Next, Loop

LEMMA BedAlways == Spec => []BedInv
BY InitBedInv, BedStep, PTL DEF Spec

(* In every chain of runs the bed has answered the whole load but for what  *)
(* runs that were stopped left over, and the surface elevation, the bed of  *)
(* the smoother and the yield stress a stress balance uses are of its time. *)
THEOREM BedAlwaysCurrent == Spec => []BedCurrent
<1>1. BedInv => BedCurrent
  <2> SUFFICES ASSUME BedInv PROVE BedCurrent
    OBVIOUS
  <2>1. BedFollowsLoad
    BY DEF BedInv, BedKnown, BedTimes, BedFollowsLoad
  <2>2. BedSeen
    BY DEF BedInv, BedKnown, BedSeen
  <2>3. YieldFresh
    BY DEF BedInv, YieldKnown, YieldFresh
  <2> QED
    BY <2>1, <2>2, <2>3 DEF BedCurrent
<1> QED
  BY <1>1, BedAlways, PTL

(* Whatever interval lies between two updates of the bed, the uplift is its *)
(* movement, but for the correction that the first one of a run counts.     *)
THEOREM UpliftAlwaysRate == Spec => UpliftIsRate
<1> DEFINE Rate ==
      pc = "bed" /\ bed'.last # bed.last => bed'.uplift = bed'.topg - bed.topg + Correction
<1>1. BedInv /\ [Next]_vars => [Rate]_vars
  <2> SUFFICES ASSUME BedInv, Next, pc = "bed", bed'.last # bed.last
               PROVE  bed'.uplift = bed'.topg - bed.topg + Correction
    OBVIOUS
  <2>1. BedUpdate
    BY DEF Next, Loop, Begin, YieldStress, StressBalance, MaxTimestep, SurfaceAndOcean,
           NullTransport, Route, Geometry, Advance
  <2>2. bed \in BedState /\ scenario.correction \in Int
    BY Options DEF BedInv, LoopOK, BedTypes
  <2>3. bed' # [bed EXCEPT !.call = <<time, dt>>]
    BY <2>2 DEF BedState
  <2>4. PICK e \in Elevations(bed, scenario.bed, thk) :
          bed' = Moved([bed EXCEPT !.call = <<time, dt>>], e, thk, time + dt)
    BY <2>1, <2>3, BedMoved
  <2>5. bed.last < time + dt
    BY <2>1, <2>3, BedMoved
  <2>6. bed' \in BedState /\ bed'.topg = e /\ bed'.uplift = e - bed.topgLast
    BY <2>1, <2>4, <2>5, BedAfter
  <2>7. bed.topg = bed.topgLast + Correction
    BY DEF BedInv, BedKnown
  <2> QED
    BY <2>2, <2>6, <2>7 DEF BedState, Correction
<1>2. [Rate]_vars => [pc = "bed" /\ bed'.last # bed.last =>
                        bed'.uplift = bed'.topg - bed.topg +
                          (IF scenario.bed = "LingleClark" /\ bootstrapped /\ bed.last = start
                             THEN scenario.correction ELSE 0)]_vars
  BY DEF Correction
<1> HIDE DEF Rate
<1> QED
  BY <1>1, <1>2, BedAlways, PTL DEF Spec, UpliftIsRate

-----------------------------------------------------------------------------
(* The climate.                                                             *)
CacheNames == {"surface", "ocean"}

(* The next update is never due later than an interval and a second after   *)
(* the last one, and at once if there was none.                             *)
CacheKnown(c, t) ==
  /\ c \in CacheState
  /\ c.at # Never => c.next < c.at + CacheInterval + Second
  /\ c.at = Never => c.next <= t

CachesKnown ==
  /\ cache \in [CacheNames -> CacheState]
  /\ \A k \in CacheNames : CacheKnown(cache[k], time)
  /\ pc = "air" =>
       \A k \in scenario.caches : dt <= CacheLimit(cache[k], time) + Slack
  /\ pc \in Known =>
       \A k \in scenario.caches :
         cache[k].at # Never /\ time + dt - cache[k].at < CacheInterval + 2 * Second

SeaLevelKnown ==
  /\ seaLevel \in Int
  /\ "ocean" \in scenario.caches => seaLevel = cache["ocean"].at
  /\ "ocean" \notin scenario.caches /\ pc \in Known => seaLevel = time
  /\ pc \in {"yield", "balance"} /\
     (time > start \/ (bootstrapped /\ "ocean" \in scenario.caches)) =>
       /\ seaLevel # Never
       /\ IF "ocean" \in scenario.caches
            THEN time - seaLevel < CacheInterval + 2 * Second
            ELSE time - seaLevel <= dt

SnowKnown ==
  /\ "last" \in DOMAIN snow
  /\ "surface" \notin scenario.caches =>
       /\ snow.last \in Int
       /\ pc \in Known => snow.last < time + dt
       /\ pc \notin Known => snow.last < time

AirInv == LoopOK /\ CachesKnown /\ SeaLevelKnown /\ SnowKnown

LEMMA Times ==
  /\ Second \in Nat \ {0} /\ CacheInterval \in Nat /\ CacheInterval >= Second
  /\ Slack \in Nat /\ Slack < Second
BY CacheAssumption, SubModelsAssumption

LEMMA InitAir == Init => AirInv
<1> SUFFICES ASSUME Init PROVE AirInv
  OBVIOUS
<1>1. LoopOK
  BY LoopInit
<1>2. /\ pc = "off" /\ time = 0 /\ start = 0 /\ bootstrapped = FALSE
      /\ seaLevel = -1 /\ snow = Bare(0)
      /\ cache = [k \in {"surface", "ocean"} |-> [next |-> 0, at |-> -1]]
  BY DEF Init, CacheInit, Never
<1>3. CachesKnown
  BY <1>2 DEF CachesKnown, CacheKnown, CacheNames, CacheState, Never, Known
<1>4. SeaLevelKnown
  BY <1>2 DEF SeaLevelKnown, Never, Known
<1>5. SnowKnown
  BY <1>2 DEF SnowKnown, Bare, Known
<1> QED
  BY <1>1, <1>3, <1>4, <1>5 DEF AirInv

(* CacheUpdate() keeps the schedule.                                        *)
LEMMA CacheUpdated ==
  ASSUME NEW t \in Nat, NEW c, CacheKnown(c, t)
  PROVE  /\ CacheKnown(CacheUpdate(c, t), t)
         /\ CacheUpdate(c, t).at # Never
         /\ Due(c, t) => CacheUpdate(c, t).at = t
         /\ ~Due(c, t) => CacheUpdate(c, t) = c
<1>1. c \in CacheState
  BY DEF CacheKnown
<1>2. CASE Due(c, t)
  <2>1. CacheUpdate(c, t) = [next |-> c.next + CacheInterval, at |-> t]
    BY <1>2 DEF CacheUpdate
  <2> QED
    BY <1>1, <1>2, <2>1, Times DEF CacheKnown, CacheState, Due, Never
<1>3. CASE ~Due(c, t)
  <2>1. CacheUpdate(c, t) = c
    BY <1>3 DEF CacheUpdate
  <2>2. c.at # Never
    BY <1>1, <1>3 DEF CacheKnown, CacheState, Due
  <2> QED
    BY <1>3, <2>1, <2>2
<1> QED
  BY <1>2, <1>3

(* A step that the cache allows ends before what it holds is too old.       *)
LEMMA CacheFresh ==
  ASSUME NEW t \in Nat, NEW d \in Nat, NEW c, CacheKnown(c, t),
         d <= CacheLimit(c, t) + Slack
  PROVE  t + d - CacheUpdate(c, t).at < CacheInterval + 2 * Second
<1>1. c \in CacheState /\ CacheUpdate(c, t).at # Never
  BY CacheUpdated DEF CacheKnown
<1>2. CASE Due(c, t)
  <2>1. CacheUpdate(c, t).at = t
    BY <1>2, CacheUpdated
  <2>2. CacheLimit(c, t) <= CacheInterval
    BY <1>1, <1>2, Times DEF Due, CacheLimit, CacheState
  <2> QED
    BY <1>1, <2>1, <2>2, Times DEF CacheLimit, CacheState
<1>3. CASE ~Due(c, t)
  <2>1. CacheUpdate(c, t) = c
    BY <1>3, CacheUpdated
  <2>2. CacheLimit(c, t) = c.next - t
    BY <1>1, <1>3 DEF Due, CacheLimit, CacheState
  <2> QED
    BY <1>1, <2>1, <2>2, Times DEF CacheKnown, CacheState
<1> QED
  BY <1>2, <1>3

(* Initialization.                                                          *)
LEMMA BeginKeepsAir ==
  ASSUME AirInv, NEW e \in Ends, NEW b \in BOOLEAN, Begin(e, b)
  PROVE  CachesKnown' /\ SeaLevelKnown' /\ SnowKnown'
<1> DEFINE newSnow  == SnowInit(snow, time)
           newCache == [k \in DOMAIN cache |-> CacheInit(time)]
           none     == [snow |-> newSnow, cache |-> newCache, level |-> Never]
           air      == IF b THEN InitAgain(InitStep(newSnow, newCache, time), snow, time)
                            ELSE InitAgain(none, snow, time)
<1>1. /\ time \in Nat /\ scenario.caches \subseteq CacheNames /\ time' = time
      /\ start' = time /\ bootstrapped' = b /\ scenario' = scenario
      /\ pc' = "yield" /\ pc \notin Known
      /\ snow' = air.snow /\ cache' = air.cache /\ seaLevel' = air.level
  BY Options DEF Begin, AirInv, LoopOK, CacheNames, Known
<1>2. newCache = [k \in CacheNames |-> [next |-> time, at |-> Never]]
  BY DEF AirInv, CachesKnown, CacheInit
<1> HIDE DEF newCache
<1>3. snow' = SnowInit(snow, time)
  BY <1>1 DEF InitAgain
<1>4. SnowKnown'
  BY <1>1, <1>3 DEF AirInv, SnowKnown, SnowInit, Known
<1>5. CASE b
  <2> DEFINE d  == Higher(Min(AirLimits(newCache, time) \cup {Year}), Second)
             up == AirUpdate(newSnow, newCache, Never, time, d)
  <2>1. /\ up.cache = [k \in CacheNames |-> CacheUpdate(newCache[k], time)]
        /\ up.level = IF "ocean" \notin scenario.caches \/ Due(newCache["ocean"], time)
                        THEN time ELSE Never
    BY <1>2 DEF AirUpdate
  <2>2. \A k \in CacheNames : Due(newCache[k], time)
    BY <1>1, <1>2 DEF Due
  <2>3. up.cache = [k \in CacheNames |-> [next |-> time + CacheInterval, at |-> time]]
        /\ up.level = time
    BY <1>2, <2>1, <2>2 DEF CacheUpdate, CacheNames
  <2> HIDE DEF up
  <2>4. air = InitAgain(up, snow, time)
    BY <1>5 DEF InitStep, up
  <2>5. /\ cache' = [k \in CacheNames |-> [next |-> time, at |-> time]]
        /\ seaLevel' = IF "ocean" \in scenario.caches THEN time ELSE Never
    <3>1. /\ cache' = [k \in DOMAIN up.cache |-> [up.cache[k] EXCEPT !.next = time]]
          /\ seaLevel' = IF "ocean" \in scenario.caches THEN up.level ELSE Never
      <4>1. /\ air.cache = [k \in DOMAIN up.cache |-> [up.cache[k] EXCEPT !.next = time]]
            /\ air.level = IF "ocean" \in scenario.caches THEN up.level ELSE Never
        <5> HIDE DEF air
        <5> QED
          BY <2>4 DEF InitAgain
      <4> HIDE DEF air
      <4> QED
        BY <1>1, <4>1
    <3> HIDE DEF air
    <3> QED
      BY <2>3, <3>1
  <2>6. CachesKnown'
    BY <1>1, <2>5, Times DEF CachesKnown, CacheKnown, CacheState, Known, Never
  <2>7. SeaLevelKnown'
    BY <1>1, <2>5, Times DEF SeaLevelKnown, Known, Never, CacheNames
  <2> QED
    BY <1>4, <2>6, <2>7
<1>6. CASE ~b
  <2>1. air = InitAgain(none, snow, time)
    BY <1>6
  <2>2. /\ cache' = [k \in CacheNames |-> [next |-> time, at |-> Never]]
        /\ seaLevel' = Never
    BY <1>1, <1>2, <2>1 DEF InitAgain
  <2>3. CachesKnown'
    BY <1>1, <2>2, Times DEF CachesKnown, CacheKnown, CacheState, Known, Never
  <2>4. SeaLevelKnown'
    BY <1>1, <1>6, <2>2, Times DEF SeaLevelKnown, Known, Never, CacheNames
  <2> QED
    BY <1>4, <2>3, <2>4
<1> QED
  BY <1>5, <1>6

(* The smallest of the restrictions.                                        *)
LEMMA MinOfThree ==
  ASSUME NEW x \in Int, NEW y \in Int, NEW z \in Int,
         NEW S \in SUBSET {x, y, z}, S # {}
  PROVE  Min(S) \in S /\ \A w \in S : Min(S) <= w
<1>1. \E m \in S : \A w \in S : m <= w
  <2>1. CASE x \in S /\ (y \notin S \/ x <= y) /\ (z \notin S \/ x <= z)
    BY <2>1
  <2>2. CASE y \in S /\ (x \notin S \/ y <= x) /\ (z \notin S \/ y <= z)
    BY <2>2
  <2>3. CASE z \in S /\ (x \notin S \/ z <= x) /\ (y \notin S \/ z <= y)
    BY <2>3
  <2>4. x \in S \/ y \in S \/ z \in S
    OBVIOUS
  <2> QED
    BY <2>1, <2>2, <2>3, <2>4
<1> QED
  BY <1>1 DEF Min

LEMMA StepIsLimited ==
  ASSUME AirInv, MaxTimestep
  PROVE  \A k \in scenario.caches : dt' <= CacheLimit(cache[k], time) + Slack
<1> DEFINE x == CacheLimit(cache["surface"], time)
           y == CacheLimit(cache["ocean"], time)
           S == AirLimits(cache, time) \cup {end - time}
<1>1. /\ scenario.caches \subseteq CacheNames /\ time \in Nat /\ end \in Nat
      /\ cache["surface"] \in CacheState /\ cache["ocean"] \in CacheState
  BY Options DEF AirInv, LoopOK, CachesKnown, CacheNames
<1>2. x \in Int /\ y \in Int /\ end - time \in Int
  BY <1>1, Times DEF CacheLimit, CacheState
<1>3. S \in SUBSET {x, y, end - time} /\ S # {}
  BY <1>1 DEF AirLimits, CacheNames
<1>4. \A w \in S : Min(S) <= w
  <2> HIDE DEF x, y, S
  <2> QED
    BY <1>2, <1>3, MinOfThree
<1>5. dt' \in Steps /\ dt' <= Min(S) + Slack
  BY DEF MaxTimestep
<1>6. Min(S) \in Int
  <2>1. Min(S) \in S
    <3> HIDE DEF x, y, S
    <3> QED
      BY <1>2, <1>3, MinOfThree
  <2> HIDE DEF x, y
  <2> QED
    BY <1>2, <1>3, <2>1
<1>7. ASSUME NEW k \in scenario.caches PROVE dt' <= CacheLimit(cache[k], time) + Slack
  <2>1. CacheLimit(cache[k], time) \in S /\ CacheLimit(cache[k], time) \in Int
    BY <1>1, <1>2 DEF AirLimits, CacheNames
  <2>2. Min(S) <= CacheLimit(cache[k], time)
    BY <1>4, <2>1
  <2> HIDE DEF S
  <2> QED
    BY <1>5, <1>6, <2>1, <2>2, Times, SubModelsAssumption
<1> QED
  BY <1>7

(* The update of the surface and of the ocean.                              *)
LEMMA AirStep ==
  ASSUME AirInv, SurfaceAndOcean
  PROVE  CachesKnown' /\ SeaLevelKnown' /\ SnowKnown'
<1>1. /\ pc = "air" /\ pc' = "water" /\ time' = time /\ dt' = dt /\ start' = start
      /\ scenario' = scenario /\ bootstrapped' = bootstrapped
  BY DEF SurfaceAndOcean, loopVars
<1>2. /\ time \in Nat /\ dt \in Nat /\ scenario.caches \subseteq CacheNames
      /\ \A k \in CacheNames : CacheKnown(cache[k], time)
      /\ \A k \in scenario.caches : dt <= CacheLimit(cache[k], time) + Slack
  BY <1>1, Options DEF AirInv, LoopOK, CachesKnown, CacheNames
<1>3. cache' = [k \in CacheNames |-> CacheUpdate(cache[k], time)]
  BY DEF SurfaceAndOcean, AirUpdate, AirInv, CachesKnown
<1>4. seaLevel' = IF "ocean" \notin scenario.caches \/ Due(cache["ocean"], time)
                    THEN time ELSE seaLevel
  BY DEF SurfaceAndOcean, AirUpdate
<1>5. CachesKnown'
  <2>1. \A k \in CacheNames : CacheKnown(cache'[k], time) /\ cache'[k].at # Never
    BY <1>2, <1>3, CacheUpdated
  <2>2. \A k \in scenario.caches : time + dt - cache'[k].at < CacheInterval + 2 * Second
    BY <1>2, <1>3, CacheFresh
  <2>3. cache' \in [CacheNames -> CacheState]
    BY <1>3, <2>1 DEF CacheKnown
  <2> QED
    BY <1>1, <1>2, <2>1, <2>2, <2>3 DEF CachesKnown, CacheKnown
<1>6. SeaLevelKnown'
  <2>1. CacheKnown(cache["ocean"], time) /\ cache'["ocean"] = CacheUpdate(cache["ocean"], time)
    BY <1>2, <1>3 DEF CacheNames
  <2>2. /\ Due(cache["ocean"], time) => cache'["ocean"].at = time
        /\ ~Due(cache["ocean"], time) => cache'["ocean"] = cache["ocean"]
    BY <1>2, <2>1, CacheUpdated
  <2> QED
    BY <1>1, <1>2, <1>4, <2>2 DEF AirInv, SeaLevelKnown, Known
<1>7. SnowKnown'
  <2>1. CASE "surface" \in scenario.caches
    <3>1. snow' = snow \/ \E d, o : snow' = SnowUpdate(snow, time, d, o)
      BY DEF SurfaceAndOcean, AirUpdate
    <3>2. "last" \in DOMAIN snow'
      BY <3>1 DEF SnowUpdate, AirInv, SnowKnown
    <3> QED
      BY <1>1, <2>1, <3>2 DEF SnowKnown
  <2>2. CASE "surface" \notin scenario.caches
    <3>1. snow' = SnowUpdate(snow, time, dt, Ocean(mask[Point]))
      BY <2>2 DEF SurfaceAndOcean, AirUpdate
    <3>2. \/ snow' = snow
          \/ "last" \in DOMAIN snow' /\ snow'.last = time + dt - 1
      BY <3>1 DEF SnowUpdate
    <3>3. snow.last \in Int /\ snow.last < time /\ "last" \in DOMAIN snow
      BY <1>1, <2>2 DEF AirInv, SnowKnown, Known
    <3> QED
      BY <1>1, <1>2, <3>2, <3>3 DEF SnowKnown, Known
  <2> QED
    BY <2>1, <2>2
<1> QED
  BY <1>5, <1>6, <1>7

LEMMA AirKept == AirInv /\ [Next]_vars => AirInv'
<1> SUFFICES ASSUME AirInv, [Next]_vars PROVE CachesKnown' /\ SeaLevelKnown' /\ SnowKnown'
  BY LoopStep DEF AirInv
<1>0. /\ time \in Nat /\ start \in Nat /\ dt \in Nat /\ start <= time
      /\ pc \in Places /\ (pc \in Moving => dt > 0)
      /\ scenario.caches \subseteq CacheNames
  BY Options DEF AirInv, LoopOK, CacheNames
<1> USE DEF Known
<1>1. ASSUME NEW e \in Ends, NEW b \in BOOLEAN, Begin(e, b)
      PROVE CachesKnown' /\ SeaLevelKnown' /\ SnowKnown'
  BY <1>1, BeginKeepsAir
<1>2. CASE YieldStress \/ StressBalance
  <2>1. /\ pc \in {"yield", "balance"} /\ pc' \in {"balance", "limit"}
        /\ UNCHANGED <<loopVars, time, dt, airVars>>
    BY <1>2 DEF YieldStress, StressBalance
  <2> QED
    BY <2>1 DEF AirInv, CachesKnown, CacheKnown, SeaLevelKnown, SnowKnown, loopVars, airVars
<1>3. CASE MaxTimestep
  <2>1. pc = "limit" /\ pc' = "air" /\ UNCHANGED <<loopVars, time, airVars>>
    BY <1>3 DEF MaxTimestep
  <2>2. \A k \in scenario.caches : dt' <= CacheLimit(cache[k], time) + Slack
    BY <1>3, StepIsLimited
  <2> QED
    BY <2>1, <2>2 DEF AirInv, CachesKnown, CacheKnown, CacheLimit, SeaLevelKnown, SnowKnown,
                      loopVars, airVars
<1>4. CASE SurfaceAndOcean
  BY <1>4, AirStep
<1>5. CASE NullTransport \/ Route \/ Geometry \/ BedUpdate
  <2>1. /\ pc \in Known /\ pc' \in Known
        /\ UNCHANGED <<loopVars, time, dt, airVars>>
    BY <1>5 DEF NullTransport, Route, Geometry, BedUpdate
  <2> QED
    BY <2>1 DEF AirInv, CachesKnown, CacheKnown, SeaLevelKnown, SnowKnown, loopVars, airVars
<1>6. CASE Advance
  <2>1. /\ pc = "advance" /\ pc' \in {"ended", "yield", "stopped"} /\ time' = time + dt
        /\ UNCHANGED <<loopVars, dt, airVars>>
    BY <1>6 DEF Advance
  <2>2. CachesKnown'
    BY <1>0, <2>1 DEF AirInv, CachesKnown, CacheKnown, CacheState, loopVars, airVars
  <2>3. SeaLevelKnown'
    BY <1>0, <2>1 DEF AirInv, CachesKnown, SeaLevelKnown, Never, loopVars, airVars
  <2>4. SnowKnown'
    BY <2>1 DEF AirInv, SnowKnown, loopVars, airVars
  <2> QED
    BY <2>2, <2>3, <2>4
<1>7. CASE UNCHANGED vars
  BY <1>7 DEF vars, AirInv, CachesKnown, CacheKnown, SeaLevelKnown, SnowKnown, loopVars, airVars
<1> QED
  BY <1>1, <1>2, <1>3, <1>4, <1>5, <1>6, <1>7 DEF Next, Loop

LEMMA AirAlways == Spec => []AirInv
BY InitAir, AirKept, PTL DEF Spec

(* Whatever the lengths of the steps and with updates a little early or     *)
(* late, the climate of a step is never older than the interval of a cache  *)
(* and two seconds at its end, snowfall is not counted again by a run that  *)
(* goes on from a file, and the sea level a stress balance sees is at most  *)
(* a step old, or as old as its cache lets it be.                           *)
THEOREM ClimateIsCurrent == Spec => []ClimateCurrent
<1>1. AirInv => ClimateCurrent
  <2> SUFFICES ASSUME AirInv PROVE ClimateCurrent
    OBVIOUS
  <2>1. ClimateFresh
    BY DEF AirInv, CachesKnown, ClimateFresh, Known
  <2>2. SnowOnce
    BY DEF AirInv, SnowKnown, SnowOnce, Known
  <2>3. SeaLevelCurrent
    BY DEF AirInv, SeaLevelKnown, SeaLevelCurrent
  <2> QED
    BY <2>1, <2>2, <2>3 DEF ClimateCurrent
<1> QED
  BY <1>1, AirAlways, PTL
-----------------------------------------------------------------------------
(* A set of numbers has a least element.                                    *)
LEMMA Least ==
  ASSUME NEW S \in SUBSET Nat, S # {}
  PROVE  \E m \in S : \A k \in S : m <= k
<1> DEFINE R == OpToRel(<, Nat)
<1>1. \A x, y \in Nat : x < y => <<x, y>> \in R
  BY DEF OpToRel
<1>2. IsWellFoundedOn(R, Nat)
  BY NatLessThanWellFounded
<1> HIDE DEF R
<1>3. PICK m \in S : \A y \in S : ~(<<y, m>> \in R)
  BY <1>2, WFMin
<1>4. SUFFICES ASSUME NEW k \in S PROVE m <= k
  OBVIOUS
<1>5. k \in Nat /\ m \in Nat
  OBVIOUS
<1>6. ~(k < m)
  BY <1>1, <1>3, <1>5
<1> QED
  BY <1>5, <1>6

-----------------------------------------------------------------------------
(* Sums over the cells.  p are the sums of f over the first cells.          *)
PartialSums(p, f) ==
  /\ p \in [0..CellCount -> Int] /\ p[0] = 0
  /\ \A k \in Cells : p[k] = p[k - 1] + f[k]

SumsUpTo(p, f, n) ==
  /\ p \in [0..n -> Int] /\ p[0] = 0
  /\ \A k \in 1..n : p[k] = p[k - 1] + f[k]

(* Every field has them,                                                    *)
LEMMA SumsExist ==
  ASSUME NEW f \in [Cells -> Int]
  PROVE  \E p : PartialSums(p, f)
<1> DEFINE Bad == {n \in 0..CellCount : ~\E p : SumsUpTo(p, f, n)}
<1>1. CellCount \in Nat
  BY WaterAssumption
<1>2. Bad = {}
  <2> SUFFICES ASSUME Bad # {} PROVE FALSE
    OBVIOUS
  <2>1. Bad \in SUBSET Nat
    BY <1>1
  <2>2. PICK n \in Bad : \A j \in Bad : n <= j
    <3> HIDE DEF Bad
    <3> QED
      BY <2>1, Least
  <2>3. n \in 0..CellCount /\ ~\E p : SumsUpTo(p, f, n)
    BY <2>2
  <2>4. n # 0
    <3>1. SumsUpTo([k \in 0..0 |-> 0], f, 0)
      BY DEF SumsUpTo
    <3> QED
      BY <2>3, <3>1
  <2>5. n - 1 \in 0..CellCount /\ ~(n - 1 \in Bad)
    <3>1. n \in Nat /\ ~(n <= n - 1)
      BY <1>1, <2>3
    <3>2. n - 1 \in 0..CellCount
      BY <1>1, <2>3, <2>4
    <3> HIDE DEF Bad
    <3> QED
      BY <2>2, <3>1, <3>2
  <2>6. PICK p : SumsUpTo(p, f, n - 1)
    BY <2>5
  <2> DEFINE q == [k \in 0..n |-> IF k = n THEN p[n - 1] + f[n] ELSE p[k]]
  <2>7. SumsUpTo(q, f, n)
    <3>1. n \in Cells /\ f[n] \in Int /\ p[n - 1] \in Int
      BY <1>1, <2>3, <2>4, <2>6 DEF Cells, SumsUpTo
    <3>2. q \in [0..n -> Int] /\ q[0] = 0
      BY <2>3, <2>4, <2>6, <3>1 DEF SumsUpTo
    <3>3. ASSUME NEW k \in 1..n PROVE q[k] = q[k - 1] + f[k]
      <4>1. k \in Nat /\ n \in Nat /\ k - 1 \in 0..n /\ k - 1 # n /\ k \in 0..n
        BY <2>3
      <4>2. q[k - 1] = p[k - 1]
        BY <4>1
      <4>3. CASE k = n
        BY <4>1, <4>2, <4>3
      <4>4. CASE k # n
        <5>1. k \in 1..n - 1
          BY <4>1, <4>4
        <5>2. p[k] = p[k - 1] + f[k]
          BY <2>6, <5>1 DEF SumsUpTo
        <5> QED
          BY <4>1, <4>2, <4>4, <5>2
      <4> QED
        BY <4>3, <4>4
    <3> HIDE DEF q
    <3> QED
      BY <3>2, <3>3 DEF SumsUpTo
  <2> QED
    BY <2>3, <2>7
<1>3. CellCount \in 0..CellCount
  BY <1>1
<1>4. PICK p : SumsUpTo(p, f, CellCount)
  BY <1>2, <1>3
<1>5. PartialSums(p, f)
  BY <1>4 DEF SumsUpTo, PartialSums, Cells
<1> QED
  BY <1>5

(* and only one.                                                            *)
LEMMA SumsUnique ==
  ASSUME NEW f, NEW p, NEW q, PartialSums(p, f), PartialSums(q, f),
         NEW n \in 0..CellCount
  PROVE  p[n] = q[n]
<1> DEFINE Bad == {k \in 0..CellCount : p[k] # q[k]}
<1>1. CellCount \in Nat
  BY WaterAssumption
<1>2. Bad = {}
  <2> SUFFICES ASSUME Bad # {} PROVE FALSE
    OBVIOUS
  <2>1. Bad \in SUBSET Nat
    BY <1>1
  <2>2. PICK k \in Bad : \A j \in Bad : k <= j
    <3> HIDE DEF Bad
    <3> QED
      BY <2>1, Least
  <2>3. k \in 0..CellCount /\ p[k] # q[k]
    BY <2>2
  <2>4. k # 0
    BY <2>3 DEF PartialSums
  <2>5. k - 1 \in 0..CellCount /\ ~(k - 1 \in Bad) /\ k \in Cells
    <3>1. k \in Nat /\ ~(k <= k - 1)
      BY <1>1, <2>3
    <3>2. k - 1 \in 0..CellCount /\ k \in Cells
      BY <1>1, <2>3, <2>4 DEF Cells
    <3> HIDE DEF Bad
    <3> QED
      BY <2>2, <3>1, <3>2
  <2>6. p[k - 1] = q[k - 1]
    BY <2>5
  <2> QED
    BY <2>3, <2>5, <2>6 DEF PartialSums
<1> QED
  BY <1>2
-----------------------------------------------------------------------------
(* f on the cells of S, and nothing elsewhere.                              *)
Masked(f, S) == [c \in Cells |-> IF c \in S THEN f[c] ELSE 0]

(* The sum over the cells of S, one after the other.                        *)
SumOver(f, S) == (CHOOSE p : PartialSums(p, Masked(f, S)))[CellCount]

(* What is left of a field of numbers is one.                               *)
LEMMA MaskedType ==
  ASSUME NEW f \in [Cells -> Int], NEW S
  PROVE  Masked(f, S) \in [Cells -> Int]
BY DEF Masked

(* The sum over a set is the last of the partial sums of its part.          *)
LEMMA SumOverIs ==
  ASSUME NEW f \in [Cells -> Int], NEW S, NEW p, PartialSums(p, Masked(f, S))
  PROVE  SumOver(f, S) = p[CellCount] /\ SumOver(f, S) \in Int
<1>1. CellCount \in 0..CellCount
  BY WaterAssumption
<1> DEFINE q == CHOOSE x : PartialSums(x, Masked(f, S))
<1>2. PartialSums(q, Masked(f, S))
  OBVIOUS
<1>3. SumOver(f, S) = q[CellCount]
  BY DEF SumOver
<1> HIDE DEF q
<1>4. q[CellCount] = p[CellCount]
  <2>1. PICK g : g = Masked(f, S)
    OBVIOUS
  <2>2. PartialSums(p, g) /\ PartialSums(q, g)
    BY <1>2, <2>1
  <2> QED
    BY <1>1, <2>2, SumsUnique
<1>5. p[CellCount] \in Int
  BY <1>1 DEF PartialSums
<1> QED
  BY <1>3, <1>4, <1>5

(* It may begin with any of them.                                           *)
LEMMA SumOverPeels ==
  ASSUME NEW f \in [Cells -> Int], NEW S \in SUBSET Cells, NEW x \in S
  PROVE  SumOver(f, S) = f[x] + SumOver(f, S \ {x})
<1> DEFINE T == S \ {x}
<1>1. PICK p : PartialSums(p, Masked(f, T))
  BY MaskedType, SumsExist
<1> DEFINE q == [k \in 0..CellCount |-> IF k < x THEN p[k] ELSE p[k] + f[x]]
<1>2. CellCount \in Nat \ {0} /\ x \in 1..CellCount /\ f[x] \in Int
  BY WaterAssumption DEF Cells
<1>3. p \in [0..CellCount -> Int] /\ p[0] = 0
  BY <1>1 DEF PartialSums
<1>4. q \in [0..CellCount -> Int] /\ q[0] = 0
  BY <1>2, <1>3
<1>5. ASSUME NEW k \in Cells PROVE q[k] = q[k - 1] + Masked(f, S)[k]
  <2>1. /\ k \in 1..CellCount /\ k \in Nat /\ k - 1 \in 0..CellCount /\ k \in 0..CellCount
        /\ x \in Nat
    BY <1>2 DEF Cells
  <2>2. p[k] = p[k - 1] + Masked(f, T)[k] /\ p[k] \in Int /\ p[k - 1] \in Int
    BY <1>1, <1>3, <2>1 DEF PartialSums
  <2>3. f[k] \in Int
    OBVIOUS
  <2>4. CASE k = x
    <3>1. Masked(f, T)[k] = 0 /\ Masked(f, S)[k] = f[x]
      BY <2>4 DEF Masked
    <3>2. q[k - 1] = p[k - 1] /\ q[k] = p[k] + f[x]
      BY <2>1, <2>4
    <3> QED
      BY <1>2, <2>2, <3>1, <3>2
  <2>5. CASE k # x
    <3>1. Masked(f, T)[k] = Masked(f, S)[k] /\ Masked(f, S)[k] \in Int
      BY <2>3, <2>5 DEF Masked
    <3>2. CASE k < x
      <4>1. q[k - 1] = p[k - 1] /\ q[k] = p[k]
        BY <2>1, <3>2
      <4> QED
        BY <2>2, <3>1, <4>1
    <3>3. CASE ~(k < x)
      <4>1. ~(k - 1 < x)
        BY <2>1, <2>5, <3>3
      <4>2. q[k - 1] = p[k - 1] + f[x] /\ q[k] = p[k] + f[x]
        BY <2>1, <3>3, <4>1
      <4> HIDE DEF q
      <4> QED
        BY <1>2, <2>2, <3>1, <4>2
    <3> QED
      BY <3>2, <3>3
  <2> QED
    BY <2>4, <2>5
<1>6. PartialSums(q, Masked(f, S))
  <2> HIDE DEF q
  <2> QED
    BY <1>4, <1>5 DEF PartialSums
<1>7. SumOver(f, T) = p[CellCount] /\ SumOver(f, T) \in Int
  BY <1>1, SumOverIs
<1>8. SumOver(f, S) = q[CellCount]
  <2> HIDE DEF q
  <2> QED
    BY <1>6, SumOverIs
<1>9. q[CellCount] = p[CellCount] + f[x]
  BY <1>2
<1> QED
  BY <1>2, <1>7, <1>8, <1>9

(* What the library computes, cell by cell in an order of its own.          *)
LEMMA SumIs ==
  ASSUME NEW f \in [Cells -> Int], NEW S \in SUBSET Cells
  PROVE  MapThenSumSet(LAMBDA c : f[c], S) = SumOver(f, S)
<1> DEFINE Any(s) == CHOOSE x \in s : TRUE
           Rest(s) == s \ {Any(s)}
           Adding(g) == g = [s \in SUBSET S |-> IF s = {} THEN 0 ELSE f[Any(s)] + g[Rest(s)]]
           sums == [s \in SUBSET S |-> SumOver(f, s)]
           lib == CHOOSE g : Adding(g)
<1>1. MapThenSumSet(LAMBDA c : f[c], S) = lib[S]
  BY DEF MapThenSumSet, MapThenFoldSet
<1>2. SumOver(f, {}) = 0
  <2> DEFINE z == [k \in 0..CellCount |-> 0]
  <2>1. CellCount \in Nat
    BY WaterAssumption
  <2>2. PartialSums(z, Masked(f, {}))
    BY <2>1 DEF PartialSums, Masked, Cells
  <2>3. z[CellCount] = 0
    BY <2>1
  <2> HIDE DEF z
  <2> QED
    BY <2>2, <2>3, SumOverIs
<1>3. ASSUME NEW s \in SUBSET S, s # {}
      PROVE  /\ Any(s) \in s /\ Rest(s) \in SUBSET S
             /\ SumOver(f, s) = f[Any(s)] + SumOver(f, Rest(s))
  <2>1. Any(s) \in s
    BY <1>3
  <2> HIDE DEF Any
  <2> QED
    BY <2>1, SumOverPeels
<1>4. Adding(sums)
  <2>1. ASSUME NEW s \in SUBSET S
        PROVE  SumOver(f, s) = IF s = {} THEN 0 ELSE f[Any(s)] + sums[Rest(s)]
    <3> HIDE DEF Any, Rest
    <3> QED
      BY <1>2, <1>3
  <2> HIDE DEF Any, Rest
  <2> QED
    BY <2>1
<1>5. Adding(lib)
  <2> HIDE DEF Adding, sums
  <2> QED
    BY <1>4
<1>6. ASSUME NEW s \in SUBSET S
      PROVE  lib[s] = IF s = {} THEN 0 ELSE f[Any(s)] + lib[Rest(s)]
  <2> HIDE DEF Any, Rest, lib
  <2> QED
    BY <1>5
<1> HIDE DEF lib
<1> DEFINE Bad == {s \in SUBSET S : lib[s] # SumOver(f, s)}
           R   == StrictSubsetOrdering(S)
<1>7. IsWellFoundedOn(R, SUBSET S)
  <2>1. IsFiniteSet(Cells)
    BY WaterAssumption, FS_Interval DEF Cells
  <2>2. IsFiniteSet(S)
    BY <2>1, FS_Subset
  <2> QED
    BY <2>2, FS_StrictSubsetOrderingWellFounded, FS_FiniteSubsetsOfFinite
<1>8. Bad = {}
  <2> SUFFICES ASSUME Bad # {} PROVE FALSE
    OBVIOUS
  <2>1. PICK s \in Bad : \A v \in Bad : ~(<<v, s>> \in R)
    <3>1. Bad \subseteq SUBSET S
      OBVIOUS
    <3> HIDE DEF Bad, R
    <3> QED
      BY <1>7, <3>1, WFMin
  <2>2. s \in SUBSET S /\ lib[s] # SumOver(f, s)
    BY <2>1
  <2>3. s # {}
    BY <1>2, <1>6, <2>2
  <2>4. /\ Any(s) \in s /\ Rest(s) \in SUBSET S
        /\ SumOver(f, s) = f[Any(s)] + SumOver(f, Rest(s))
    <3> HIDE DEF Any, Rest
    <3> QED
      BY <1>3, <2>2, <2>3
  <2>5. <<Rest(s), s>> \in R
    <3>1. Rest(s) \subseteq s /\ Rest(s) # s
      <4> HIDE DEF Any
      <4> QED
        BY <2>4
    <3> HIDE DEF Rest
    <3> QED
      BY <2>2, <2>4, <3>1 DEF StrictSubsetOrdering
  <2>6. lib[Rest(s)] = SumOver(f, Rest(s))
    <3> HIDE DEF Rest, R
    <3> QED
      BY <2>1, <2>4, <2>5
  <2> HIDE DEF Any, Rest
  <2> QED
    BY <1>6, <2>2, <2>3, <2>4, <2>6
<1> QED
  BY <1>1, <1>8
-----------------------------------------------------------------------------
(* Totals of fields: the last of their partial sums.                        *)
LEMMA TotalIs ==
  ASSUME NEW f \in [Cells -> Int], NEW p, PartialSums(p, f)
  PROVE  Total(f) = p[CellCount] /\ Total(f) \in Int
<1>1. Masked(f, Cells) = f
  BY DEF Masked
<1>2. Total(f) = SumOver(f, Cells)
  <2>1. MapThenSumSet(LAMBDA c : f[c], Cells) = SumOver(f, Cells)
    BY SumIs
  <2> QED
    BY <2>1 DEF Total
<1>3. PartialSums(p, Masked(f, Cells))
  BY <1>1
<1> QED
  BY <1>2, <1>3, SumOverIs

(* A total of numbers is a number.                                          *)
LEMMA TotalType ==
  ASSUME NEW f \in [Cells -> Int]
  PROVE  Total(f) \in Int
BY SumsExist, TotalIs

(* The sum over a part of the cells is the total of what is on them.        *)
LEMMA SumOverIsTotal ==
  ASSUME NEW f \in [Cells -> Int], NEW S
  PROVE  SumOver(f, S) = Total(Masked(f, S))
<1>1. PICK g : g = Masked(f, S)
  OBVIOUS
<1>2. g \in [Cells -> Int]
  BY <1>1, MaskedType
<1>3. PICK p : PartialSums(p, g)
  BY <1>2, SumsExist
<1>4. Total(g) = p[CellCount]
  BY <1>2, <1>3, TotalIs
<1>5. SumOver(f, S) = p[CellCount]
  BY <1>1, <1>3, SumOverIs
<1> QED
  BY <1>1, <1>4, <1>5

(* The total of a sum,                                                      *)
LEMMA TotalOfSum ==
  ASSUME NEW f \in [Cells -> Int], NEW g \in [Cells -> Int], NEW h \in [Cells -> Int],
         \A c \in Cells : h[c] = f[c] + g[c]
  PROVE  Total(h) = Total(f) + Total(g)
<1>1. PICK p : PartialSums(p, f)
  BY SumsExist
<1>2. PICK q : PartialSums(q, g)
  BY SumsExist
<1> DEFINE s == [k \in 0..CellCount |-> p[k] + q[k]]
<1>3. CellCount \in Nat
  BY WaterAssumption
<1>4. /\ p \in [0..CellCount -> Int] /\ p[0] = 0
      /\ q \in [0..CellCount -> Int] /\ q[0] = 0
  BY <1>1, <1>2 DEF PartialSums
<1>5. s \in [0..CellCount -> Int] /\ s[0] = 0
  BY <1>3, <1>4
<1>6. ASSUME NEW k \in Cells PROVE s[k] = s[k - 1] + h[k]
  <2>1. k \in 0..CellCount /\ k - 1 \in 0..CellCount
    BY <1>3 DEF Cells
  <2>2. p[k] = p[k - 1] + f[k] /\ q[k] = q[k - 1] + g[k] /\ h[k] = f[k] + g[k]
    BY <1>1, <1>2 DEF PartialSums
  <2>3. s[k] = p[k] + q[k] /\ s[k - 1] = p[k - 1] + q[k - 1]
    BY <2>1
  <2>4. f[k] \in Int /\ g[k] \in Int /\ p[k - 1] \in Int /\ q[k - 1] \in Int
    BY <1>4, <2>1
  <2> HIDE DEF s
  <2> QED
    BY <2>2, <2>3, <2>4
<1>7. s[CellCount] = p[CellCount] + q[CellCount]
  BY <1>3
<1> HIDE DEF s
<1>8. PartialSums(s, h)
  BY <1>5, <1>6 DEF PartialSums
<1> QED
  BY <1>1, <1>2, <1>7, <1>8, TotalIs

(* of a multiple,                                                           *)
LEMMA TotalOfMultiple ==
  ASSUME NEW f \in [Cells -> Int], NEW h \in [Cells -> Int], NEW n \in Int,
         \A c \in Cells : h[c] = n * f[c]
  PROVE  Total(h) = n * Total(f)
<1>1. PICK p : PartialSums(p, f)
  BY SumsExist
<1> DEFINE s == [k \in 0..CellCount |-> n * p[k]]
<1>2. CellCount \in Nat
  BY WaterAssumption
<1>3. p \in [0..CellCount -> Int] /\ p[0] = 0
  BY <1>1 DEF PartialSums
<1>4. s \in [0..CellCount -> Int] /\ s[0] = 0
  BY <1>2, <1>3
<1>5. \A x, y \in Int : n * (x + y) = n * x + n * y
  OBVIOUS
<1>6. ASSUME NEW k \in Cells PROVE s[k] = s[k - 1] + h[k]
  <2>1. k \in 0..CellCount /\ k - 1 \in 0..CellCount
    BY <1>2 DEF Cells
  <2>2. p[k] = p[k - 1] + f[k] /\ h[k] = n * f[k]
    BY <1>1 DEF PartialSums
  <2>3. s[k] = n * p[k] /\ s[k - 1] = n * p[k - 1]
    BY <2>1
  <2>4. f[k] \in Int /\ p[k - 1] \in Int
    BY <1>3, <2>1
  <2>5. s[k] = n * (p[k - 1] + f[k])
    BY <2>2, <2>3
  <2> HIDE DEF s
  <2> QED
    BY <1>5, <2>2, <2>3, <2>4, <2>5
<1>7. s[CellCount] = n * p[CellCount]
  BY <1>2
<1> HIDE DEF s
<1>8. PartialSums(s, h)
  BY <1>4, <1>6 DEF PartialSums
<1> QED
  BY <1>1, <1>7, <1>8, TotalIs

(* and of a field moved to the next cells.                                  *)
LEMMA TotalOfMoved ==
  ASSUME NEW f \in [Cells -> Int]
  PROVE  /\ [c \in Cells |-> f[West(c)]] \in [Cells -> Int]
         /\ Total([c \in Cells |-> f[West(c)]]) = Total(f)
<1> DEFINE h == [c \in Cells |-> f[West(c)]]
<1>1. CellCount \in Nat \ {0} /\ CellCount \in Cells /\ f[CellCount] \in Int
  BY WaterAssumption DEF Cells
<1>2. \A c \in Cells : West(c) \in Cells
  BY <1>1 DEF West, Cells
<1>3. h \in [Cells -> Int]
  BY <1>2
<1>4. PICK p : PartialSums(p, f)
  BY SumsExist
<1> DEFINE s == [k \in 0..CellCount |-> IF k = 0 THEN 0 ELSE f[CellCount] + p[k - 1]]
<1>5. p \in [0..CellCount -> Int] /\ p[0] = 0
  BY <1>4 DEF PartialSums
<1>6. s \in [0..CellCount -> Int] /\ s[0] = 0
  <2>1. \A k \in 0..CellCount : k # 0 => k - 1 \in 0..CellCount
    BY <1>1
  <2> QED
    BY <1>1, <1>5, <2>1
<1>7. ASSUME NEW k \in Cells PROVE s[k] = s[k - 1] + h[k]
  <2>1. k \in Nat /\ k # 0 /\ k \in 0..CellCount /\ k - 1 \in 0..CellCount
    BY <1>1 DEF Cells
  <2>2. s[k] = f[CellCount] + p[k - 1]
    BY <2>1
  <2>3. CASE k = 1
    <3>1. h[k] = f[CellCount] /\ s[k - 1] = 0 /\ p[k - 1] = 0
      BY <1>5, <2>1, <2>3 DEF West
    <3> HIDE DEF h, s
    <3> QED
      BY <1>1, <2>2, <3>1
  <2>4. CASE k # 1
    <3>1. k - 1 \in Cells /\ k - 1 # 0 /\ k - 1 - 1 \in 0..CellCount
      BY <1>1, <2>1, <2>4 DEF Cells
    <3>2. h[k] = f[k - 1] /\ s[k - 1] = f[CellCount] + p[k - 1 - 1]
      BY <2>1, <2>4, <3>1 DEF West
    <3>3. p[k - 1] = p[k - 1 - 1] + f[k - 1] /\ f[k - 1] \in Int /\ p[k - 1 - 1] \in Int
      BY <1>4, <1>5, <3>1 DEF PartialSums
    <3> HIDE DEF h, s
    <3> QED
      BY <1>1, <2>2, <3>2, <3>3
  <2> QED
    BY <2>3, <2>4
<1>8. /\ s[CellCount] = f[CellCount] + p[CellCount - 1]
      /\ p[CellCount] = p[CellCount - 1] + f[CellCount]
      /\ p[CellCount - 1] \in Int
  <2>1. CellCount \in 0..CellCount /\ CellCount # 0 /\ CellCount - 1 \in 0..CellCount
    BY <1>1
  <2> QED
    BY <1>1, <1>4, <1>5, <2>1 DEF PartialSums
<1> HIDE DEF s, h
<1>9. PartialSums(s, h)
  BY <1>6, <1>7 DEF PartialSums
<1>10. Total(h) = s[CellCount] /\ Total(f) = p[CellCount]
  BY <1>3, <1>4, <1>9, TotalIs
<1>11. Total(h) = Total(f)
  BY <1>1, <1>8, <1>10
<1> QED
  BY <1>3, <1>11 DEF h

(* A field without negative values has no negative total.                   *)
LEMMA TotalOfPositive ==
  ASSUME NEW f \in [Cells -> Nat]
  PROVE  Total(f) \in Nat
<1>1. f \in [Cells -> Int] /\ CellCount \in Nat
  BY WaterAssumption
<1>2. PICK p : PartialSums(p, f)
  BY <1>1, SumsExist
<1>3. p \in [0..CellCount -> Int] /\ p[0] = 0
  BY <1>2 DEF PartialSums
<1> DEFINE Bad == {k \in 0..CellCount : p[k] < 0}
<1>4. Bad = {}
  <2> SUFFICES ASSUME Bad # {} PROVE FALSE
    OBVIOUS
  <2>1. Bad \in SUBSET Nat
    BY <1>1
  <2>2. PICK k \in Bad : \A j \in Bad : k <= j
    <3> HIDE DEF Bad
    <3> QED
      BY <2>1, Least
  <2>3. k \in 0..CellCount /\ p[k] < 0 /\ k # 0
    BY <1>3, <2>2
  <2>4. k - 1 \in 0..CellCount /\ ~(k - 1 \in Bad) /\ k \in Cells
    <3>1. k \in Nat /\ ~(k <= k - 1)
      BY <1>1, <2>3
    <3>2. k - 1 \in 0..CellCount /\ k \in Cells
      BY <1>1, <2>3 DEF Cells
    <3> HIDE DEF Bad
    <3> QED
      BY <2>2, <3>1, <3>2
  <2>5. p[k] = p[k - 1] + f[k] /\ f[k] \in Nat /\ p[k - 1] \in Int /\ ~(p[k - 1] < 0)
    BY <1>2, <1>3, <2>4 DEF PartialSums
  <2> QED
    BY <2>3, <2>5
<1>5. CellCount \in 0..CellCount
  BY <1>1
<1>6. p[CellCount] \in Nat
  BY <1>3, <1>4, <1>5
<1> QED
  BY <1>1, <1>2, <1>6, TotalIs
(* and of a difference.                                                     *)
LEMMA TotalOfDifference ==
  ASSUME NEW f \in [Cells -> Int], NEW g \in [Cells -> Int], NEW h \in [Cells -> Int],
         \A c \in Cells : h[c] = f[c] - g[c]
  PROVE  Total(h) = Total(f) - Total(g)
<1>1. \A c \in Cells : f[c] = h[c] + g[c]
  <2>1. \A c \in Cells : f[c] \in Int /\ g[c] \in Int /\ h[c] = f[c] - g[c]
    OBVIOUS
  <2> QED
    BY <2>1
<1>2. Total(f) = Total(h) + Total(g)
  BY <1>1, TotalOfSum
<1>3. Total(f) \in Int /\ Total(g) \in Int /\ Total(h) \in Int
  BY TotalType
<1> QED
  BY <1>2, <1>3

-----------------------------------------------------------------------------
(* What is lost, less what is gained.                                       *)
Net(lost) == lost.land + lost.ocean + lost.strip - lost.gain

(* boundary_mass_changes() reports what it changes.                         *)
LEMMA LossesAreCounted ==
  ASSUME NEW new \in [Cells -> Int], NEW m \in [Cells -> CellTypes]
  PROVE  /\ Kept(new, m) \in [Cells -> Nat]
         /\ Counted(new, m) \in LossType
         /\ Total(Kept(new, m)) = Total(new) - Net(Counted(new, m))
<1> DEFINE positive == [c \in Cells |-> Higher(new[c], 0)]
           negative == [c \in Cells |-> Higher(-new[c], 0)]
           land     == {c \in Cells : m[c] = "land"}
           ocean    == {c \in Cells : Ocean(m[c])}
           strip    == Strip \ (land \cup ocean)
           counted  == Counted(new, m)
           kept     == Kept(new, m)
           a        == Masked(positive, land)
           b        == Masked(positive, ocean)
           d        == Masked(positive, strip)
<1>1. /\ positive \in [Cells -> Nat] /\ negative \in [Cells -> Nat]
      /\ \A c \in Cells : new[c] = positive[c] - negative[c]
  <2>1. \A c \in Cells : new[c] \in Int
    OBVIOUS
  <2> QED
    BY <2>1 DEF Higher
<1>2. kept = [c \in Cells |-> IF c \in Strip \/ c \in land \/ c \in ocean
                                THEN 0 ELSE positive[c]]
  BY DEF Kept
<1>3. kept \in [Cells -> Nat]
  BY <1>1, <1>2
<1>4. land \in SUBSET Cells /\ ocean \in SUBSET Cells /\ strip \in SUBSET Cells
  BY WaterAssumption
<1>5. positive \in [Cells -> Int] /\ negative \in [Cells -> Int] /\ kept \in [Cells -> Int]
  BY <1>1, <1>3
<1>6. counted = [land |-> MapThenSumSet(LAMBDA c : positive[c], land),
                 ocean |-> MapThenSumSet(LAMBDA c : positive[c], ocean),
                 gain |-> Total(negative),
                 strip |-> MapThenSumSet(LAMBDA c : positive[c], strip)]
  BY DEF Counted
<1>7. \A c \in Cells : c \in land => c \notin ocean
  BY DEF Ocean
<1> HIDE DEF positive, negative, land, ocean, strip, kept, counted
<1>8. counted = [land |-> Total(a), ocean |-> Total(b), gain |-> Total(negative),
                 strip |-> Total(d)]
  <2>1. /\ MapThenSumSet(LAMBDA c : positive[c], land) = SumOver(positive, land)
        /\ MapThenSumSet(LAMBDA c : positive[c], ocean) = SumOver(positive, ocean)
        /\ MapThenSumSet(LAMBDA c : positive[c], strip) = SumOver(positive, strip)
    BY <1>4, <1>5, SumIs
  <2>2. /\ SumOver(positive, land) = Total(a)
        /\ SumOver(positive, ocean) = Total(b)
        /\ SumOver(positive, strip) = Total(d)
    BY <1>5, SumOverIsTotal
  <2> QED
    BY <1>6, <2>1, <2>2
<1>9. a \in [Cells -> Nat] /\ b \in [Cells -> Nat] /\ d \in [Cells -> Nat]
  BY <1>1 DEF Masked
<1>10. \A c \in Cells : kept[c] = positive[c] - (a[c] + b[c] + d[c])
  <2> SUFFICES ASSUME NEW c \in Cells PROVE kept[c] = positive[c] - (a[c] + b[c] + d[c])
    OBVIOUS
  <2>1. positive[c] \in Nat
    BY <1>1
  <2>2. /\ a[c] = IF c \in land THEN positive[c] ELSE 0
        /\ b[c] = IF c \in ocean THEN positive[c] ELSE 0
        /\ d[c] = IF c \in Strip /\ c \notin land /\ c \notin ocean THEN positive[c] ELSE 0
    BY DEF Masked, strip
  <2>3. kept[c] = IF c \in Strip \/ c \in land \/ c \in ocean THEN 0 ELSE positive[c]
    BY <1>2
  <2> HIDE DEF a, b, d
  <2> QED
    BY <1>7, <2>1, <2>2, <2>3
<1> HIDE DEF a, b, d
<1> DEFINE ab  == [c \in Cells |-> a[c] + b[c]]
           abd == [c \in Cells |-> ab[c] + d[c]]
<1>11. /\ ab \in [Cells -> Int] /\ abd \in [Cells -> Int]
       /\ \A c \in Cells : ab[c] = a[c] + b[c] /\ abd[c] = ab[c] + d[c]
       /\ a \in [Cells -> Int] /\ b \in [Cells -> Int] /\ d \in [Cells -> Int]
  BY <1>9
<1> HIDE DEF ab, abd
<1>12. /\ Total(ab) = Total(a) + Total(b)
       /\ Total(abd) = Total(ab) + Total(d)
  <2>1. Total(ab) = Total(a) + Total(b)
    BY <1>11, TotalOfSum
  <2>2. Total(abd) = Total(ab) + Total(d)
    BY <1>11, TotalOfSum
  <2> QED
    BY <2>1, <2>2
<1>13. Total(new) = Total(positive) - Total(negative)
  BY <1>1, <1>5, TotalOfDifference
<1>14. Total(kept) = Total(positive) - Total(abd)
  <2>1. \A c \in Cells : kept[c] = positive[c] - abd[c]
    BY <1>10, <1>11
  <2>2. kept \in [Cells -> Int] /\ positive \in [Cells -> Int] /\ abd \in [Cells -> Int]
    BY <1>5, <1>11
  <2> QED
    BY <2>1, <2>2, TotalOfDifference
<1>15. /\ Total(a) \in Nat /\ Total(b) \in Nat /\ Total(d) \in Nat /\ Total(negative) \in Nat
       /\ Total(positive) \in Int /\ Total(new) \in Int
  BY <1>1, <1>5, <1>9, TotalOfPositive, TotalType
<1>16. counted \in LossType
  BY <1>8, <1>15 DEF LossType
<1>17. Net(counted) = Total(a) + Total(b) + Total(d) - Total(negative)
  BY <1>8 DEF Net
<1>18. Total(kept) = Total(new) - Net(counted)
  BY <1>12, <1>13, <1>14, <1>15, <1>17
<1> QED
  BY <1>3, <1>16, <1>18 DEF kept, counted

(* Losses of two kinds add up.                                              *)
LEMMA LossesAdd ==
  ASSUME NEW a \in LossType, NEW b \in LossType
  PROVE  Add(a, b) \in LossType /\ Net(Add(a, b)) = Net(a) + Net(b)
<1>1. /\ a.land \in Nat /\ a.ocean \in Nat /\ a.gain \in Nat /\ a.strip \in Nat
      /\ b.land \in Nat /\ b.ocean \in Nat /\ b.gain \in Nat /\ b.strip \in Nat
  BY DEF LossType
<1>2. Add(a, b) = [land |-> a.land + b.land, ocean |-> a.ocean + b.ocean,
                   gain |-> a.gain + b.gain, strip |-> a.strip + b.strip]
  BY DEF Add, NoLoss
<1>3. Add(a, b) \in LossType
  BY <1>1, <1>2 DEF LossType
<1>4. Net(Add(a, b)) = (a.land + b.land) + (a.ocean + b.ocean) + (a.strip + b.strip)
                         - (a.gain + b.gain)
  BY <1>2 DEF Net
<1> QED
  BY <1>1, <1>3, <1>4 DEF Net

(* raw_update_Wtil() keeps the till within its bounds.                      *)
LEMMA TillFills ==
  ASSUME NEW Wtil \in [Cells -> Int], NEW rate \in [Cells -> Nat], NEW d \in Nat
  PROVE  RawWtil(Wtil, rate, d) \in [Cells -> 0..TillMax]
<1> SUFFICES ASSUME NEW c \in Cells
             PROVE  Lower(Higher(0, Wtil[c] + d * (rate[c] - Decay)), TillMax) \in 0..TillMax
  BY DEF RawWtil
<1>1. Wtil[c] \in Int /\ d * (rate[c] - Decay) \in Int /\ TillMax \in Nat
  BY WaterAssumption
<1> QED
  BY <1>1 DEF Lower, Higher
-----------------------------------------------------------------------------
(* The water under the ice, and what has been counted as lost.              *)
WaterType ==
  [W : [Cells -> Int], Wtil : [Cells -> Int], lost : LossType, fromTill : Nat]

(* What the layer and the till hold.                                        *)
InBounds(w) == \A c \in Cells : w.W[c] >= 0 /\ w.Wtil[c] \in 0..TillMax

DryOutside(w, m) ==
  \A c \in Cells : m[c] # "grounded" => w.W[c] = 0 /\ w.Wtil[c] = 0

(* The water, with what has been lost, less what was counted twice.         *)
Ever(w) == Total(w.W) + Total(w.Wtil) + Net(w.lost) - w.fromTill

(* The flow over an edge is a number.                                       *)
LEMMA EdgesType ==
  ASSUME NEW W \in [Cells -> Int], NEW m, NEW flow \in Flows(W, m)
  PROVE  flow \in [Cells -> Int]
<1>1. ASSUME NEW c \in Cells PROVE flow[c] \in Int
  <2>1. CellCount \in Nat \ {0} /\ c \in 1..CellCount
    BY WaterAssumption DEF Cells
  <2>2. East(c) \in Cells
    BY <2>1 DEF East, Cells
  <2>3. W[c] \in Int /\ W[East(c)] \in Int
    BY <2>2
  <2>4. Advected(c, W, m) \subseteq Int
    BY <2>3 DEF Advected
  <2>5. Diffused(c, W, m) \subseteq Int
    BY <2>3 DEF Diffused
  <2>6. FlowsOver(c, W, m) \subseteq Int
    BY <2>4, <2>5 DEF FlowsOver
  <2>7. flow[c] \in FlowsOver(c, W, m)
    BY DEF Flows
  <2> QED
    BY <2>6, <2>7
<1>2. \E R : flow \in [Cells -> R]
  BY DEF Flows
<1> QED
  BY <1>1, <1>2

(* raw_update_W(): what flows over an edge leaves one cell and enters       *)
(* another, and what enters the till leaves the layer.                      *)
Balanced(raw, W, Wtil, newTil, rate, hdt) ==
  Total(raw) = Total(W) - Total(newTil) + Total(Wtil) + hdt * Total(rate)

(* raw_update_W() moves water and makes none.                               *)
LEMMA LayerIsBalanced ==
  ASSUME NEW W \in [Cells -> Int], NEW Wtil \in [Cells -> Int], NEW newTil \in [Cells -> Int],
         NEW rate \in [Cells -> Nat], NEW flow \in [Cells -> Int], NEW hdt \in Nat
  PROVE  /\ RawW(W, Wtil, newTil, rate, flow, hdt) \in [Cells -> Int]
         /\ Balanced(RawW(W, Wtil, newTil, rate, flow, hdt), W, Wtil, newTil, rate, hdt)
<1> DEFINE raw == RawW(W, Wtil, newTil, rate, flow, hdt)
           in  == [c \in Cells |-> flow[West(c)]]
           got == [c \in Cells |-> hdt * rate[c]]
           a   == [c \in Cells |-> W[c] - newTil[c]]
           b   == [c \in Cells |-> a[c] + Wtil[c]]
           d   == [c \in Cells |-> b[c] - flow[c]]
           e   == [c \in Cells |-> d[c] + in[c]]
<1>1. in \in [Cells -> Int] /\ Total(in) = Total(flow)
  BY TotalOfMoved
<1> HIDE DEF in
<1>2. got \in [Cells -> Int] /\ rate \in [Cells -> Int] /\ hdt \in Int
      /\ \A c \in Cells : got[c] = hdt * rate[c]
  OBVIOUS
<1>3. Total(got) = hdt * Total(rate)
  <2> HIDE DEF got
  <2> QED
    BY <1>2, TotalOfMultiple
<1>4. a \in [Cells -> Int] /\ \A c \in Cells : a[c] = W[c] - newTil[c]
  OBVIOUS
<1>5. Total(a) = Total(W) - Total(newTil)
  <2> HIDE DEF a
  <2> QED
    BY <1>4, TotalOfDifference
<1>6. b \in [Cells -> Int] /\ \A c \in Cells : b[c] = a[c] + Wtil[c]
  <2> HIDE DEF a
  <2> QED
    BY <1>4
<1>7. Total(b) = Total(a) + Total(Wtil)
  <2> HIDE DEF a, b
  <2> QED
    BY <1>4, <1>6, TotalOfSum
<1>8. d \in [Cells -> Int] /\ \A c \in Cells : d[c] = b[c] - flow[c]
  <2> HIDE DEF b
  <2> QED
    BY <1>6
<1>9. Total(d) = Total(b) - Total(flow)
  <2> HIDE DEF b, d
  <2> QED
    BY <1>6, <1>8, TotalOfDifference
<1>10. e \in [Cells -> Int] /\ \A c \in Cells : e[c] = d[c] + in[c]
  <2> HIDE DEF d
  <2> QED
    BY <1>1, <1>8
<1>11. Total(e) = Total(d) + Total(in)
  <2> HIDE DEF b, d, e
  <2>1. d \in [Cells -> Int] /\ e \in [Cells -> Int] /\ in \in [Cells -> Int]
    BY <1>1, <1>8, <1>10
  <2>2. \A c \in Cells : e[c] = d[c] + in[c]
    BY <1>10
  <2> QED
    BY <2>1, <2>2, TotalOfSum
<1>12. \A c \in Cells : raw[c] = e[c] + got[c]
  <2> SUFFICES ASSUME NEW c \in Cells PROVE raw[c] = e[c] + got[c]
    OBVIOUS
  <2>1. raw[c] = W[c] - newTil[c] + Wtil[c] - flow[c] + flow[West(c)] + hdt * rate[c]
    BY DEF RawW
  <2>2. in[c] = flow[West(c)]
    BY DEF in
  <2> HIDE DEF raw, a, b, d, e, got
  <2> QED
    BY <1>2, <1>4, <1>6, <1>8, <1>10, <2>1, <2>2
<1>13. raw \in [Cells -> Int]
  <2>1. raw = [c \in Cells |-> raw[c]]
    BY DEF RawW
  <2>2. \A c \in Cells : e[c] + got[c] \in Int
    <3> HIDE DEF e, got
    <3> QED
      BY <1>2, <1>10
  <2> HIDE DEF raw, e, got
  <2> QED
    BY <1>12, <2>1, <2>2
<1>14. Total(raw) = Total(e) + Total(got)
  <2> HIDE DEF raw, e, got
  <2> QED
    BY <1>2, <1>10, <1>12, <1>13, TotalOfSum
<1>15. /\ Total(W) \in Int /\ Total(newTil) \in Int /\ Total(Wtil) \in Int
       /\ Total(flow) \in Int /\ Total(got) \in Int
  <2> HIDE DEF got
  <2> QED
    BY <1>2, TotalType
<1> HIDE DEF raw, a, b, d, e, got
<1>16. Total(raw) = Total(W) - Total(newTil) + Total(Wtil) + Total(got)
  BY <1>1, <1>5, <1>7, <1>9, <1>11, <1>14, <1>15
<1>17. Balanced(raw, W, Wtil, newTil, rate, hdt)
  BY <1>3, <1>16 DEF Balanced
<1> QED
  BY <1>13, <1>17 DEF raw

(* A sub-step of the routing.                                               *)
LEMMA SubStepIsBalanced ==
  ASSUME NEW w \in WaterType, NEW m \in [Cells -> CellTypes], NEW rate \in [Cells -> Nat],
         NEW flow \in [Cells -> Int], NEW hdt \in Nat,
         NEW v, v = AfterSubStep(w, m, rate, flow, hdt)
  PROVE  /\ v \in WaterType /\ InBounds(v) /\ DryOutside(v, m)
         /\ Ever(v) = Ever(w) + hdt * Total(rate)
<1> DEFINE rawTil == RawWtil(w.Wtil, rate, hdt)
           newTil == Kept(rawTil, m)
           rawW   == RawW(w.W, w.Wtil, newTil, rate, flow, hdt)
           newW   == Kept(rawW, m)
           fromTil == Counted(rawTil, m)
           fromW   == Counted(rawW, m)
<1>1. /\ w.W \in [Cells -> Int] /\ w.Wtil \in [Cells -> Int]
      /\ w.lost \in LossType /\ w.fromTill \in Nat
  BY DEF WaterType
<1>2. v = [W |-> newW, Wtil |-> newTil, lost |-> Add(w.lost, Add(fromTil, fromW)),
           fromTill |-> w.fromTill + Total(rawTil) - Total(newTil)]
  BY DEF AfterSubStep
<1>3. rawTil \in [Cells -> 0..TillMax]
  BY <1>1, TillFills
<1>4. rawTil \in [Cells -> Int]
  <2> HIDE DEF rawTil
  <2> QED
    BY <1>3, WaterAssumption
<1> HIDE DEF rawTil
<1>5. /\ newTil \in [Cells -> Nat] /\ fromTil \in LossType
      /\ Total(newTil) = Total(rawTil) - Net(fromTil)
  BY <1>4, LossesAreCounted
<1>6. \A c \in Cells : newTil[c] = 0 \/ newTil[c] = rawTil[c]
  <2> SUFFICES ASSUME NEW c \in Cells PROVE newTil[c] = 0 \/ newTil[c] = rawTil[c]
    OBVIOUS
  <2>1. rawTil[c] \in 0..TillMax
    BY <1>3
  <2>2. Higher(rawTil[c], 0) = rawTil[c]
    BY <2>1, WaterAssumption DEF Higher
  <2> QED
    BY <2>2 DEF Kept
<1>7. \A c \in Cells : m[c] # "grounded" => newTil[c] = 0 /\ newW[c] = 0
  BY DEF Kept, Ocean, CellTypes
<1> HIDE DEF newTil, fromTil
<1>8. newTil \in [Cells -> Int]
  BY <1>5
<1>9. /\ rawW \in [Cells -> Int]
      /\ Total(rawW) = Total(w.W) - Total(newTil) + Total(w.Wtil) + hdt * Total(rate)
  <2>1. PICK W, Wtil : W = w.W /\ Wtil = w.Wtil
    OBVIOUS
  <2>2. /\ RawW(W, Wtil, newTil, rate, flow, hdt) \in [Cells -> Int]
        /\ Balanced(RawW(W, Wtil, newTil, rate, flow, hdt), W, Wtil, newTil, rate, hdt)
    BY <1>1, <1>8, <2>1, LayerIsBalanced
  <2> QED
    BY <2>1, <2>2 DEF Balanced
<1> HIDE DEF rawW
<1>10. /\ newW \in [Cells -> Nat] /\ fromW \in LossType
       /\ Total(newW) = Total(rawW) - Net(fromW)
  BY <1>9, LossesAreCounted
<1> HIDE DEF newW, fromW
<1>11. Total(rawTil) - Total(newTil) \in Nat
  <2> DEFINE gone == [c \in Cells |-> rawTil[c] - newTil[c]]
  <2>1. gone \in [Cells -> Nat]
    <3> SUFFICES ASSUME NEW c \in Cells PROVE rawTil[c] - newTil[c] \in Nat
      OBVIOUS
    <3>1. rawTil[c] \in Nat
      BY <1>3, WaterAssumption
    <3> QED
      BY <1>6, <3>1
  <2>2. gone \in [Cells -> Int] /\ \A c \in Cells : gone[c] = rawTil[c] - newTil[c]
    BY <2>1
  <2> HIDE DEF gone
  <2>3. Total(gone) = Total(rawTil) - Total(newTil)
    BY <1>4, <1>8, <2>2, TotalOfDifference
  <2> QED
    BY <2>1, <2>3, TotalOfPositive
<1>12. /\ Add(fromTil, fromW) \in LossType
       /\ Net(Add(fromTil, fromW)) = Net(fromTil) + Net(fromW)
  BY <1>5, <1>10, LossesAdd
<1>13. /\ Add(w.lost, Add(fromTil, fromW)) \in LossType
       /\ Net(Add(w.lost, Add(fromTil, fromW))) = Net(w.lost) + Net(Add(fromTil, fromW))
  BY <1>1, <1>12, LossesAdd
<1>14. /\ Total(w.W) \in Int /\ Total(w.Wtil) \in Int /\ Total(rate) \in Int
       /\ Total(rawTil) \in Int /\ Total(newTil) \in Int /\ Total(newW) \in Int
       /\ Total(rawW) \in Int
  <2>1. rate \in [Cells -> Int] /\ newW \in [Cells -> Int]
    BY <1>10
  <2> QED
    BY <1>1, <1>4, <1>8, <1>9, <2>1, TotalType
<1>15. Net(w.lost) \in Int /\ Net(fromTil) \in Int /\ Net(fromW) \in Int
  BY <1>1, <1>5, <1>10 DEF Net, LossType
<1>16. v \in WaterType
  <2>1. w.fromTill + Total(rawTil) - Total(newTil) \in Nat
    BY <1>1, <1>11, <1>14
  <2>2. newW \in [Cells -> Int]
    BY <1>10
  <2> QED
    BY <1>2, <1>8, <1>13, <2>1, <2>2 DEF WaterType
<1>17. v.W = newW /\ v.Wtil = newTil
  BY <1>2
<1>18. InBounds(v)
  <2>1. \A c \in Cells : newW[c] >= 0
    BY <1>10
  <2>2. \A c \in Cells : newTil[c] \in 0..TillMax
    BY <1>3, <1>6, WaterAssumption
  <2> QED
    BY <1>17, <2>1, <2>2 DEF InBounds
<1>19. DryOutside(v, m)
  BY <1>7, <1>17 DEF DryOutside
<1>20. Ever(v) = Total(newW) + Total(newTil) + (Net(w.lost) + (Net(fromTil) + Net(fromW)))
                   - (w.fromTill + Total(rawTil) - Total(newTil))
  BY <1>2, <1>12, <1>13 DEF Ever
<1>21. Ever(v) = Ever(w) + hdt * Total(rate)
  <2>1. PICK x \in Int : x = hdt * Total(rate)
    BY <1>14
  <2>2. Total(rawW) = Total(w.W) - Total(newTil) + Total(w.Wtil) + x
    BY <1>9, <2>1
  <2>3. Ever(w) = Total(w.W) + Total(w.Wtil) + Net(w.lost) - w.fromTill
    BY DEF Ever
  <2>4. Ever(v) = Ever(w) + x
    BY <1>1, <1>5, <1>10, <1>14, <1>15, <1>20, <2>2, <2>3
  <2> QED
    BY <2>1, <2>4
<1> QED
  BY <1>16, <1>18, <1>19, <1>21

(* NullTransport::update()                                                  *)
LEMMA NullStepIsBounded ==
  ASSUME NEW w \in WaterType, NEW m \in [Cells -> CellTypes], NEW rate \in [Cells -> Nat],
         NEW d \in Nat, \A c \in Cells : w.W[c] = 0,
         NEW v, v = AfterNullTransport(w, m, rate, d)
  PROVE  /\ v \in WaterType /\ InBounds(v) /\ DryOutside(v, m)
         /\ \A c \in Cells : v.W[c] = 0
<1> DEFINE till == RawWtil(w.Wtil, rate, d)
           kept == [c \in Cells |-> IF Ocean(m[c]) \/ ~Icy(m[c]) THEN 0 ELSE till[c]]
<1>1. /\ w.W \in [Cells -> Int] /\ w.Wtil \in [Cells -> Int]
      /\ w.lost \in LossType /\ w.fromTill \in Nat
  BY DEF WaterType
<1>2. till \in [Cells -> 0..TillMax]
  BY <1>1, TillFills
<1>3. v = [w EXCEPT !.Wtil = kept]
  BY DEF AfterNullTransport
<1> HIDE DEF till
<1>4. /\ kept \in [Cells -> 0..TillMax]
      /\ \A c \in Cells : m[c] # "grounded" => kept[c] = 0
  BY <1>2, WaterAssumption DEF Ocean, Icy, CellTypes
<1> HIDE DEF kept
<1>5. v.W = w.W /\ v.Wtil = kept /\ v.lost = w.lost /\ v.fromTill = w.fromTill
      /\ v = [W |-> w.W, Wtil |-> kept, lost |-> w.lost, fromTill |-> w.fromTill]
  BY <1>3 DEF WaterType
<1>6. v \in WaterType
  <2>1. kept \in [Cells -> Int]
    BY <1>4, WaterAssumption
  <2> QED
    BY <1>1, <1>5, <2>1 DEF WaterType
<1>7. InBounds(v) /\ DryOutside(v, m) /\ \A c \in Cells : v.W[c] = 0
  BY <1>4, <1>5 DEF InBounds, DryOutside
<1> QED
  BY <1>6, <1>7
-----------------------------------------------------------------------------
(* The water in the loop.                                                   *)
WaterTypes ==
  /\ mask \in [Cells -> CellTypes]
  /\ ht \in Nat /\ input \in [Cells -> Nat]
  /\ water \in WaterType
  /\ before \in Int /\ supplied \in Nat

(* What is in the layer and in the till.                                    *)
WaterKept ==
  /\ InBounds(water)
  /\ scenario.hydrology = "null" => \A c \in Cells : water.W[c] = 0
  /\ pc = "geometry" => DryOutside(water, mask)

(* After each sub-step the water is accounted for up to the time of the     *)
(* hydrology model, which reaches the end of the step.                      *)
WaterCounted ==
  /\ pc = "water" => time <= ht /\ ht < time + dt
  /\ scenario.hydrology = "routing" /\ pc \in {"water", "geometry"} =>
       /\ Ever(water) = before + supplied
       /\ ~scenario.inputToBed => supplied = (ht - time) * Total(input)
       /\ pc = "geometry" => ht = time + dt

WaterInv == LoopOK /\ WaterTypes /\ WaterKept /\ WaterCounted

(* What a scenario allows of the water.                                     *)
LEMMA WaterOptions ==
  ASSUME scenario \in Scenarios
  PROVE  /\ scenario.hydrology \in {"null", "routing"}
         /\ scenario.masks \subseteq [Cells -> CellTypes]
         /\ scenario.rates \subseteq [Cells -> Nat]
         /\ scenario.inputToBed \in BOOLEAN
BY SubModelsAssumption DEF ScenarioType

(* The input of water is nowhere negative.                                  *)
LEMMA InputType ==
  ASSUME NEW m, NEW rate \in [Cells -> Nat]
  PROVE  InputRate(m, rate) \in [Cells -> Nat]
BY DEF InputRate

(* Before the first run there is no water.                                  *)
LEMMA InitWater == Init => WaterInv
<1> SUFFICES ASSUME Init PROVE WaterInv
  OBVIOUS
<1> DEFINE none == [c \in Cells |-> 0]
<1>1. LoopOK
  BY LoopInit
<1>2. /\ pc = "off" /\ mask \in scenario.masks /\ ht = 0 /\ input = none
      /\ before = 0 /\ supplied = 0
      /\ water = [W |-> none, Wtil |-> none, lost |-> NoLoss, fromTill |-> 0]
  BY DEF Init, NoWater
<1>3. none \in [Cells -> Int] /\ none \in [Cells -> Nat] /\ \A c \in Cells : none[c] = 0
  OBVIOUS
<1> HIDE DEF none
<1>4. NoLoss \in LossType
  BY DEF NoLoss, LossType
<1>5. mask \in [Cells -> CellTypes]
  BY <1>1, <1>2, WaterOptions DEF LoopOK
<1>6. WaterTypes
  BY <1>2, <1>3, <1>4, <1>5 DEF WaterTypes, WaterType
<1>7. TillMax \in Nat
  BY WaterAssumption
<1>8. WaterKept
  BY <1>2, <1>3, <1>7 DEF WaterKept, InBounds
<1>9. WaterCounted
  BY <1>2 DEF WaterCounted
<1> QED
  BY <1>1, <1>6, <1>8, <1>9 DEF WaterInv

(* A new update begins.                                                     *)
LEMMA UpdateBegins ==
  ASSUME WaterInv, SurfaceAndOcean
  PROVE  WaterTypes' /\ WaterKept' /\ WaterCounted'
<1>1. /\ pc = "air" /\ pc' = "water" /\ time' = time /\ dt' = dt /\ scenario' = scenario
      /\ mask' = mask /\ input' = input
      /\ ht' = time /\ supplied' = 0
      /\ water' = [water EXCEPT !.lost = NoLoss, !.fromTill = 0]
      /\ before' = Total(water.W) + Total(water.Wtil)
  BY DEF SurfaceAndOcean, loopVars, bedVars
<1>2. /\ time \in Nat /\ dt \in Nat /\ dt > 0
      /\ mask \in [Cells -> CellTypes] /\ input \in [Cells -> Nat]
      /\ water \in WaterType /\ InBounds(water)
  BY <1>1 DEF WaterInv, LoopOK, Moving, WaterTypes, WaterKept
<1>3. NoLoss \in LossType /\ Net(NoLoss) = 0
  BY DEF NoLoss, LossType, Net
<1>4. /\ water'.W = water.W /\ water'.Wtil = water.Wtil
      /\ water'.lost = NoLoss /\ water'.fromTill = 0
      /\ water' \in WaterType
  BY <1>1, <1>2, <1>3 DEF WaterType
<1>5. /\ Total(water.W) \in Int /\ Total(water.Wtil) \in Int /\ Total(input) \in Int
  <2>1. /\ water.W \in [Cells -> Int] /\ water.Wtil \in [Cells -> Int]
        /\ input \in [Cells -> Int]
    BY <1>2 DEF WaterType
  <2> QED
    BY <2>1, TotalType
<1>6. WaterTypes'
  BY <1>1, <1>2, <1>4, <1>5 DEF WaterTypes
<1>7. WaterKept'
  BY <1>1, <1>2, <1>4 DEF WaterInv, WaterKept, InBounds
<1>8. Ever(water') = before' + supplied'
  BY <1>1, <1>3, <1>4, <1>5 DEF Ever
<1>9. supplied' = (ht' - time') * Total(input')
  <2>1. ht' - time' = 0
    BY <1>1, <1>2
  <2> QED
    BY <1>1, <1>5, <2>1
<1>10. WaterCounted'
  BY <1>1, <1>2, <1>8, <1>9 DEF WaterCounted
<1> QED
  BY <1>6, <1>7, <1>10

(* An update of the null model.                                             *)
LEMMA NullKeepsWater ==
  ASSUME WaterInv, NullTransport
  PROVE  WaterTypes' /\ WaterKept' /\ WaterCounted'
<1>1. /\ pc = "water" /\ pc' = "geometry" /\ scenario.hydrology = "null"
      /\ time' = time /\ dt' = dt /\ scenario' = scenario /\ mask' = mask
      /\ ht' = ht /\ before' = before /\ supplied' = supplied
      /\ input' \in {InputRate(mask, rate) : rate \in scenario.rates}
      /\ water' = AfterNullTransport(water, mask, input', dt)
  BY DEF NullTransport, loopVars, bedVars
<1>2. /\ mask \in [Cells -> CellTypes] /\ dt \in Nat
      /\ water \in WaterType /\ \A c \in Cells : water.W[c] = 0
      /\ ht \in Nat /\ before \in Int /\ supplied \in Nat
  BY <1>1 DEF WaterInv, LoopOK, WaterTypes, WaterKept
<1>3. input' \in [Cells -> Nat]
  BY <1>1, WaterOptions, InputType DEF WaterInv, LoopOK
<1>4. /\ water' \in WaterType /\ InBounds(water') /\ DryOutside(water', mask)
      /\ \A c \in Cells : water'.W[c] = 0
  BY <1>1, <1>2, <1>3, NullStepIsBounded
<1>5. WaterTypes'
  BY <1>1, <1>2, <1>3, <1>4 DEF WaterTypes
<1>6. WaterKept'
  BY <1>1, <1>4 DEF WaterKept
<1>7. WaterCounted'
  BY <1>1 DEF WaterCounted
<1> QED
  BY <1>5, <1>6, <1>7

(* A sub-step of the routing model.                                         *)
LEMMA RouteKeepsWater ==
  ASSUME WaterInv, Route
  PROVE  WaterTypes' /\ WaterKept' /\ WaterCounted'
<1>1. /\ pc = "water" /\ scenario.hydrology = "routing"
      /\ time' = time /\ dt' = dt /\ scenario' = scenario /\ mask' = mask
      /\ before' = before
  BY DEF Route, loopVars, bedVars
<1>2. /\ time \in Nat /\ dt \in Nat /\ ht \in Nat /\ time <= ht /\ ht < time + dt
      /\ mask \in [Cells -> CellTypes] /\ input \in [Cells -> Nat]
      /\ water \in WaterType /\ before \in Int /\ supplied \in Nat
      /\ Ever(water) = before + supplied
      /\ ~scenario.inputToBed => supplied = (ht - time) * Total(input)
  BY <1>1 DEF WaterInv, LoopOK, WaterTypes, WaterCounted
<1>3. PICK hdt \in SubSteps(time + dt - ht), flow \in Flows(water.W, mask) :
        /\ input' \in IF ht = time \/ scenario.inputToBed
                        THEN {InputRate(mask, rate) : rate \in scenario.rates}
                        ELSE {input}
        /\ water' = AfterSubStep(water, mask, input', flow, hdt)
        /\ supplied' = supplied + hdt * Total(input')
        /\ ht' = ht + hdt
        /\ pc' = IF ht + hdt < time + dt THEN "water" ELSE "geometry"
  BY DEF Route
<1>4. hdt \in Nat /\ hdt > 0 /\ ht + hdt <= time + dt
  BY <1>2, WaterAssumption DEF SubSteps, Lower
<1>5. flow \in [Cells -> Int]
  <2>1. water.W \in [Cells -> Int]
    BY <1>2 DEF WaterType
  <2>2. PICK W : W = water.W
    OBVIOUS
  <2> QED
    BY <2>1, <2>2, EdgesType
<1>6. input' \in [Cells -> Nat]
  <2>1. \A rate \in scenario.rates : InputRate(mask, rate) \in [Cells -> Nat]
    BY WaterOptions, InputType DEF WaterInv, LoopOK
  <2> QED
    BY <1>2, <1>3, <2>1
<1>7. /\ water' \in WaterType /\ InBounds(water') /\ DryOutside(water', mask)
      /\ Ever(water') = Ever(water) + hdt * Total(input')
  <2>1. water' = AfterSubStep(water, mask, input', flow, hdt)
    BY <1>3
  <2> QED
    BY <1>2, <1>4, <1>5, <1>6, <2>1, SubStepIsBalanced
<1>8. Total(input') \in Nat
  BY <1>6, TotalOfPositive
<1>9. hdt * Total(input') \in Nat
  BY <1>4, <1>8
<1>10. Ever(water') = before' + supplied' /\ supplied' \in Nat
  BY <1>1, <1>2, <1>3, <1>7, <1>9
<1>11. ASSUME ~scenario.inputToBed
       PROVE  supplied' = (ht' - time') * Total(input')
  <2>1. supplied = (ht - time) * Total(input')
    <3>1. CASE ht = time
      <4>1. ht - time = 0 /\ Total(input) \in Int
        <5>1. input \in [Cells -> Int]
          BY <1>2
        <5> QED
          BY <1>2, <3>1, <5>1, TotalType
      <4> QED
        BY <1>2, <1>8, <1>11, <4>1
    <3>2. CASE ht # time
      BY <1>2, <1>3, <1>11, <3>2
    <3> QED
      BY <3>1, <3>2
  <2>2. \A x, y, z \in Int : x * z + y * z = (x + y) * z
    OBVIOUS
  <2>3. ht - time \in Int /\ ht' - time' = (ht - time) + hdt
    BY <1>1, <1>2, <1>3, <1>4
  <2> QED
    BY <1>3, <1>4, <1>8, <2>1, <2>2, <2>3
<1>12. WaterTypes'
  BY <1>1, <1>2, <1>3, <1>4, <1>6, <1>7, <1>10 DEF WaterTypes
<1>13. WaterKept'
  BY <1>1, <1>7 DEF WaterKept
<1>14. WaterCounted'
  BY <1>1, <1>2, <1>3, <1>4, <1>10, <1>11 DEF WaterCounted
<1> QED
  BY <1>12, <1>13, <1>14

(* Only the updates of the hydrology model move water.                      *)
LEMMA WaterStep == WaterInv /\ [Next]_vars => WaterInv'
<1> SUFFICES ASSUME WaterInv, [Next]_vars PROVE WaterTypes' /\ WaterKept' /\ WaterCounted'
  BY LoopStep DEF WaterInv
<1>1. CASE /\ pc' \notin {"water", "geometry"}
           /\ UNCHANGED <<scenario, waterVars>>
           /\ mask' \in [Cells -> CellTypes]
  <2>1. WaterTypes' /\ WaterKept'
    BY <1>1 DEF WaterInv, WaterTypes, WaterKept, waterVars
  <2>2. WaterCounted'
    BY <1>1 DEF WaterCounted
  <2> QED
    BY <2>1, <2>2
<1>2. mask \in [Cells -> CellTypes] /\ scenario.masks \subseteq [Cells -> CellTypes]
  BY WaterOptions DEF WaterInv, WaterTypes, LoopOK
<1>3. ASSUME NEW e \in Ends, NEW b \in BOOLEAN, Begin(e, b)
      PROVE  WaterTypes' /\ WaterKept' /\ WaterCounted'
  <2>1. pc' = "yield" /\ UNCHANGED <<scenario, waterVars>> /\ mask' = mask
    BY <1>3 DEF Begin
  <2> QED
    BY <1>1, <1>2, <2>1
<1>4. CASE YieldStress \/ StressBalance \/ MaxTimestep \/ BedUpdate \/ Advance
  <2>1. /\ pc' \notin {"water", "geometry"}
        /\ UNCHANGED <<scenario, waterVars>> /\ mask' = mask
    BY <1>4 DEF YieldStress, StressBalance, MaxTimestep, BedUpdate, Advance, loopVars, bedVars
  <2> QED
    BY <1>1, <1>2, <2>1
<1>5. CASE Geometry
  <2>1. pc' = "bed" /\ UNCHANGED <<scenario, waterVars>> /\ mask' \in scenario.masks
    BY <1>5 DEF Geometry, loopVars
  <2> QED
    BY <1>1, <1>2, <2>1
<1>6. CASE SurfaceAndOcean
  BY <1>6, UpdateBegins
<1>7. CASE NullTransport
  BY <1>7, NullKeepsWater
<1>8. CASE Route
  BY <1>8, RouteKeepsWater
<1>9. CASE UNCHANGED vars
  BY <1>9 DEF vars, loopVars, bedVars, waterVars, WaterInv, WaterTypes, WaterKept, WaterCounted
<1> QED
  BY <1>3, <1>4, <1>5, <1>6, <1>7, <1>8, <1>9 DEF Next, Loop

LEMMA WaterAlways == Spec => []WaterInv
BY InitWater, WaterStep, PTL DEF Spec
-----------------------------------------------------------------------------
(* The snow.  Starts of balance years.                                      *)
IsStart(b) == b \in Int /\ \E q \in Int : b = q * Year + BalanceDay

(* Of the lengths, all that most steps need.                                *)
LEMMA YearType == Year \in Nat \ {0} /\ BalanceDay \in Int
BY SnowAssumption

(* The balance year of a time begins at it or before it, less than a year.  *)
LEMMA SnowTimes ==
  /\ Year \in Nat \ {0} /\ BalanceDay \in Int /\ 0 <= BalanceDay /\ BalanceDay < Year
  /\ \A t \in Int : /\ t \div Year \in Int
                    /\ (t \div Year) * Year <= t
                    /\ t < (t \div Year) * Year + Year
  /\ \A t \in Int : Snowfall[t % Year] \in Nat /\ MeltCapacity[t % Year] \in Nat
<1>1. Year \in Nat \ {0} /\ BalanceDay \in 0..(Year - 1)
  BY SnowAssumption
<1>2. \A t \in Int : t % Year \in 0..(Year - 1) /\ t \div Year \in Int
  BY <1>1
<1>3. \A t \in Int : t = Year * (t \div Year) + (t % Year)
  BY <1>1
<1>4. ASSUME NEW t \in Int
      PROVE  (t \div Year) * Year <= t /\ t < (t \div Year) * Year + Year
  <2>1. PICK p : p = Year * (t \div Year)
    OBVIOUS
  <2>2. p = (t \div Year) * Year /\ p \in Int
    BY <1>1, <1>2, <2>1
  <2>3. t = p + (t % Year) /\ t % Year \in 0..(Year - 1)
    BY <1>2, <1>3, <2>1
  <2>4. p <= t /\ t < p + Year
    BY <1>1, <2>2, <2>3
  <2> QED
    BY <2>2, <2>4
<1>5. \A t \in Int : Snowfall[t % Year] \in Nat /\ MeltCapacity[t % Year] \in Nat
  BY <1>2, SnowAssumption
<1> QED
  BY <1>1, <1>2, <1>4, <1>5

(* Whole years before and after a start are starts.                         *)
LEMMA StartMoves ==
  ASSUME NEW b, IsStart(b), NEW n \in Int
  PROVE  IsStart(b + Year * n)
<1>1. PICK q \in Int : b = q * Year + BalanceDay
  BY DEF IsStart
<1>2. Year \in Int /\ BalanceDay \in Int
  BY YearType
<1>3. \A x, y, z, w \in Int : (x * z + w) + z * y = (x + y) * z + w
  OBVIOUS
<1>4. b + Year * n = (q + n) * Year + BalanceDay
  BY <1>1, <1>2, <1>3
<1>5. q + n \in Int /\ b \in Int /\ Year * n \in Int
  BY <1>2 DEF IsStart
<1> QED
  BY <1>4, <1>5 DEF IsStart

(* They are a year apart.                                                   *)
LEMMA StartsApart ==
  ASSUME NEW a, NEW b, IsStart(a), IsStart(b), a < b
  PROVE  a + Year <= b
<1>1. PICK p \in Int : a = p * Year + BalanceDay
  BY DEF IsStart
<1>2. PICK q \in Int : b = q * Year + BalanceDay
  BY DEF IsStart
<1>3. Year \in Nat \ {0} /\ BalanceDay \in Int
  BY YearType
<1>4. PICK n \in Int : n = q - p
  OBVIOUS
<1>5. \A x, y, z \in Int : (y - x) * z = y * z - x * z
  OBVIOUS
<1>6. b - a = n * Year
  <2>1. n * Year = q * Year - p * Year
    BY <1>3, <1>4, <1>5
  <2>2. q * Year \in Int /\ p * Year \in Int
    BY <1>3
  <2> QED
    BY <1>1, <1>2, <1>3, <2>1, <2>2
<1>7. a \in Int /\ b \in Int
  BY DEF IsStart
<1>8. \A y \in Nat \ {0}, x \in Int : x * y > 0 => x > 0
  OBVIOUS
<1>9. n > 0
  BY <1>3, <1>6, <1>7, <1>8
<1>10. \A y \in Nat \ {0}, x \in Int : x > 0 => x * y >= y
  OBVIOUS
<1>11. n * Year >= Year
  BY <1>3, <1>9, <1>10
<1> QED
  BY <1>3, <1>6, <1>7, <1>11

(* The one before a time, and the next.                                     *)
LEMMA StartBefore ==
  ASSUME NEW t \in Int
  PROVE  /\ IsStart(BalanceYearStart(t))
         /\ BalanceYearStart(t) <= t /\ t < BalanceYearStart(t) + Year
         /\ ComputeNextBalanceYearStart(t) = BalanceYearStart(t) + Year
<1>1. PICK q \in Int : q = t \div Year
  BY SnowTimes
<1>2. PICK b : b = q * Year + BalanceDay
  OBVIOUS
<1>3. /\ Year \in Nat \ {0} /\ BalanceDay \in Int /\ 0 <= BalanceDay /\ BalanceDay < Year
      /\ q * Year \in Int /\ q * Year <= t /\ t < q * Year + Year
  BY <1>1, SnowTimes
<1>4. b \in Int /\ b - Year <= t /\ t < b + Year /\ IsStart(b)
  BY <1>2, <1>3 DEF IsStart
<1>5. IsStart(b + Year * (-1)) /\ b + Year * (-1) = b - Year
  BY <1>3, <1>4, StartMoves
<1>6. /\ BalanceYearStart(t) = IF b > t THEN b - Year ELSE b
      /\ ComputeNextBalanceYearStart(t) = IF b > t THEN b ELSE b + Year
  BY <1>1, <1>2 DEF BalanceYearStart, ComputeNextBalanceYearStart
<1> QED
  BY <1>3, <1>4, <1>5, <1>6

(* There is only one.                                                       *)
LEMMA StartIs ==
  ASSUME NEW t \in Int, NEW b, IsStart(b), b <= t, t < b + Year
  PROVE  b = BalanceYearStart(t)
<1>1. /\ IsStart(BalanceYearStart(t)) /\ BalanceYearStart(t) <= t
      /\ t < BalanceYearStart(t) + Year
  BY StartBefore
<1>2. Year \in Nat /\ b \in Int /\ BalanceYearStart(t) \in Int
  BY <1>1, YearType DEF IsStart
<1>3. ~(b < BalanceYearStart(t))
  BY <1>1, <1>2, StartsApart
<1>4. ~(BalanceYearStart(t) < b)
  BY <1>1, <1>2, StartsApart
<1> QED
  BY <1>2, <1>3, <1>4

-----------------------------------------------------------------------------
(* What a sample needs to know of the snow: it is of the balance year that  *)
(* ends at the next start, unless a run skipped its beginning.              *)
OfYear(s) ==
  /\ s \in SnowState /\ IsStart(s.next)
  /\ s.depth > 0 => s.oldest >= s.next - Year \/ s.next - Year \in s.skipped

Sampled(s, u) == FallAndMelt(Reset(s, u), u)

(* One sample leaves the snow of the present balance year, or says that the *)
(* start was skipped.                                                       *)
LEMMA SampleKeeps ==
  ASSUME NEW s, OfYear(s), NEW u \in Nat, s.next - Year <= u
  PROVE  /\ OfYear(Sampled(s, u))
         /\ Sampled(s, u).next - Year <= u /\ u < Sampled(s, u).next
         /\ Sampled(s, u).skipped = s.skipped
<1> DEFINE r == Reset(s, u)
           v == Sampled(s, u)
<1>1. /\ s \in SnowState /\ IsStart(s.next) /\ s.next \in Int
      /\ s.depth > 0 => s.oldest >= s.next - Year \/ s.next - Year \in s.skipped
  BY DEF OfYear, SnowState
<1>2. Year \in Nat \ {0}
  BY YearType
<1>3. /\ r \in SnowState /\ IsStart(r.next) /\ r.next \in Int /\ r.skipped = s.skipped
      /\ r.next - Year <= u /\ u < r.next
      /\ r.depth > 0 => r.oldest >= r.next - Year \/ r.next - Year \in r.skipped
  <2>1. CASE u < s.next
    <3>1. r = s
      BY <2>1 DEF Reset
    <3> HIDE DEF r
    <3> QED
      BY <1>1, <2>1, <3>1
  <2>2. CASE ~(u < s.next)
    <3> DEFINE q == (u - s.next) \div Year
               n == s.next + Year * (q + 1)
               b == BalanceYearStart(u)
               resets == IF s.resetFor = b THEN s.resets + 1 ELSE 1
    <3>1. /\ q \in Int /\ q * Year <= u - s.next /\ u - s.next < q * Year + Year
      <4>1. u - s.next \in Int
        BY <1>1
      <4> QED
        BY <4>1, SnowTimes
    <3>2. b \in Int
      BY StartBefore DEF IsStart
    <3> HIDE DEF q
    <3>3. Year * (q + 1) = q * Year + Year /\ q * Year \in Int
      BY <1>2, <3>1
    <3>4. IsStart(n) /\ n \in Int
      BY <1>1, <3>1, StartMoves DEF IsStart
    <3>5. n - Year <= u /\ u < n
      BY <1>1, <1>2, <3>1, <3>3
    <3>6. r = [s EXCEPT !.depth = 0, !.next = n, !.resetFor = b, !.resets = resets]
      BY <2>2 DEF Reset, q
    <3>7. resets \in Nat
      BY <1>1 DEF SnowState
    <3> HIDE DEF n, b, resets, r
    <3>8. r = [depth |-> 0, next |-> n, call |-> s.call, oldest |-> s.oldest,
               last |-> s.last, resetFor |-> b, resets |-> resets, skipped |-> s.skipped]
      BY <1>1, <3>6 DEF SnowState
    <3>9. r \in SnowState
      BY <1>1, <3>2, <3>4, <3>7, <3>8 DEF SnowState
    <3> QED
      BY <3>4, <3>5, <3>8, <3>9
  <2> QED
    BY <2>1, <2>2
<1> HIDE DEF r
<1> DEFINE fallen == r.depth + Snowfall[u % Year]
           left   == IF MeltCapacity[u % Year] <= fallen
                       THEN fallen - MeltCapacity[u % Year] ELSE 0
           oldest == IF r.depth = 0 THEN u ELSE r.oldest
<1>4. left \in Nat
  <2>1. Snowfall[u % Year] \in Nat /\ MeltCapacity[u % Year] \in Nat /\ r.depth \in Nat
    BY <1>3, SnowTimes DEF SnowState
  <2> QED
    BY <2>1
<1>5. oldest \in Int /\ (oldest >= r.next - Year \/ r.next - Year \in r.skipped)
  <2>1. r.depth \in Nat /\ r.oldest \in Int
    BY <1>3 DEF SnowState
  <2> QED
    BY <1>2, <1>3, <2>1
<1>6. v = [r EXCEPT !.depth = left, !.oldest = oldest]
  BY DEF Sampled, FallAndMelt, r
<1> HIDE DEF left, oldest, v
<1>7. v = [depth |-> left, next |-> r.next, call |-> r.call, oldest |-> oldest,
           last |-> r.last, resetFor |-> r.resetFor, resets |-> r.resets,
           skipped |-> r.skipped]
  BY <1>3, <1>6 DEF SnowState
<1>8. v \in SnowState
  BY <1>3, <1>4, <1>5, <1>7 DEF SnowState
<1>9. /\ v.next = r.next /\ v.skipped = r.skipped /\ v.oldest = oldest
  BY <1>7
<1>10. OfYear(v)
  BY <1>3, <1>5, <1>8, <1>9 DEF OfYear
<1> QED
  BY <1>3, <1>9, <1>10 DEF v
(* The samples of an update one after the other.                            *)
Samples(p, s, t, n) ==
  p = [k \in 0..n |-> IF k = 0 THEN s ELSE Sampled(p[k - 1], t + k - 1)]

(* The samples of one step, one after another, exist as a function.         *)
LEMMA SamplesExist ==
  ASSUME NEW s, NEW t, NEW d \in Nat
  PROVE  \E p : Samples(p, s, t, d)
<1> DEFINE Bad == {n \in 0..d : ~\E p : Samples(p, s, t, n)}
<1>1. Bad = {}
  <2> SUFFICES ASSUME Bad # {} PROVE FALSE
    OBVIOUS
  <2>1. Bad \in SUBSET Nat
    OBVIOUS
  <2>2. PICK n \in Bad : \A j \in Bad : n <= j
    <3> HIDE DEF Bad
    <3> QED
      BY <2>1, Least
  <2>3. n \in 0..d /\ ~\E p : Samples(p, s, t, n)
    BY <2>2
  <2>4. n # 0
    <3>1. Samples([k \in 0..0 |-> s], s, t, 0)
      BY DEF Samples
    <3> QED
      BY <2>3, <3>1
  <2>5. n - 1 \in 0..d /\ ~(n - 1 \in Bad)
    <3>1. n \in Nat /\ ~(n <= n - 1) /\ n - 1 \in 0..d
      BY <2>3, <2>4
    <3> HIDE DEF Bad
    <3> QED
      BY <2>2, <3>1
  <2>6. PICK p : Samples(p, s, t, n - 1)
    BY <2>5
  <2> DEFINE q == [k \in 0..n |-> IF k = n THEN Sampled(p[n - 1], t + n - 1) ELSE p[k]]
  <2>7. ASSUME NEW k \in 0..n
        PROVE  q[k] = IF k = 0 THEN s ELSE Sampled(q[k - 1], t + k - 1)
    <3>1. k \in Nat /\ n \in Nat /\ n # 0
      BY <2>3, <2>4
    <3>2. CASE k = n
      <4>1. k - 1 \in 0..n /\ k - 1 # n /\ k # 0
        BY <3>1, <3>2
      <4>2. q[k - 1] = p[n - 1]
        BY <3>2, <4>1
      <4> QED
        BY <3>2, <4>1, <4>2
    <3>3. CASE k # n
      <4>1. k \in 0..n - 1
        BY <3>1, <3>3
      <4>2. p[k] = IF k = 0 THEN s ELSE Sampled(p[k - 1], t + k - 1)
        <5>1. p = [j \in 0..n - 1 |-> IF j = 0 THEN s ELSE Sampled(p[j - 1], t + j - 1)]
          BY <2>6 DEF Samples
        <5> QED
          BY <4>1, <5>1
      <4>3. q[k] = p[k]
        BY <3>3
      <4>4. k # 0 => q[k - 1] = p[k - 1]
        <5>1. k # 0 => k - 1 \in 0..n /\ k - 1 # n
          BY <3>1
        <5> QED
          BY <5>1
      <4> HIDE DEF q
      <4> QED
        BY <4>2, <4>3, <4>4
    <3> QED
      BY <3>2, <3>3
  <2>8. q = [k \in 0..n |-> q[k]]
    OBVIOUS
  <2> HIDE DEF q
  <2>9. Samples(q, s, t, n)
    BY <2>7, <2>8 DEF Samples
  <2> QED
    BY <2>3, <2>9
<1>2. d \in 0..d
  OBVIOUS
<1> QED
  BY <1>1, <1>2

(* The snow after all samples of a step.                                    *)
LEMMA SeriesKeeps ==
  ASSUME NEW s, OfYear(s), NEW t \in Nat, s.next - Year <= t, NEW d \in Nat \ {0}
  PROVE  /\ OfYear(Series(s, t, d))
         /\ Series(s, t, d).next - Year <= t + d - 1
         /\ t + d - 1 < Series(s, t, d).next
         /\ Series(s, t, d).skipped = s.skipped
<1> DEFINE after == CHOOSE p : Samples(p, s, t, d)
<1>1. Series(s, t, d) = after[d]
  BY DEF Series, Samples, Sampled
<1>2. Samples(after, s, t, d)
  BY SamplesExist
<1> HIDE DEF after
<1>3. \A k \in 0..d : after[k] = IF k = 0 THEN s ELSE Sampled(after[k - 1], t + k - 1)
  <2>1. after = [k \in 0..d |-> IF k = 0 THEN s ELSE Sampled(after[k - 1], t + k - 1)]
    BY <1>2 DEF Samples
  <2> QED
    BY <2>1
<1> DEFINE Good(k) ==
      /\ OfYear(after[k]) /\ after[k].skipped = s.skipped
      /\ after[k].next - Year <= t + k
      /\ k # 0 => after[k].next - Year <= t + k - 1 /\ t + k - 1 < after[k].next
           Bad == {k \in 0..d : ~Good(k)}
<1>4. Bad = {}
  <2> SUFFICES ASSUME Bad # {} PROVE FALSE
    OBVIOUS
  <2>1. Bad \in SUBSET Nat
    OBVIOUS
  <2>2. PICK k \in Bad : \A j \in Bad : k <= j
    <3> HIDE DEF Bad
    <3> QED
      BY <2>1, Least
  <2>3. k \in 0..d /\ ~Good(k) /\ k \in Nat
    BY <2>2
  <2>4. k # 0
    <3>1. Good(0)
      BY <1>3
    <3> QED
      BY <2>3, <3>1
  <2>5. k - 1 \in 0..d /\ Good(k - 1)
    <3>1. ~(k <= k - 1) /\ k - 1 \in 0..d
      BY <2>3, <2>4
    <3>2. ~(k - 1 \in Bad)
      <4> HIDE DEF Bad
      <4> QED
        BY <2>2, <3>1
    <3> HIDE DEF Good
    <3> QED
      BY <3>1, <3>2
  <2>6. after[k] = Sampled(after[k - 1], t + k - 1)
    BY <1>3, <2>3, <2>4
  <2>7. PICK a, u : a = after[k - 1] /\ u = t + k - 1
    OBVIOUS
  <2>8. u \in Nat /\ u = t + (k - 1)
    BY <2>3, <2>4, <2>7
  <2>9. OfYear(a) /\ a.next - Year <= u /\ a.skipped = s.skipped
    BY <2>5, <2>7, <2>8
  <2>10. /\ OfYear(Sampled(a, u))
         /\ Sampled(a, u).next - Year <= u /\ u < Sampled(a, u).next
         /\ Sampled(a, u).skipped = a.skipped
    BY <2>8, <2>9, SampleKeeps
  <2>11. after[k] = Sampled(a, u)
    BY <2>6, <2>7
  <2>12. Good(k)
    <3>1. after[k].next \in Int /\ Year \in Nat
      BY <2>10, <2>11, YearType DEF OfYear, IsStart
    <3>2. u = t + k - 1 /\ t + k = u + 1
      BY <2>3, <2>7, <2>8
    <3>3. after[k].next - Year <= t + k
      BY <2>8, <2>10, <2>11, <3>1, <3>2
    <3> QED
      BY <2>9, <2>10, <2>11, <3>2, <3>3
  <2> QED
    BY <2>3, <2>12
<1>5. Good(d)
  <2>1. d \in 0..d
    OBVIOUS
  <2> HIDE DEF Good
  <2> QED
    BY <1>4, <2>1
<1> QED
  BY <1>1, <1>5

-----------------------------------------------------------------------------
(* The snow in the loop, between updates: the next start is that of a time  *)
(* that is past, and so are the starts that runs skipped.                   *)
Covered(s, t) ==
  /\ OfYear(s) /\ s.next - Year <= t
  /\ \A b \in s.skipped : b <= t
  /\ s.depth > 0 => \/ s.oldest >= BalanceYearStart(s.last)
                    \/ BalanceYearStart(s.last) \in s.skipped

(* Time that passes without snow changes nothing.                           *)
LEMMA CoveredLater ==
  ASSUME NEW s, NEW t \in Nat, NEW u \in Nat, t <= u, Covered(s, t)
  PROVE  Covered(s, u)
<1>1. s.next \in Int /\ Year \in Nat /\ s.skipped \in SUBSET Int
  BY YearType DEF Covered, OfYear, SnowState
<1> QED
  BY <1>1 DEF Covered

(* init() of a run: the starts between the runs are skipped.                *)
LEMMA InitCovers ==
  ASSUME NEW s, NEW t \in Nat, Covered(s, t)
  PROVE  Covered(SnowInit(s, t), t)
<1> DEFINE b == BalanceYearStart(t)
           n == ComputeNextBalanceYearStart(t)
           k == s.skipped \cup {x \in {b} : s.last < x}
           v == SnowInit(s, t)
           call == NoCall
<1>1. /\ s \in SnowState /\ s.last \in Int /\ s.depth \in Nat /\ s.oldest \in Int
      /\ s.skipped \in SUBSET Int
      /\ \A x \in s.skipped : x <= t
      /\ s.depth > 0 => \/ s.oldest >= BalanceYearStart(s.last)
                        \/ BalanceYearStart(s.last) \in s.skipped
  BY DEF Covered, OfYear, SnowState
<1>2. Year \in Nat \ {0}
  BY YearType
<1>3. IsStart(b) /\ b \in Int /\ b <= t /\ t < b + Year /\ n = b + Year
  BY StartBefore DEF IsStart
<1>4. IsStart(n) /\ n \in Int
  <2>1. n = b + Year * 1
    BY <1>2, <1>3
  <2>2. IsStart(n)
    BY <1>3, <2>1, StartMoves
  <2> QED
    BY <2>2 DEF IsStart
<1>5. call \in Int \X Int
  BY DEF NoCall
<1>6. v = [s EXCEPT !.call = call, !.next = n, !.skipped = k]
  BY DEF SnowInit
<1>7. k \in SUBSET Int /\ (\A x \in k : x <= t) /\ s.skipped \subseteq k
      /\ (s.last < b => b \in k)
  BY <1>1, <1>3
<1> HIDE DEF k, n, v, call
<1>8. v = [depth |-> s.depth, next |-> n, call |-> call, oldest |-> s.oldest, last |-> s.last,
           resetFor |-> s.resetFor, resets |-> s.resets, skipped |-> k]
  BY <1>1, <1>6 DEF SnowState
<1>9. v \in SnowState
  BY <1>1, <1>4, <1>5, <1>7, <1>8 DEF SnowState
<1>10. ASSUME s.depth > 0
       PROVE  s.oldest >= b \/ b \in k
  <2> DEFINE c == BalanceYearStart(s.last)
  <2>1. IsStart(c) /\ c \in Int /\ c <= s.last /\ s.last < c + Year
    BY <1>1, StartBefore DEF IsStart
  <2>2. CASE s.last < b
    BY <1>7, <2>2
  <2>3. CASE ~(s.last < b)
    <3> HIDE DEF b, c
    <3>1. ~(c < b)
      <4>1. c < b => c + Year <= b
        BY <1>3, <2>1, StartsApart
      <4> QED
        BY <1>1, <1>2, <1>3, <2>1, <2>3, <4>1
    <3>2. CASE s.oldest >= c
      BY <1>1, <1>3, <2>1, <3>1, <3>2
    <3>3. CASE c \in s.skipped
      <4>1. c <= t
        BY <1>1, <3>3
      <4>2. ~(b < c)
        <5>1. b < c => b + Year <= c
          BY <1>3, <2>1, StartsApart
        <5> QED
          BY <1>2, <1>3, <2>1, <4>1, <5>1
      <4>3. c = b
        BY <1>3, <2>1, <3>1, <4>2
      <4> QED
        BY <1>7, <3>3, <4>3
    <3> QED
      BY <1>1, <1>10, <3>2, <3>3 DEF c
  <2> QED
    BY <2>2, <2>3
<1>11. OfYear(v)
  <2>1. n - Year = b
    BY <1>2, <1>3
  <2> QED
    BY <1>4, <1>8, <1>9, <1>10, <2>1 DEF OfYear
<1>12. v.next - Year <= t /\ \A x \in v.skipped : x <= t
  BY <1>2, <1>3, <1>7, <1>8
<1>13. v.depth > 0 => \/ v.oldest >= BalanceYearStart(v.last)
                      \/ BalanceYearStart(v.last) \in v.skipped
  BY <1>1, <1>7, <1>8
<1>14. Covered(v, t)
  BY <1>11, <1>12, <1>13 DEF Covered
<1> QED
  BY <1>14 DEF v

(* An update that samples the step.                                         *)
LEMMA UpdateCovers ==
  ASSUME NEW s, NEW t \in Nat, Covered(s, t), NEW d \in Nat \ {0}, NEW ocean \in BOOLEAN
  PROVE  Covered(SnowUpdate(s, t, d, ocean), t)
<1>1. CASE s.call = <<t, d>>
  BY <1>1 DEF SnowUpdate
<1>2. CASE s.call # <<t, d>>
  <2> DEFINE a == Series(s, t, d)
             b == BalanceYearStart(t)
             n == ComputeNextBalanceYearStart(t)
             call == <<t, d>>
             depth == IF ocean THEN 0 ELSE a.depth
             last == t + d - 1
             c == BalanceYearStart(last)
             v == SnowUpdate(s, t, d, ocean)
  <2>1. OfYear(s) /\ s.next - Year <= t /\ s.skipped \in SUBSET Int /\ \A x \in s.skipped : x <= t
    BY DEF Covered, OfYear, SnowState
  <2>2. /\ OfYear(a) /\ a.next - Year <= last /\ last < a.next /\ a.skipped = s.skipped
    BY <2>1, SeriesKeeps
  <2>3. v = [depth |-> depth, oldest |-> a.oldest, call |-> call, next |-> n, last |-> last,
             resetFor |-> a.resetFor, resets |-> a.resets, skipped |-> a.skipped]
    BY <1>2 DEF SnowUpdate
  <2>4. /\ IsStart(b) /\ b \in Int /\ b <= t /\ t < b + Year /\ n = b + Year
        /\ Year \in Nat \ {0}
    <3>1. IsStart(b) /\ b <= t /\ t < b + Year /\ n = b + Year
      BY StartBefore
    <3> HIDE DEF b, n
    <3> QED
      BY <3>1, YearType DEF IsStart
  <2>5. IsStart(n) /\ n \in Int
    <3>1. n = b + Year * 1
      BY <2>4
    <3>2. IsStart(n)
      BY <2>4, <3>1, StartMoves
    <3> QED
      BY <3>2 DEF IsStart
  <2>6. last \in Int /\ t <= last /\ call \in Int \X Int
    OBVIOUS
  <2> HIDE DEF a, b, n, call, last, v
  <2>7. a \in SnowState /\ a.next \in Int /\ a.oldest \in Int /\ a.depth \in Nat
    BY <2>2 DEF OfYear, SnowState
  <2>8. a.next - Year = c
    <3>1. a.next + Year * (-1) = a.next - Year
      BY <2>4, <2>7
    <3>2. IsStart(a.next - Year)
      BY <2>2, <3>1, StartMoves DEF OfYear
    <3>3. a.next - Year <= last /\ last < (a.next - Year) + Year
      BY <2>2, <2>4, <2>7
    <3> QED
      BY <2>6, <3>2, <3>3, StartIs
  <2>9. depth \in Nat /\ (depth > 0 => a.depth > 0)
    BY <2>7
  <2>10. depth > 0 => a.oldest >= c \/ c \in s.skipped
    BY <2>2, <2>8, <2>9 DEF OfYear
  <2>11. IsStart(c) /\ c \in Int /\ b <= c /\ (c <= t => c = b)
    <3>1. IsStart(c) /\ c \in Int /\ c <= last /\ last < c + Year
      BY <2>6, StartBefore DEF IsStart
    <3> HIDE DEF c
    <3>2. c < b => c + Year <= b
      BY <2>4, <3>1, StartsApart
    <3>3. b < c => b + Year <= c
      BY <2>4, <3>1, StartsApart
    <3> QED
      BY <2>4, <2>6, <3>1, <3>2, <3>3
  <2> HIDE DEF c, depth
  <2>12. depth > 0 => a.oldest >= b \/ b \in s.skipped
    BY <2>1, <2>4, <2>7, <2>10, <2>11
  <2>13. v \in SnowState
    BY <2>3, <2>5, <2>6, <2>7, <2>9 DEF SnowState
  <2>14. OfYear(v)
    <3>1. n - Year = b
      BY <2>4
    <3> QED
      BY <2>2, <2>3, <2>5, <2>12, <2>13, <3>1 DEF OfYear
  <2>15. v.next - Year <= t /\ \A x \in v.skipped : x <= t
    BY <2>1, <2>2, <2>3, <2>4
  <2>16. v.depth > 0 => \/ v.oldest >= BalanceYearStart(v.last)
                        \/ BalanceYearStart(v.last) \in v.skipped
    BY <2>2, <2>3, <2>10 DEF c
  <2>17. Covered(v, t)
    BY <2>14, <2>15, <2>16 DEF Covered
  <2> QED
    BY <2>17 DEF v
<1> QED
  BY <1>1, <1>2
-----------------------------------------------------------------------------
(* The snow in every run, and the number of runs.                           *)
SnowInv == LoopOK /\ runs \in 0..MaxRuns /\ Covered(snow, time)

(* Before the first run there is no snow.                                   *)
LEMMA InitSnow == Init => SnowInv
<1> SUFFICES ASSUME Init PROVE SnowInv
  OBVIOUS
<1> DEFINE n == ComputeNextBalanceYearStart(0)
           b == BalanceYearStart(0)
           call == NoCall
<1>1. LoopOK
  BY LoopInit
<1>2. /\ time = 0 /\ runs = 0
      /\ snow = [depth |-> 0, next |-> n, call |-> call, oldest |-> 0, last |-> 0 - 1,
                 resetFor |-> -1, resets |-> 0, skipped |-> {}]
  BY DEF Init, Bare
<1>3. IsStart(b) /\ b \in Int /\ b <= 0 /\ n = b + Year
  BY StartBefore DEF IsStart
<1>4. IsStart(n) /\ n \in Int
  <2>1. n = b + Year * 1
    BY <1>3, YearType
  <2>2. IsStart(n)
    BY <1>3, <2>1, StartMoves
  <2> QED
    BY <2>2 DEF IsStart
<1>5. call \in Int \X Int
  BY DEF NoCall
<1> HIDE DEF n, b, call
<1>6. snow \in SnowState
  BY <1>2, <1>4, <1>5 DEF SnowState
<1>7. OfYear(snow)
  BY <1>2, <1>4, <1>6 DEF OfYear
<1>8. snow.next - Year <= time
  BY <1>2, <1>3, YearType
<1>9. Covered(snow, time)
  BY <1>2, <1>7, <1>8 DEF Covered
<1>10. runs \in 0..MaxRuns
  BY <1>2, SubModelsAssumption
<1> QED
  BY <1>1, <1>9, <1>10 DEF SnowInv

(* Only a new run and the update of the atmosphere change the snow.         *)
LEMMA SnowStep == SnowInv /\ [Next]_vars => SnowInv'
<1> SUFFICES ASSUME SnowInv, [Next]_vars PROVE runs' \in 0..MaxRuns /\ Covered(snow', time')
  BY LoopStep DEF SnowInv
<1>0. /\ time \in Nat /\ dt \in Nat /\ (pc \in Moving => dt > 0)
      /\ runs \in 0..MaxRuns /\ Covered(snow, time)
  BY DEF SnowInv, LoopOK
<1>1. ASSUME NEW e \in Ends, NEW b \in BOOLEAN, Begin(e, b)
      PROVE  runs' \in 0..MaxRuns /\ Covered(snow', time')
  <2> DEFINE newSnow  == SnowInit(snow, time)
             newCache == [k \in DOMAIN cache |-> CacheInit(time)]
             none     == [snow |-> newSnow, cache |-> newCache, level |-> Never]
             air      == IF b THEN InitAgain(InitStep(newSnow, newCache, time), snow, time)
                              ELSE InitAgain(none, snow, time)
  <2>1. /\ time' = time /\ runs' = runs + 1 /\ runs < MaxRuns
        /\ snow' = air.snow
    BY <1>1 DEF Begin
  <2>2. snow' = SnowInit(snow, time)
    BY <2>1 DEF InitAgain
  <2>3. Covered(snow', time')
    BY <1>0, <2>1, <2>2, InitCovers
  <2> QED
    BY <1>0, <2>1, <2>3, SubModelsAssumption
<1>2. CASE SurfaceAndOcean
  <2>1. /\ pc = "air" /\ time' = time /\ runs' = runs
        /\ snow' = AirUpdate(snow, cache, seaLevel, time, dt).snow
    BY <1>2 DEF SurfaceAndOcean, loopVars
  <2>2. \/ snow' = snow
        \/ snow' = SnowUpdate(snow, time, Year, Ocean(mask[Point]))
        \/ snow' = SnowUpdate(snow, time, dt, Ocean(mask[Point]))
    BY <2>1 DEF AirUpdate
  <2>3. Year \in Nat \ {0} /\ dt \in Nat \ {0} /\ Ocean(mask[Point]) \in BOOLEAN
    BY <1>0, <2>1, YearType DEF Moving, Ocean
  <2>4. PICK o \in BOOLEAN : o = Ocean(mask[Point])
    BY <2>3
  <2>5. Covered(SnowUpdate(snow, time, Year, o), time)
    BY <1>0, <2>3, UpdateCovers
  <2>6. Covered(SnowUpdate(snow, time, dt, o), time)
    BY <1>0, <2>3, UpdateCovers
  <2> QED
    BY <1>0, <2>1, <2>2, <2>4, <2>5, <2>6
<1>3. CASE Advance
  <2>1. time' = time + dt /\ snow' = snow /\ runs' = runs
    BY <1>3 DEF Advance, loopVars, airVars
  <2>2. time' \in Nat /\ time <= time'
    BY <1>0, <2>1
  <2> QED
    BY <1>0, <2>1, <2>2, CoveredLater
<1>4. CASE \/ YieldStress \/ StressBalance \/ MaxTimestep \/ NullTransport \/ Route
           \/ Geometry \/ BedUpdate \/ UNCHANGED vars
  <2>1. time' = time /\ snow' = snow /\ runs' = runs
    BY <1>4 DEF YieldStress, StressBalance, MaxTimestep, NullTransport, Route, Geometry,
                BedUpdate, vars, loopVars, airVars
  <2> QED
    BY <1>0, <2>1
<1> QED
  BY <1>1, <1>2, <1>3, <1>4 DEF Next, Loop

LEMMA SnowAlways == Spec => []SnowInv
BY InitSnow, SnowStep, PTL DEF Spec

(* For every snowfall, melt, length of steps and chain of runs, with and    *)
(* without a cache, snow that fell before the start of a balance year that  *)
(* no run skipped is gone (PSTemperatureIndex); and for every geometry,     *)
(* input and flow the water of an update of either hydrology model is       *)
(* within its bounds, gone from outside the grounded ice, and, with the     *)
(* losses that are reported, what was there and what entered, but for what  *)
(* the till has lost, which is reported twice (hydrology::Routing).         *)
THEOREM StoresStayConsistent == Spec => []StoresConsistent
<1>1. BedInv /\ AirInv /\ WaterInv /\ SnowInv => StoresConsistent
  <2> SUFFICES ASSUME BedInv, AirInv, WaterInv, SnowInv PROVE StoresConsistent
    OBVIOUS
  <2>1. TypeOK
    <3>1. /\ scenario \in Scenarios /\ pc \in Places
          /\ time \in Nat /\ start \in Nat /\ end \in Nat /\ dt \in Nat
          /\ atDepth \in BOOLEAN /\ bootstrapped \in BOOLEAN
      BY DEF BedInv, LoopOK
    <3>2. /\ bed \in BedState /\ smoother \in [counter : Int, topg : Int]
          /\ thk \in Int /\ forgotten \in Int /\ surface \in Int
          /\ yield \in [call : Int \X Int, at : Int]
      <4>1. surface = bed.topg
        BY DEF BedInv, BedKnown
      <4> QED
        BY <4>1 DEF BedInv, BedTypes, BedState
    <3>3. cache \in [{"surface", "ocean"} -> CacheState] /\ seaLevel \in Int
      BY DEF AirInv, CachesKnown, SeaLevelKnown, CacheNames
    <3>4. /\ mask \in [Cells -> CellTypes] /\ ht \in Nat /\ input \in [Cells -> Nat]
          /\ water \in WaterType /\ before \in Int /\ supplied \in Nat
      BY DEF WaterInv, WaterTypes
    <3>5. snow \in SnowState /\ runs \in 0..MaxRuns
      BY DEF SnowInv, Covered, OfYear
    <3> QED
      BY <3>1, <3>2, <3>3, <3>4, <3>5 DEF TypeOK, Places, WaterType
  <2>2. YearlyReset
    BY DEF SnowInv, Covered, YearlyReset
  <2>3. WaterInBounds
    BY DEF WaterInv, WaterKept, InBounds, DryOutside, WaterInBounds
  <2>4. WaterAccounted
    <3> SUFFICES ASSUME pc = "geometry", scenario.hydrology = "routing"
                 PROVE  Total(water.W) + Total(water.Wtil) = Balance + water.fromTill
      BY DEF WaterAccounted
    <3>1. /\ Ever(water) = before + supplied /\ ht = time + dt
          /\ ~scenario.inputToBed => supplied = (ht - time) * Total(input)
      BY DEF WaterInv, WaterCounted
    <3>2. /\ time \in Nat /\ dt \in Nat /\ before \in Int /\ supplied \in Nat
          /\ water.lost \in LossType /\ water.fromTill \in Nat
          /\ water.W \in [Cells -> Int] /\ water.Wtil \in [Cells -> Int]
      BY DEF WaterInv, LoopOK, WaterTypes, WaterType
    <3>3. ht - time = dt
      BY <3>1, <3>2
    <3>4. Supply = supplied
      BY <3>1, <3>3 DEF Supply
    <3>5. Total(water.W) \in Int /\ Total(water.Wtil) \in Int
      BY <3>2, TotalType
    <3>6. /\ water.lost.land \in Nat /\ water.lost.ocean \in Nat
          /\ water.lost.gain \in Nat /\ water.lost.strip \in Nat
      BY <3>2 DEF LossType
    <3> QED
      BY <3>1, <3>2, <3>4, <3>5, <3>6 DEF Ever, Net, Balance
  <2> QED
    BY <2>1, <2>2, <2>3, <2>4 DEF StoresConsistent
<1> QED
  BY <1>1, BedAlways, AirAlways, WaterAlways, SnowAlways, PTL
=============================================================================

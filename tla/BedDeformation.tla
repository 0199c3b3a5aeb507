--------------------------- MODULE BedDeformation ---------------------------
(***************************************************************************)
(* When the bed is moved and what from: PISMBedDef, the pointwise isostasy  *)
(* model and the schedule of the Lingle-Clark model, whose own step is a    *)
(* choice here.  A column of ice stands for the field; thicknesses are      *)
(* counted so that the bed sinks by as much as the ice has grown.           *)
(***************************************************************************)
EXTENDS Integers

CONSTANTS BedInterval,     \* bed_def_interval_years
          BedMoves         \* what a step of the Lingle-Clark model may do

ASSUME BedAssumption ==
  /\ BedInterval \in Nat
  /\ BedMoves \subseteq Int

BedModels == {"isostasy", "LingleClark"}

(* m_t_beddef_last, the elevation now, at the last update and the load at   *)
(* it, the uplift times the interval it was computed over, and the state    *)
(* counter of the elevation.                                                *)
BedState ==
  [last : Int, topg : Int, topgLast : Int, thkLast : Int, uplift : Int,
   counter : Nat, call : Int \X Int]

(* init_impl(): only the elevation and the uplift are in the file.          *)
BedInit(b, t, thk) ==
  [b EXCEPT !.last = t, !.thkLast = thk, !.topgLast = b.topg, !.counter = 0,
            !.call = <<-1, -1>>]

(* correct_topg() of the Lingle-Clark model comes after init_impl().        *)
CorrectTopg(b, correction) == [b EXCEPT !.topg = @ + correction]

BedDueAfterInterval(b, final, end) ==      \* mutant: not at the end of the run
  final - b.last >= BedInterval

(* At intervals, and at the end of the run.                                 *)
BedDue(b, final, end) ==
  (final - b.last >= BedInterval \/ final >= end) /\ final - b.last > 0

FromFirst(b, elevation, thk, final) ==     \* mutant: topg_last is not kept up
  [b EXCEPT !.last = final, !.topg = elevation,
            !.thkLast = thk, !.uplift = elevation - b.topgLast,
            !.counter = @ + 1]

Moved(b, elevation, thk, final) ==
  [b EXCEPT !.last = final, !.topg = elevation, !.topgLast = elevation,
            !.thkLast = thk, !.uplift = elevation - b.topgLast,
            !.counter = @ + 1]

(* Where the bed may be after an update with load thk.                      *)
Elevations(b, model, thk) ==
  IF model = "isostasy" THEN {b.topgLast - (thk - b.thkLast)}
  ELSE {b.topg + move : move \in BedMoves}

(* update_with_thickness_impl(): the states after it.                       *)
BedUpdates(b, model, thk, t, dt, end) ==
  IF b.call = <<t, dt>> THEN {b}
  ELSE LET called == [b EXCEPT !.call = <<t, dt>>]
       IN  IF BedDue(b, t + dt, end)
             THEN {Moved(called, e, thk, t + dt) : e \in Elevations(b, model, thk)}
             ELSE {called}
=============================================================================

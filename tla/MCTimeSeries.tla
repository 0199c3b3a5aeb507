---------------------------- MODULE MCTimeSeries ----------------------------
(* Instances of TimeSeries for TLC.                                         *)
EXTENDS TimeSeries

(* Runs that may be killed or stopped anywhere and append to one file.      *)
KilledRuns ==
  [requests |-> <<0, 2, 3, 5>>, ranged |-> FALSE, appending |-> TRUE,
   stops |-> TRUE, crashes |-> TRUE, ends |-> {5, 7}]

(* Runs that end at requested times and continue each other.                *)
AlignedRuns ==
  [requests |-> <<0, 2, 4, 6>>, ranged |-> TRUE, appending |-> TRUE,
   stops |-> FALSE, crashes |-> FALSE, ends |-> {2, 4, 6}]

(* Runs that each begin a file of their own.                                *)
NewFiles == [KilledRuns EXCEPT !.ranged = TRUE, !.appending = FALSE, !.crashes = FALSE]

AllPlans == {KilledRuns, AlignedRuns, NewFiles}

(* Plans that show where the code departs from what is said of it.          *)
DeparturePlans ==
  {[AlignedRuns EXCEPT !.ends = {2, 6}, !.stops = TRUE],
   [AlignedRuns EXCEPT !.ends = {6}, !.requests = <<1, 2, 4>>]}

TwoDiags == <<"ivol", "iareag">>
=============================================================================

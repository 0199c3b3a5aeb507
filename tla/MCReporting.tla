---------------------------- MODULE MCReporting -----------------------------
(* Instances of Reporting for TLC.                                          *)
EXTENDS Reporting

(* Lists of times the steps are forced to, two of them closer than a        *)
(* second, and runs that may be killed; ranges of such times with snapshots *)
(* and runs ended anywhere.                                                 *)
KilledRuns ==
  [requests |-> <<0, 3, 4, 8>>, snaps |-> <<>>, ranged |-> FALSE,
   force |-> TRUE, appending |-> TRUE, crashes |-> TRUE, ends |-> {9}]

EndedRuns ==
  [requests |-> <<0, 3, 4, 8>>, snaps |-> <<2, 4, 7>>, ranged |-> TRUE,
   force |-> FALSE, appending |-> TRUE, crashes |-> FALSE, ends |-> {5, 7, 9}]

BothPlans == {KilledRuns, EndedRuns}

(* Plans that show where the code departs from what is said of it.          *)
Spaced == [KilledRuns EXCEPT !.requests = <<0, 4, 8, 12>>, !.ends = {12}]

DeparturePlans ==
  {Spaced, [Spaced EXCEPT !.ranged = TRUE, !.crashes = FALSE],
   [Spaced EXCEPT !.snaps = <<8>>]}
=============================================================================

----------------------------- MODULE MCSubModels -----------------------------
(* Instances of SubModels for TLC.                                          *)
EXTENDS SubModels

(* Snow falls in the first and in the last part of the year and melts in    *)
(* the middle of it, not entirely.                                          *)
SnowfallValue == [m \in 0..(Year - 1) |-> IF m \in 3..6 THEN 0 ELSE 1]
MeltValue     == [m \in 0..(Year - 1) |-> IF m \in 3..5 THEN 1 ELSE 0]

Dry == [c \in Cells |-> 0]
AllGrounded == [c \in Cells |-> "grounded"]

Quiet ==
  [caches |-> {}, bed |-> "isostasy", correction |-> 0, lengths |-> Steps,
   loads |-> {0}, masks |-> {AllGrounded}, rates |-> {Dry}, inputToBed |-> FALSE,
   hydrology |-> "null", stops |-> FALSE, ends |-> Ends]

(* Steps of any length, with and without caches.                            *)
Climate ==
  {[Quiet EXCEPT !.caches = k, !.lengths = l, !.stops = TRUE, !.ends = {20}] :
     k \in SUBSET {"surface", "ocean"}, l \in {{3, 5, 8, 9}, {1, 7}}}

(* The load changes and runs are stopped.                                   *)
Loads ==
  {[Quiet EXCEPT !.bed = b, !.loads = {-1, 0, 1}, !.lengths = {3, 5},
                 !.stops = TRUE, !.ends = {12}, !.correction = c] :
     b \in BedModels, c \in {0, 1}}

(* The ice retreats and advances, and water moves below it.                 *)
Margin ==
  {AllGrounded,
   [c \in Cells |-> IF c = 1 THEN "ocean" ELSE IF c = 2 THEN "land" ELSE "grounded"],
   [c \in Cells |-> IF c = 1 THEN "floating" ELSE "grounded"]}

Water ==
  {[Quiet EXCEPT !.masks = Margin, !.lengths = {3}, !.inputToBed = i,
                 !.rates = {[c \in Cells |-> IF c = 1 THEN 2 ELSE 0],
                            [c \in Cells |-> IF c = 2 THEN 1 ELSE 0]},
                 !.hydrology = h, !.ends = {6}] :
     i \in BOOLEAN, h \in {"null", "routing"}}

AllScenarios == Climate \cup Loads \cup Water
=============================================================================

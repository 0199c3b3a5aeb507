----------------------------- MODULE MCIceMass ------------------------------
(* Instances of IceMass for TLC: a channel between two banks, with grounded *)
(* ice at its head.  The grid is periodic, as the program's is.             *)
EXTENDS IceMass

Channel == [c \in Cells |-> IF c[2] \in {0, My - 1} THEN 40
                            ELSE IF c[1] = 0 THEN 10 ELSE IF c = <<2, 2>> THEN -50 ELSE -900]

Profile(a, b, h) ==
  [thk  |-> [c \in Cells |-> IF c[2] \in {0, My - 1} THEN 0
                             ELSE IF c[2] = 1 THEN a[c[1] + 1] ELSE b[c[1] + 1]],
   href |-> [c \in Cells |-> IF c \in h THEN 16 ELSE 0]]

Uniform(u, v) == [c \in Cells |-> <<u, v>>]

\* Diffusive flow of k leaves the grounded ice to the ocean and to the banks.
DownSlope(k) ==
  [c \in Cells |-> << IF c[1] = 0 THEN k ELSE 0,
                     IF c = <<0, 0>> THEN -k ELSE IF c = <<0, My - 2>> THEN k ELSE 0 >>]

Forcing(u, v, k, smb, bmr) ==
  [vel |-> Uniform(u, v), q |-> DownSlope(k), smb |-> smb, bmr |-> bmr]

\* A shelf, a shelf with a partially filled cell in front of it, and one with a
\* thick front that the cells ahead of it cannot hold.
Shelves ==
  {Profile(<<240, 64, 0, 0>>, <<240, 64, 0, 0>>, {}),
   Profile(<<240, 64, 0, 0>>, <<240, 64, 48, 0>>, {<<2, 1>>}),
   Profile(<<240, 64, 64, 0>>, <<240, 0, 0, 0>>, {<<1, 2>>})}

\* Ice in one row only, cut in two; a tongue that points to the west; cells with
\* less than the thickness that counts as ice.
Broken  == {Profile(<<240, 64, 0, 48>>, <<240, 64, 48, 0>>, {}),
            Profile(<<240, 0, 64, 0>>, <<0, 64, 0, 64>>, {<<3, 1>>})}
Tongues == {Profile(<<240, 0, 64, 64>>, <<0, 0, 0, 0>>, {})}
ShelvesAndTongues == Shelves \cup Tongues
Thin    == {Profile(<<240, 64, 2, 0>>, <<240, 64, 0, 0>>, {<<2, 1>>}),
            Profile(<<240, 64, 2, 0>>, <<240, 64, 0, 0>>, {})}

Flows == {Forcing(4, 0, 0, 0, 0), Forcing(4, 2, 0, 4, 0), Forcing(2, -4, 4, 0, 8),
          Forcing(0, 4, 0, -4, 4)}

FlowsAndReturn == Flows \cup {Forcing(-2, 0, 0, 0, 0), Forcing(4, 0, 0, 0, 0)}

\* Where the front is attacked: nowhere, at the far end of the channel, in one
\* of its rows; and on land.
Along(R(_), x) == [c \in Cells |-> IF c[1] > 0 /\ c[2] \in 1 .. My - 2 /\ R(c) THEN x ELSE 0]

Attacks == {Along(LAMBDA c : FALSE, 0), Along(LAMBDA c : c[1] >= 2, 24),
            Along(LAMBDA c : c[2] = 1, 100)}
NoAttack == {Along(LAMBDA c : FALSE, 0)}
OnLand == {[c \in Cells |-> 300]}

OneRank  == [c \in Cells |-> 1]
TwoRanks == [c \in Cells |-> IF c[1] < 2 THEN 1 ELSE 2]

NoCells  == {}
FarCells == {c \in Cells : c[1] = 3 /\ Floats(c, 0)}
NoVelocity == [c \in Cells |-> <<0, 0>>]

-----------------------------------------------------------------------------
OnShelf ==
  [rankOf |-> OneRank, methods |-> {"crevasses_calving", "thickness_calving"},
   redist |-> TRUE, subgl |-> FALSE, killIcebergs |-> FALSE, saveOld |-> TRUE,
   ice |-> Shelves, rates |-> Attacks]

\* Two processors and all that makes icebergs.
BrokenShelf ==
  [OnShelf EXCEPT !.rankOf = TwoRanks, !.redist = FALSE, !.subgl = TRUE,
     !.methods = {"eigen_calving", "ocean_kill", "float_kill"},
     !.killIcebergs = TRUE, !.ice = Broken]

\* Icebergs that the calving cuts off.
CutOff == [OnShelf EXCEPT !.killIcebergs = TRUE, !.methods = @ \cup {"float_kill"}]

AllSetups == {OnShelf, BrokenShelf, CutOff}

\* Eigen-calving; crevasses on land; no 2D diagnostic; two processors; icebergs
\* before the calving; thin ice and ice that flows back.
Departing ==
  {[OnShelf EXCEPT !.methods = {"eigen_calving"}, !.redist = FALSE,
      !.ice = ShelvesAndTongues],
   [OnShelf EXCEPT !.methods = {"crevasses_calving"}, !.rates = OnLand],
   [OnShelf EXCEPT !.saveOld = FALSE],
   [OnShelf EXCEPT !.rankOf = TwoRanks, !.methods = {"float_kill"}, !.rates = NoAttack],
   [OnShelf EXCEPT !.methods = {}, !.killIcebergs = TRUE, !.ice = Broken,
      !.rates = NoAttack],
   [OnShelf EXCEPT !.methods = {}, !.ice = Thin, !.rates = NoAttack]}
=============================================================================

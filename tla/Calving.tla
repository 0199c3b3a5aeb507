------------------------------- MODULE Calving -------------------------------
(***************************************************************************)
(* The calving mechanisms (base/calving) and the bookkeeping around them    *)
(* (iMcalving.cc).  A mechanism maps the geometry g -- ice thickness thk,   *)
(* mass of partially filled cells href, mask -- to the geometry it leaves.  *)
(*                                                                          *)
(* Cells are distributed over processors by rankOf.  During a loop over     *)
(* its points a processor sees the cells of the others as they were when    *)
(* ghosts were last updated.                                                *)
(***************************************************************************)
EXTENDS CellTypes

CONSTANTS Ranks,          \* processors
          OceanKillMask,  \* cells beyond the fixed calving front
          Threshold       \* thickness_calving_threshold

ASSUME CalvingAssumption ==
  /\ OceanKillMask \subseteq Cells
  /\ Threshold \in Nat

\* OceanKill::init() marks no cell whose bed is above the sea, given that its
\* file has the bed of the run and that the sea level is 0, which it assumes.
ASSUME OceanKillAssumption == \A c \in OceanKillMask : Floats(c, 0)

CalvingMethods == {"eigen_calving", "crevasses_calving", "ocean_kill", "float_kill",
                   "thickness_calving"}

\* Whether a loop of c's processor that has reached c finds x in its own part
\* of the grid: across a periodic boundary there are ghosts, too.
Owns(rankOf, c, x) == /\ rankOf[x] = rankOf[c]
                      /\ x[1] - c[1] \in -1 .. 1 /\ x[2] - c[2] \in -1 .. 1

\* The mask after the cells of S have lost their ice.
Opened(m, S) == [x \in Cells |-> IF x \in S THEN "ice_free_ocean" ELSE m[x]]

Removed(g, S) == [g EXCEPT !.thk  = [c \in Cells |-> IF c \in S THEN 0 ELSE @[c]],
                           !.mask = Opened(@, S)]

\* The cells that loops in place turn into ice-free ocean: each processor tests
\* its points with the mask it has changed so far and with old ghosts.
Walked(m, rankOf, Test(_, _)) ==
  LET walk[k \in 0 .. Mx * My] ==
        IF k = 0 THEN {}
        ELSE LET c == CellAt(k)
                 S == walk[k - 1]
             IN IF Test(Opened(m, {x \in S : Owns(rankOf, c, x)}), c) THEN S \cup {c} ELSE S
  IN walk[Mx * My]

-----------------------------------------------------------------------------
\* remove_narrow_tongues (identical in EigenCalving and CrevassesCalving).

Blocked(m, c, x) == IF GroundedIce(m[c]) THEN ~IceFreeOcean(m[x]) ELSE Icy(m[x])

\* c is the tip of a tongue that it joins in direction d: every other
\* neighbour is open, and so are the two corners next to the joint.
TipOf(m, c, d) ==
  LET corners == CASE d = "w" -> {Shift(c, -1, 1), Shift(c, -1, -1)}
                   [] d = "e" -> {Shift(c, 1, 1), Shift(c, 1, -1)}
                   [] d = "n" -> {Shift(c, -1, 1), Shift(c, 1, 1)}
                   [] d = "s" -> {Shift(c, -1, -1), Shift(c, 1, -1)}
  IN /\ Blocked(m, c, Neighbor(c, d))
     /\ \A e \in Directions \ {d} : ~Blocked(m, c, Neighbor(c, e))
     /\ \A x \in corners : ~Blocked(m, c, x)

IsTip(m, c) == Icy(m[c]) /\ \E d \in Directions : TipOf(m, c, d)

RemoveNarrowTongues(g, rankOf) == Removed(g, Walked(g.mask, rankOf, IsTip))

-----------------------------------------------------------------------------
\* EigenCalving::update.  rate is the ice lost at the front in this step, as a
\* thickness: the strain rates behind it are left out.

AtFront(m, c) == IceFreeOcean(m[c]) /\ NextToFloatingIce(m, c)

\* What a front cell cannot lose itself its floating neighbours share.
ExcessLoss(g, rate, c) ==
  IF AtFront(g.mask, c) /\ rate[c] > g.href[c]
  THEN (rate[c] - g.href[c]) \div
         Cardinality({d \in Directions : FloatingIce(g.mask[Neighbor(c, d)])})
  ELSE 0

LossFromFront(g, rate, c) ==
  IF ~FloatingIce(g.mask[c]) THEN 0
  ELSE LET L(d) == ExcessLoss(g, rate, Neighbor(c, d)) IN L("n") + L("e") + L("s") + L("w")

\* href of a front cell and of a cell that stops being full.
FrontHref(g, rate, loss, c) ==
  CASE loss[c] > 0                          -> IF g.thk[c] > loss[c] THEN g.thk[c] - loss[c] ELSE 0
    [] AtFront(g.mask, c) /\ rate[c] > 0   -> IF g.href[c] > rate[c] THEN g.href[c] - rate[c] ELSE 0
    [] OTHER                                -> g.href[c]

Retreat(g, rate, loss) ==
  [Removed(g, {c \in Cells : loss[c] > 0}) EXCEPT
     !.href = [c \in Cells |-> FrontHref(g, rate, loss, c)]]

EigenCalving(g, rate, rankOf) ==
  RemoveNarrowTongues(Retreat(g, rate, [c \in Cells |-> LossFromFront(g, rate, c)]), rankOf)

-----------------------------------------------------------------------------
\* CrevassesCalving::update: icy cells at the ocean whose crevasses (depth)
\* are at least as deep as their ice is thick.
CrevasseLoss(g, depth) ==
  {c \in Cells : /\ IceMargin(g.mask, c) /\ NextToIceFreeOcean(g.mask, c)
                 /\ depth[c] >= g.thk[c] + g.href[c]
                 /\ g.thk[c] + g.href[c] > 0}

Crevassed(g, S) ==
  [Removed(g, S) EXCEPT !.href = [c \in Cells |-> IF c \in S THEN 0 ELSE @[c]]]

CrevassesCalving(g, depth, rankOf) ==
  RemoveNarrowTongues(Crevassed(g, CrevasseLoss(g, depth)), rankOf)

-----------------------------------------------------------------------------
\* OceanKill, FloatKill and CalvingAtThickness.
BeyondFixedFront(m, c) == c \in OceanKillMask /\ ~Lake(m, c)

OceanKill(g, rankOf) == Removed(g, Walked(g.mask, rankOf, BeyondFixedFront))

FloatKill(g) == Removed(g, {c \in Cells : FloatingIce(g.mask[c]) /\ ~Lake(g.mask, c)})

CalvingAtThickness(g) ==
  Removed(g, {c \in Cells : /\ FloatingIce(g.mask[c])
                            /\ NextToIceFreeOcean(g.mask, c)
                            /\ g.thk[c] < Threshold})

=============================================================================

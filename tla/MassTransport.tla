--------------------------- MODULE MassTransport ---------------------------
(***************************************************************************)
(* The explicit mass continuity step (IceModel::massContExplicitStep) with  *)
(* the partially filled cells of -part_grid and the redistribution of       *)
(* -part_redist, as operators on the ice thickness thk, the mass href of    *)
(* partially filled cells, the mask and the surface elevation.              *)
(*                                                                          *)
(* All are thicknesses, in a unit so fine that the rounding of a quotient   *)
(* does not matter; dt / dx is 1.  Velocities vel[c] = <<u, v>> are in      *)
(* units of 1 / VelUnit.  q[c] = <<q_e, q_n>> is the diffusive flux         *)
(* through the east and north sides of c.                                   *)
(***************************************************************************)
EXTENDS Calving

CONSTANTS PartGrid,         \* -part_grid
          BCMask, BCVel,    \* cells with prescribed velocity, and the velocity
          VelUnit

ASSUME TransportAssumption ==
  /\ PartGrid \in BOOLEAN
  /\ BCMask \subseteq Cells
  /\ BCVel \in [Cells -> Int \X Int]
  /\ VelUnit \in Nat \ {0}

Max0(x) == IF x > 0 THEN x ELSE 0

-----------------------------------------------------------------------------
\* adjust_flow: the interfaces that the diffusive flux and sliding may cross.

Diffuses(a, b) == GroundedIce(a) \/ GroundedIce(b)

\* Mutant: floating ice slides into the ocean, but the ocean cell gets nothing.
SlidesOneWay(a, b) == \/ GroundedIce(a) \/ GroundedIce(b)
                      \/ Ocean(a) /\ Ocean(b) /\ Icy(a)

Slides(a, b) == \/ GroundedIce(a) \/ GroundedIce(b)
                \/ Ocean(a) /\ Ocean(b) /\ (Icy(a) \/ Icy(b))

\* cell_interface_fluxes.  Velocities at interfaces are stored doubled: the sum
\* of the velocities on the two sides, or twice the one that counts.
Interface(inC, inX, a, b) ==
  CASE inC /\ inX  -> a + b
    [] inC /\ ~inX -> 2 * a
    [] ~inC /\ inX -> 2 * b
    [] OTHER       -> 0

Comp(vel, c, d) == vel[c][IF d \in {"e", "w"} THEN 1 ELSE 2]

Velocity(m, vel, c, x, d) ==
  IF c \in BCMask \/ x \in BCMask
  THEN Interface(c \in BCMask, x \in BCMask, Comp(BCVel, c, d), Comp(BCVel, x, d))
  ELSE Interface(Icy(m[c]), Icy(m[x]), Comp(vel, c, d), Comp(vel, x, d))

SlidingVelocity(m, vel, c, x, d) ==
  IF Slides(m[c], m[x]) THEN Velocity(m, vel, c, x, d) ELSE 0

\* Positive to the east and north; the donor is the upwind cell.
Upwind(v, thk, c, x, d) ==
  (v * thk[IF (v > 0) = (d \in {"e", "n"}) THEN c ELSE x]) \div (2 * VelUnit)

DiffusiveFlux(m, q, c, x, d) ==
  IF Diffuses(m[c], m[x])
  THEN q[IF d \in {"e", "n"} THEN c ELSE x][IF d \in {"e", "w"} THEN 1 ELSE 2]
  ELSE 0

FluxTo(m, vel, q, thk, c, x, d) ==
  Upwind(SlidingVelocity(m, vel, c, x, d), thk, c, x, d) + DiffusiveFlux(m, q, c, x, d)

Flux(s, f, c, d) == FluxTo(s.mask, f.vel, f.q, s.thk, c, Neighbor(c, d), d)

Div(s, f, c) == Flux(s, f, c, "e") - Flux(s, f, c, "w") + Flux(s, f, c, "n") - Flux(s, f, c, "s")

-----------------------------------------------------------------------------
\* get_threshold_thickness (without part_grid_reduce_frontal_thickness): n icy
\* neighbours have thicknesses that add up to sumH and surfaces to sumh.
MeanThickness(n, sumH, sumh, bed) ==
  CASE n = 0 -> 0
    [] n > 0 /\ AlphaInv * (n * bed + sumH) > sumh ->
         Max0((sumh - n * AlphaInv * bed) \div (n * AlphaInv))
    [] OTHER -> sumH \div n

OverIcy(m, x, value) == IF Icy(m[x]) THEN value ELSE 0

OverNeighbors(m, c, value) ==
  LET At(d) == OverIcy(m, Neighbor(c, d), value[Neighbor(c, d)])
  IN At("e") + At("w") + At("n") + At("s")

ThresholdThickness(m, thk, surf, c) ==
  MeanThickness(Cardinality({d \in Directions : Icy(m[Neighbor(c, d)])}),
                OverNeighbors(m, c, thk), OverNeighbors(m, c, surf), Bed[c])

-----------------------------------------------------------------------------
\* The loop over cells of massContExplicitStep.  s is the state before it:
\* thk, href, mask, surf; f the forcing: vel, q, smb and bmr.

PartCell(s, c) == PartGrid /\ IceFreeOcean(s.mask[c]) /\ NextToIce(s.mask, c)

Prescribed(c) == c \in BCMask

\* What each cell gets in this step; the residual is for -part_redist.  Ice-free ocean (but for full cells) and
\* prescribed cells have no sources.
CellUpdate(s, f, c) ==
  LET part    == PartCell(s, c)
      div     == Div(s, f, c)
      in      == Max0(s.href[c] - div)
      T       == ThresholdThickness(s.mask, s.thk, s.surf, c)
      full    == part /\ in >= T
      sources == ~Prescribed(c) /\ (full \/ ~IceFreeOcean(s.mask[c]))
      H       == s.thk[c] + (IF sources THEN f.smb - f.bmr ELSE 0)
                          + (IF sources /\ full THEN T ELSE 0)
                          - (IF part \/ Prescribed(c) THEN 0 ELSE div)
  IN [thk      |-> Max0(H),
      href     |-> IF full THEN 0 ELSE IF part THEN in ELSE s.href[c],
      residual |-> IF full THEN in - T ELSE 0,
      smb      |-> IF sources THEN f.smb ELSE 0,
      bmr      |-> IF sources THEN f.bmr ELSE 0,
      nonneg   |-> Max0(-H) - (IF part THEN Max0(div - s.href[c]) ELSE 0),
      divQ     |-> IF part \/ ~Prescribed(c) THEN div ELSE 0]

-----------------------------------------------------------------------------
\* residual_redistribution_iteration.

OpenSides(m, c) == {d \in Directions : IceFreeOcean(m[Neighbor(c, d)])}

\* The equal shares of a residual R: up to one unit, which the first sides get.
Share(R, sides, d) ==
  LET order == <<"e", "w", "n", "s">>
      n     == Cardinality(sides)
      ahead == Cardinality({k \in 1 .. 4 : /\ order[k] \in sides
                                           /\ \E l \in k + 1 .. 4 : order[l] = d})
  IN R \div n + (IF ahead < R % n THEN 1 ELSE 0)

\* What c gets from its neighbour x in direction d.  A neighbour that is not in
\* c's part of the grid adds to its own copy of c, which is never sent to c.
From(m, residual, rankOf, c, d, x) ==
  IF residual[x] > 0 /\ IceFreeOcean(m[c]) /\ Owns(rankOf, x, c)
  THEN Share(residual[x], OpenSides(m, x), Opposite[d]) ELSE 0

Received(m, residual, rankOf, c) ==
  LET In(d) == From(m, residual, rankOf, c, d, Neighbor(c, d))
  IN In("n") + In("e") + In("s") + In("w")

Distributed(m, thk, href, residual, rankOf) ==
  [thk  |-> [c \in Cells |-> thk[c] + IF OpenSides(m, c) = {} THEN residual[c] ELSE 0],
   href |-> [c \in Cells |-> href[c] + Received(m, residual, rankOf, c)]]

FirstStep(thk, href, residual, rankOf) ==
  Distributed(MaskOf(thk), thk, href, residual, rankOf)

\* Mutant: a cell that is full keeps its href.
FillKeepingHref(g, old, c, rankOf) ==
  LET seen == [x \in Cells |-> IF Owns(rankOf, c, x) THEN g.thk[x] ELSE old[x]]
      T    == ThresholdThickness(g.mask, seen, g.surf, c)
  IN IF g.href[c] = 0 \/ g.href[c] < T THEN g
     ELSE [g EXCEPT !.thk[c] = @ + T, !.residual[c] = g.href[c] - T]

\* Cells that the redistribution has filled become ice, and their excess is the
\* residual of the next iteration.  The loop changes thicknesses in place, which
\* cells it reaches later see; old are the thicknesses in ghosts.
FillCell(g, old, c, rankOf) ==
  LET seen == [x \in Cells |-> IF Owns(rankOf, c, x) THEN g.thk[x] ELSE old[x]]
      T    == ThresholdThickness(g.mask, seen, g.surf, c)
  IN IF g.href[c] = 0 \/ g.href[c] < T THEN g
     ELSE [g EXCEPT !.thk[c] = @ + T, !.href[c] = 0, !.residual[c] = g.href[c] - T]

SecondStep(g, rankOf) ==
  LET walk[k \in 0 .. Mx * My] ==
        IF k = 0 THEN g ELSE FillCell(walk[k - 1], g.thk, CellAt(k), rankOf)
  IN walk[Mx * My]

WithTypes(g) ==
  [thk |-> g.thk, href |-> g.href, residual |-> [c \in Cells |-> 0],
   mask |-> MaskOf(g.thk), surf |-> SurfaceElev(g.thk)]

RedistributionIteration(thk, href, residual, rankOf) ==
  SecondStep(WithTypes(FirstStep(thk, href, residual, rankOf)), rankOf)

=============================================================================

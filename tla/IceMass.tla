------------------------------ MODULE IceMass ------------------------------
(***************************************************************************)
(* How a time step of IceModel changes the geometry of the ice: the         *)
(* optional update of the mask for -subgl, the mass continuity step with    *)
(* up to three redistribution iterations, the update of the surface and     *)
(* mask (which removes icebergs), and do_calving() with its cleanup and     *)
(* bookkeeping.  The flux variables of IceModel that the time series of     *)
(* mass fluxes are computed from are kept next to the geometry, so that     *)
(* the mass of the ice can be compared with what was reported.              *)
(***************************************************************************)
EXTENDS MassTransport

CONSTANTS Setups,          \* the models to consider
          CellArea,        \* in units of the reported mass
          Forcings,        \* what a step may meet: [vel, q, smb, bmr]
          MaxSteps         \* bound on the number of steps

(* A setup is what does not change in a run: the processor that owns a      *)
(* cell, the calving methods in use, -part_redist, -subgl, -kill_icebergs,  *)
(* whether a 2D diagnostic of the discharge or the ocean flux was asked     *)
(* for; states of the ice at the start; and what the losses at the front or *)
(* the depths of crevasses may be.                                          *)
ASSUME IceMassAssumption ==
  /\ \A s \in Setups :
       /\ s.rankOf \in [Cells -> Ranks] /\ s.methods \subseteq CalvingMethods
       /\ {s.redist, s.subgl, s.killIcebergs, s.saveOld} \subseteq BOOLEAN
       /\ s.ice \subseteq [thk : [Cells -> Nat], href : [Cells -> Nat]]
       /\ s.rates \subseteq [Cells -> Nat]
  /\ Forcings \subseteq [vel : [Cells -> Int \X Int], q : [Cells -> Int \X Int],
                         smb : Int, bmr : Int]
  /\ CellArea \in Nat \ {0} /\ MaxSteps \in Nat

VARIABLES setup,
          pc,        \* where in the step the model is
          thk, href, mask, surf,
          residual,  \* H_residual, the work vector vWork2d[1]
          work,      \* vHnew, the work vector vWork2d[0]
          loop,      \* redistribution iterations done in this step
          flux,      \* cumulative fluxes in units of mass
          mass0,     \* the mass at the start
          dropped,   \* mass in residuals that were not redistributed (history)
          steps

vars == <<setup, pc, thk, href, mask, surf, residual, work, loop, flux, mass0, dropped, steps>>

MaxLoopCount == 3

Zero == [c \in Cells |-> 0]

-----------------------------------------------------------------------------
\* IcebergRemover: floating ice without a connection to grounded ice.  The
\* labelling of ConnectedComponents finds these cells; it does not look across
\* the boundary of the grid.
Around(c) == {x \in Star(c) : x[1] - c[1] \in -1 .. 1 /\ x[2] - c[2] \in -1 .. 1}

\* The cells of icy that no path through icy connects with anchored.
Detached(icy, anchored) ==
  LET within[k \in 0 .. Mx * My] ==
        IF k = 0 THEN anchored
        ELSE LET S == within[k - 1] IN S \cup (icy \cap UNION {Around(c) : c \in S})
  IN icy \ within[Mx * My]

Icebergs(m) ==
  Detached({c \in Cells : Icy(m[c])},
           {c \in Cells : GroundedIce(m[c]) \/ (Icy(m[c]) /\ c \in BCMask)})

\* Mutant: removing icebergs changes the mask only.
MaskedIcebergs(g) ==
  IF setup.killIcebergs THEN [g EXCEPT !.mask = Opened(@, Icebergs(g.mask))] ELSE g

WithoutIcebergs(g) == IF setup.killIcebergs THEN Removed(g, Icebergs(g.mask)) ELSE g

WithSurface(g) == [thk |-> g.thk, mask |-> g.mask, surf |-> SurfaceElev(g.thk)]

Updated(H) == WithSurface(WithoutIcebergs([thk |-> H, mask |-> MaskOf(H)]))

\* updateSurfaceElevationAndMask() applied to thicknesses H.
Update(H) ==
  \E u \in {Updated(H)} : thk' = u.thk /\ mask' = u.mask /\ surf' = u.surf

-----------------------------------------------------------------------------
NoFlux == [surface |-> 0, grounded |-> 0, shelf |-> 0, nonneg |-> 0, divQ |-> 0,
           land |-> 0, ocean |-> 0, discharge |-> 0]

Init ==
  /\ setup \in Setups
  /\ pc = "step"
  /\ \E g \in setup.ice : \E u \in {Updated(g.thk)} :
       /\ thk = u.thk /\ mask = u.mask /\ surf = u.surf /\ href = g.href
       /\ mass0 = CellArea * (Total(u.thk) + Total(g.href))
  /\ residual = Zero /\ work = Zero
  /\ loop = 0 /\ flux = NoFlux /\ dropped = 0 /\ steps = 0

\* With -subgl a step starts by updating the mask.
BeginStep ==
  /\ pc = "step" /\ steps < MaxSteps
  /\ IF setup.subgl THEN Update(thk) ELSE UNCHANGED <<thk, mask, surf>>
  /\ pc' = "transport" /\ steps' = steps + 1
  /\ UNCHANGED <<setup, href, residual, work, loop, flux, mass0, dropped>>

\* The fluxes that massContExplicitStep adds up; u is the update of each cell.
Reported(s, u) ==
  LET source == [c \in Cells |-> u[c].smb - u[c].bmr]
      bmr    == [c \in Cells |-> u[c].bmr]
      wet == {c \in Cells : Ocean(s.mask[c])}
      sea == {c \in wet : ~Lake(s.mask, c)}
  IN [flux EXCEPT
        !.surface  = @ + CellArea * Total([c \in Cells |-> u[c].smb]),
        !.grounded = @ - CellArea * SumOver(Cells \ wet, bmr),
        !.shelf    = @ - CellArea * SumOver(wet, bmr),
        !.nonneg   = @ + CellArea * Total([c \in Cells |-> u[c].nonneg]),
        !.divQ     = @ - CellArea * Total([c \in Cells |-> u[c].divQ]),
        !.land     = @ + SumOver(Cells \ sea, source),
        !.ocean    = @ + SumOver(sea, source)]

Geometry == [thk |-> thk, href |-> href, mask |-> mask, surf |-> surf]

MassContExplicitStep ==
  /\ pc = "transport"
  /\ \E f \in Forcings : \E u \in {[c \in Cells |-> CellUpdate(Geometry, f, c)]} :
       /\ thk' = [c \in Cells |-> u[c].thk]
       /\ href' = [c \in Cells |-> u[c].href]
       /\ residual' = IF setup.redist THEN [c \in Cells |-> u[c].residual] ELSE residual
       /\ work' = thk'
       /\ flux' = Reported(Geometry, u)
  /\ loop' = 0
  /\ pc' = IF setup.redist THEN "redistribute" ELSE "update"
  /\ UNCHANGED <<setup, mask, surf, mass0, dropped, steps>>

\* The loop ends when nothing is left or after MaxLoopCount iterations.
ResidualRedistribution ==
  /\ pc = "redistribute"
  /\ \E r \in {RedistributionIteration(thk, href, residual, setup.rankOf)} :
       /\ thk' = r.thk /\ href' = r.href /\ residual' = r.residual
       /\ mask' = r.mask /\ surf' = r.surf
       /\ IF Total(r.residual) = 0 \/ loop + 1 = MaxLoopCount
          THEN pc' = "update" /\ dropped' = dropped + CellArea * Total(r.residual)
          ELSE pc' = "redistribute" /\ UNCHANGED dropped
  /\ loop' = loop + 1
  /\ UNCHANGED <<setup, work, flux, mass0, steps>>

UpdateSurfaceElevationAndMask ==
  /\ pc = "update"
  /\ Update(thk)
  /\ pc' = "calving"
  /\ UNCHANGED <<setup, href, residual, work, loop, flux, mass0, dropped, steps>>

-----------------------------------------------------------------------------
\* do_calving: all the mechanisms in use, in their order.
Eigen(g, rate)     == IF "eigen_calving" \in setup.methods THEN EigenCalving(g, rate, setup.rankOf) ELSE g
Crevasses(g, rate) == IF "crevasses_calving" \in setup.methods THEN CrevassesCalving(g, rate, setup.rankOf) ELSE g
Ocean_Kill(g)      == IF "ocean_kill" \in setup.methods THEN OceanKill(g, setup.rankOf) ELSE g
Float_Kill(g)      == IF "float_kill" \in setup.methods THEN FloatKill(g) ELSE g
Thickness(g)       == IF "thickness_calving" \in setup.methods THEN CalvingAtThickness(g) ELSE g

Calved(g, rate) == Thickness(Float_Kill(Ocean_Kill(Crevasses(Eigen(g, rate), rate))))

\* Href_cleanup: href of a cell that has ice joins the ice, and href of a cell
\* without icy neighbours is dropped.
Joins(g, c) == g.thk[c] > 0 /\ g.href[c] > 0

HrefCleanup(g) ==
  IF ~PartGrid THEN g
  ELSE [g EXCEPT
          !.thk  = [c \in Cells |-> g.thk[c] + IF Joins(g, c) THEN g.href[c] ELSE 0],
          !.href = [c \in Cells |-> IF Joins(g, c) \/ ~NextToIce(g.mask, c) THEN 0 ELSE g.href[c]]]

\* Mutant: partially filled cells are forgotten.
DischargeWithoutHref(g, oldH, oldHref) ==
  CellArea * SumOver({c \in Cells : IceFreeOcean(g.mask[c])},
                     [c \in Cells |-> g.thk[c] - oldH[c]])

\* update_cumulative_discharge: what ice-free ocean cells have lost.
Discharge(g, oldH, oldHref) ==
  LET gain(c) == IF g.href[c] > oldHref[c] THEN 0 ELSE g.href[c] - oldHref[c]
  IN CellArea * SumOver({c \in Cells : IceFreeOcean(g.mask[c])},
                         [c \in Cells |-> g.thk[c] - oldH[c] + IF PartGrid THEN gain(c) ELSE 0])

\* The thickness and href that the discharge is computed from.
OldH    == IF setup.saveOld THEN thk ELSE work
OldHref == IF setup.saveOld THEN href ELSE residual

\* Mutant: the surface is not updated after the mechanisms.
CleanedUpWithOldSurface(g, u) ==
  HrefCleanup([thk |-> u.thk, mask |-> u.mask, surf |-> surf, href |-> g.href])

\* updateSurfaceElevationAndMask() and Href_cleanup() after the mechanisms.
CleanedUp(g, u) == HrefCleanup([thk |-> u.thk, mask |-> u.mask, surf |-> u.surf, href |-> g.href])

DoCalving ==
  /\ pc = "calving"
  /\ \E rate \in setup.rates : \E g \in {Calved(Geometry, rate)} :
     \E h \in {CleanedUp(g, Updated(g.thk))} : \E lost \in {Discharge(h, OldH, OldHref)} :
       /\ flux' = [flux EXCEPT !.discharge = @ + lost, !.ocean = @ + lost]
       /\ \E k \in {HrefCleanup(h)} : thk' = k.thk /\ href' = k.href
       /\ mask' = h.mask /\ surf' = h.surf
  /\ work' = OldH /\ residual' = OldHref
  /\ pc' = "step"
  /\ UNCHANGED <<setup, loop, mass0, dropped, steps>>

Next == \/ BeginStep \/ MassContExplicitStep \/ ResidualRedistribution
        \/ UpdateSurfaceElevationAndMask \/ DoCalving

Spec == Init /\ [][Next]_vars

-----------------------------------------------------------------------------
\* The state is well typed: no thickness is negative, and a residual is left
\* only by the redistribution or in a work vector that calving has reused.
TypeOK ==
  /\ setup \in Setups
  /\ pc \in {"step", "transport", "redistribute", "update", "calving"}
  /\ thk \in [Cells -> Nat] /\ href \in [Cells -> Nat]
  /\ mask \in [Cells -> Types] /\ surf \in [Cells -> Int]
  /\ residual \in [Cells -> Nat] /\ work \in [Cells -> Nat]
  /\ loop \in 0 .. MaxLoopCount /\ dropped \in Nat /\ steps \in 0 .. MaxSteps
  /\ \A k \in DOMAIN flux : flux[k] \in Int

\* Mass of the ice at this point of the step.
Mass == CellArea * (Total(thk) + Total(href)
                      + IF pc = "redistribute" THEN Total(residual) ELSE 0)

\* The ice has gained the mass that the reported fluxes add up to, except for
\* the residuals that three iterations did not place.
Accounted ==
  Mass + dropped = mass0 + flux.surface + flux.grounded + flux.shelf + flux.nonneg + flux.discharge

OneProcessor == \A c, x \in Cells : setup.rankOf[c] = setup.rankOf[x]

\* Eigen-calving turns full cells into partially filled ones, which counts as
\* a loss; without a 2D diagnostic the old geometry is not saved.
DischargeCounted == setup.saveOld /\ "eigen_calving" \notin setup.methods

\* massContExplicitStep, the redistribution and the calving code count every
\* kilogram once: with -part_redist, without which the excess of full cells is
\* dropped, on one processor, and but for the icebergs that the first update of
\* the mask removes.
MassAccounted ==
  setup.redist /\ OneProcessor /\ ~setup.killIcebergs /\ DischargeCounted => Accounted

\* Ice only moves from cell to cell: what flows out of one side of an interface
\* flows in on the other, whatever the types of the cells (adjust_flow).
NoNetDivergence == flux.divQ = 0

\* A redistribution iteration keeps the mass, counting what it has yet to place
\* (modeling-marine.tex: -part_redist "makes -part_grid conserve mass").
RedistributionConserves ==
  [][pc = "redistribute" =>
       Total(thk') + Total(href') + Total(residual') = Total(thk) + Total(href) + Total(residual)]_vars

\* The redistribution places all the mass of the cells that got too full.
NothingDropped == dropped = 0

\* iMpartgrid.cc: without icy neighbours the threshold is zero, "forcing Href to
\* be converted to H immediately".
IsolatedHrefBecomesIce ==
  [][pc = "redistribute" =>
       LET s == FirstStep(thk, href, residual, setup.rankOf)
           isolated == {c \in Cells : s.href[c] > 0 /\ ~NextToIce(MaskOf(s.thk), c)}
       IN \A c \in isolated : thk'[c] = s.thk[c] + s.href[c]]_vars

\* After a step the mask and the surface are those of the thickness the step
\* leaves, although do_calving() cleans up after updating them.
GeometryConsistent ==
  pc = "step" => mask = MaskOf(thk) /\ surf = SurfaceElev(thk)

\* Thicknesses and Href are not negative, and after a step the mask and the
\* surface elevation belong to them.
StateConsistent == TypeOK /\ GeometryConsistent

\* After a step with -kill_icebergs no ice is cut off from grounded ice, on any
\* number of processors and whatever calving and its cleanup have done.
NoIcebergs ==
  setup.killIcebergs /\ pc = "step" => Icebergs(MaskOf(thk)) = {}

\* The discharge that do_calving() reports is the mass that it has removed.
DischargeRight ==
  flux'.discharge - flux.discharge
    = CellArea * (Total(thk') + Total(href') - Total(thk) - Total(href))

DischargeAlwaysIsLoss == [][pc = "calving" => DischargeRight]_vars

\* So it is for the other mechanisms than eigen-calving, if there is a 2D
\* diagnostic, where icebergs are removed as well.
DischargeIsLoss == [][pc = "calving" /\ DischargeCounted => DischargeRight]_vars

\* iMcalving.cc on Href_cleanup: "Href(i,j) > 0 is allowed only if
\* ice_thickness(i,j) == 0 and (i,j) has a floating ice neighbor".
HrefAtShelves ==
  pc = "step" => \A c \in Cells : href[c] > 0 => thk[c] = 0 /\ NextToFloatingIce(mask, c)

\* PISMEigenCalving.cc on remove_narrow_tongues(): cells are removed "without
\* introducing a dependence on the grid traversal order".
TonguesAtOnce ==
  pc = "calving" => Walked(mask, setup.rankOf, IsTip) = {c \in Cells : IsTip(mask, c)}

\* The reported land and ocean fluxes (in kg) split the reported surface,
\* basal and discharge fluxes.
LandAndOcean ==
  flux.land + flux.ocean = flux.surface + flux.grounded + flux.shelf + flux.discharge

=============================================================================

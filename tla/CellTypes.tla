------------------------------ MODULE CellTypes ------------------------------
(***************************************************************************)
(* The horizontal grid and the cell type mask (base/util/Mask.hh): which    *)
(* cells are neighbours, what type a cell has given its bed elevation and   *)
(* ice thickness, and the queries on a mask that the mass transport and     *)
(* calving codes make.  The grid is periodic in both directions, as the DM  *)
(* of IceGrid is.                                                           *)
(*                                                                          *)
(* Heights are integers.  The ratio of densities is given by AlphaInv:      *)
(* floating ice of thickness H has its surface H / AlphaInv above the sea;  *)
(* surface elevations are stored multiplied by AlphaInv.                    *)
(***************************************************************************)
EXTENDS Integers, FiniteSets, FiniteSetsExt

CONSTANTS Mx, My,         \* number of cells in the two directions
          Bed,            \* bed elevation of every cell
          SeaLevel,
          AlphaInv,       \* 1 / (1 - ice density / sea water density)
          IceFreeThickness, \* mask_icefree_thickness_standard
          FloatingTol     \* mask_is_floating_thickness_standard

Cells == (0 .. Mx - 1) \X (0 .. My - 1)

ASSUME GridAssumption == Mx \in Nat \ {0, 1, 2} /\ My \in Nat \ {0, 1, 2}
ASSUME BedAssumption  == Bed \in [Cells -> Int] /\ SeaLevel \in Int
ASSUME MaskAssumption == /\ AlphaInv \in Nat \ {0, 1}
                         /\ IceFreeThickness \in Nat \ {0}
                         /\ FloatingTol \in Nat

Directions == {"n", "e", "s", "w"}

Shift(c, di, dj) == << (c[1] + di) % Mx, (c[2] + dj) % My >>

Offset == [n |-> <<0, 1>>, e |-> <<1, 0>>, s |-> <<0, -1>>, w |-> <<-1, 0>>]

Neighbor(c, d) == Shift(c, Offset[d][1], Offset[d][2])

Opposite == [n |-> "s", e |-> "w", s |-> "n", w |-> "e"]

\* The cells in the order of Points: rows i, within a row j.
CellAt(k) == <<(k - 1) \div My, (k - 1) % My>>

\* The sum of f over the cells of S.
SumOver(S, f) == MapThenSumSet(LAMBDA c : f[c], S)
Total(f)      == SumOver(Cells, f)

Star(c) == {Neighbor(c, d) : d \in Directions}

-----------------------------------------------------------------------------
\* namespace mask

Types == {"ice_free_bedrock", "grounded", "floating", "ice_free_ocean"}

Ocean(t)        == t \in {"floating", "ice_free_ocean"}
Icy(t)          == t \in {"grounded", "floating"}
IceFree(t)      == ~Icy(t)
GroundedIce(t)  == t = "grounded"
FloatingIce(t)  == t = "floating"
IceFreeOcean(t) == t = "ice_free_ocean"

\* GeometryCalculator: the flotation criterion, the type and the surface.
HGrounded(c, H) == AlphaInv * (Bed[c] + H)
HFloating(H)    == AlphaInv * SeaLevel + H
Floats(c, H)    == HFloating(H) > HGrounded(c, H) + AlphaInv * FloatingTol

TypeOf(c, H) ==
  IF Floats(c, H)
  THEN IF H < IceFreeThickness THEN "ice_free_ocean"   ELSE "floating"
  ELSE IF H < IceFreeThickness THEN "ice_free_bedrock" ELSE "grounded"

SurfaceOf(c, H) == IF Floats(c, H) THEN HFloating(H) ELSE HGrounded(c, H)

MaskOf(thk)       == [c \in Cells |-> TypeOf(c, thk[c])]
SurfaceElev(thk)  == [c \in Cells |-> SurfaceOf(c, thk[c])]

\* MaskQuery: queries about the four neighbours of a cell.
NextTo(m, c, Is(_))          == \E x \in Star(c) : Is(m[x])
NextToIce(m, c)              == NextTo(m, c, Icy)
NextToFloatingIce(m, c)      == NextTo(m, c, FloatingIce)
NextToIceFreeOcean(m, c)     == NextTo(m, c, IceFreeOcean)
IceMargin(m, c)              == Icy(m[c]) /\ NextTo(m, c, IceFree)
Lake(m, c) == FloatingIce(m[c]) /\ \A x \in Star(c) : GroundedIce(m[x])

=============================================================================

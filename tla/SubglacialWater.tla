--------------------------- MODULE SubglacialWater ---------------------------
(***************************************************************************)
(* Two models of subglacial water on a row of cells that closes on itself,  *)
(* as the periodic grid does.  hydrology::NullTransport fills and drains    *)
(* the till once a step.  An update of hydrology::Routing takes sub-steps   *)
(* of its own; in each, water enters the till up to a maximum, what the     *)
(* till cannot hold moves between the cells, and the water outside of the   *)
(* grounded ice is removed and counted.  What crosses an edge is a choice   *)
(* within the bounds that the adaptive sub-step guarantees.                 *)
(***************************************************************************)
EXTENDS Integers, FiniteSetsExt

CONSTANTS CellCount,   \* number of cells
          TillMax,     \* hydrology_tillwat_max
          Decay,       \* hydrology_tillwat_decay_rate
          MaxSubStep,  \* hydrology_maximum_time_step_years
          Strip        \* cells of -hydrology_null_strip

Cells == 1..CellCount

ASSUME WaterAssumption ==
  /\ CellCount \in Nat \ {0}
  /\ TillMax \in Nat
  /\ Decay \in Nat
  /\ MaxSubStep \in Nat \ {0}
  /\ Strip \subseteq Cells

CellTypes == {"grounded", "floating", "land", "ocean"}
Icy(m)   == m \in {"grounded", "floating"}
Ocean(m) == m \in {"floating", "ocean"}

East(c) == IF c = CellCount THEN 1 ELSE c + 1
West(c) == IF c = 1 THEN CellCount ELSE c - 1

Lower(a, b)  == IF a <= b THEN a ELSE b
Higher(a, b) == IF a >= b THEN a ELSE b

Total(f) == MapThenSumSet(LAMBDA c : f[c], Cells)

NoLoss == [land |-> 0, ocean |-> 0, gain |-> 0, strip |-> 0]
LossType == [land : Nat, ocean : Nat, gain : Nat, strip : Nat]

(* get_input_rate(): nothing enters where there is no ice.                  *)
InputRate(mask, rate) == [c \in Cells |-> IF Icy(mask[c]) THEN rate[c] ELSE 0]

-----------------------------------------------------------------------------
(* boundary_mass_changes(): the field after it, and what it counts.         *)
Kept(new, mask) ==
  [c \in Cells |->
     IF c \in Strip \/ mask[c] = "land" \/ Ocean(mask[c]) THEN 0
     ELSE Higher(new[c], 0)]

Counted(new, mask) ==
  LET positive == [c \in Cells |-> Higher(new[c], 0)]
      Sum(S)   == MapThenSumSet(LAMBDA c : positive[c], S)
      land     == {c \in Cells : mask[c] = "land"}
      ocean    == {c \in Cells : Ocean(mask[c])}
  IN  [land  |-> Sum(land), ocean |-> Sum(ocean),
       gain  |-> Total([c \in Cells |-> Higher(-new[c], 0)]),
       strip |-> Sum(Strip \ (land \cup ocean))]

Add(a, b) == [k \in DOMAIN NoLoss |-> a[k] + b[k]]

-----------------------------------------------------------------------------
(* Water that may cross the east edge of c in a sub-step.  velocity is zero *)
(* without grounded ice on either side (water_thickness_staggered()) and at *)
(* the null strip; the CFL condition lets at most half of a cell leave over *)
(* an edge, and the diffusive one at most a quarter of the difference.      *)
Wet(c, mask) == mask[c] = "grounded" \/ mask[East(c)] = "grounded"

Advected(c, W, mask) ==
  IF Wet(c, mask) /\ Strip \cap {c, East(c)} = {}
    THEN -(W[East(c)] \div 2) .. (W[c] \div 2)
    ELSE {0}

Diffused(c, W, mask) ==
  LET drop == W[c] - W[East(c)]
  IN  IF Wet(c, mask) THEN -(Higher(-drop, 0) \div 4) .. (Higher(drop, 0) \div 4)
      ELSE {0}

FlowsOver(c, W, mask) ==
  {a + d : a \in Advected(c, W, mask), d \in Diffused(c, W, mask)}

Flows(W, mask) ==
  {f \in [Cells -> UNION {FlowsOver(c, W, mask) : c \in Cells}] :
     \A c \in Cells : f[c] \in FlowsOver(c, W, mask)}

(* raw_update_Wtil()                                                        *)
RawWtil(Wtil, input, hdt) ==
  [c \in Cells |-> Lower(Higher(0, Wtil[c] + hdt * (input[c] - Decay)), TillMax)]

ForgetfulW(W, Wtil, newTil, input, flow, hdt) ==  \* mutant: the till keeps the
  [c \in Cells |-> W[c] - flow[c] + flow[West(c)] + hdt * input[c]]  \* input too

(* raw_update_W()                                                           *)
RawW(W, Wtil, newTil, input, flow, hdt) ==
  [c \in Cells |-> W[c] - newTil[c] + Wtil[c] - flow[c] + flow[West(c)]
                   + hdt * input[c]]

(* NullTransport::update(): till water only, and what the till cannot hold  *)
(* or is not below grounded ice is forgotten.                               *)
AfterNullTransport(w, mask, input, d) ==
  LET till == RawWtil(w.Wtil, input, d)
  IN  [w EXCEPT !.Wtil = [c \in Cells |-> IF Ocean(mask[c]) \/ ~Icy(mask[c])
                                            THEN 0 ELSE till[c]]]

(* One sub-step: the water, the till water, the losses reported so far and  *)
(* the part of them that was in the till (history).                         *)
AfterSubStep(w, mask, input, flow, hdt) ==
  LET rawTil == RawWtil(w.Wtil, input, hdt)
      newTil == Kept(rawTil, mask)
      rawW   == RawW(w.W, w.Wtil, newTil, input, flow, hdt)
      losses == Add(Counted(rawTil, mask), Counted(rawW, mask))
  IN  [W |-> Kept(rawW, mask), Wtil |-> newTil,
       lost |-> Add(w.lost, losses),
       fromTill |-> w.fromTill + Total(rawTil) - Total(newTil)]

(* adaptive_for_W_evolution()                                               *)
SubSteps(left) == 1..Lower(left, MaxSubStep)
=============================================================================

SPECIFICATION Spec
CONSTANTS
  Mx = 4
  My = 4
  Bed <- Channel
  SeaLevel = 0
  AlphaInv = 10
  FloatingTol = 0
  VelUnit = 8
  CellArea = 2
  BCMask <- NoCells
  BCVel <- NoVelocity
  PartGrid = TRUE
  Ranks = {1, 2}
  OceanKillMask <- FarCells
  Threshold = 30
  IceFreeThickness = 1
  Setups <- AllSetups
  Forcings <- Flows
  MaxSteps = 3
INVARIANTS MassAccounted NoNetDivergence StateConsistent NoIcebergs
PROPERTY DischargeIsLoss
CHECK_DEADLOCK FALSE

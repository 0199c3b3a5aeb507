SPECIFICATION Spec
CONSTANTS
  Mx = 4
  My = 4
  Bed <- Channel
  SeaLevel = 0
  AlphaInv = 10
  FloatingTol = 0
  VelUnit = 8
  CellArea = 2
  BCMask <- NoCells
  BCVel <- NoVelocity
  PartGrid = TRUE
  Ranks = {1, 2}
  OceanKillMask <- FarCells
  Threshold = 30
  IceFreeThickness = 4
  Setups <- Departing
  Forcings <- FlowsAndReturn
  MaxSteps = 2
INVARIANTS Accounted GeometryConsistent TonguesAtOnce NothingDropped HrefAtShelves LandAndOcean
PROPERTIES DischargeAlwaysIsLoss RedistributionConserves IsolatedHrefBecomesIce
CHECK_DEADLOCK FALSE

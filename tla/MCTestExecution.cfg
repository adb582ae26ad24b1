SPECIFICATION Spec
CONSTANTS
  Forces <- TwoForces
  ADJOIN_DOWN_POINT_NUM = 2
  MAX_DOWN_POINT_NUM = 1
  BreakType = "WITH_MAX_FORCE_DIFFERENCE"
  BreakTarget = 1
  TargetDownPoint = 0
  StartLoad = 1
  BreakStart = 2
  SampleNums = {3}
  PageSize = 2
  MAX_RECORD = 3
  StayTime = 1
  MaxSerial = 1
  Faults = {"save", "write", "cut", "tare"}
INVARIANTS ReportIsGapless PageMatchesCard PieceWithinGroup
PROPERTY OnlyContinued

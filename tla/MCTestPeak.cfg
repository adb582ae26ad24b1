SPECIFICATION LoopSpec
CONSTANTS
  Forces <- ThreeForces
  ADJOIN_DOWN_POINT_NUM = 2
  MAX_DOWN_POINT_NUM = 1
  BreakType = "ATTENUATION_RATE"
  BreakTarget = 40
  TargetDownPoint = 0
  StartLoad = 1
  BreakStart = 2
  SampleNums = {2}
  PageSize = 2
  MAX_RECORD = 2
  StayTime = 1
  MaxSerial = 0
  Faults = {}
INVARIANTS TypeOK PeakIsOfThisLoading
PROPERTY BrokenIsSaved

SPECIFICATION Spec
CONSTANTS
  Forces <- TwoForces
  ADJOIN_DOWN_POINT_NUM = 2
  MAX_DOWN_POINT_NUM = 1
  BreakType = "ADJOIN_TWO_POINT_DIFFERENCE"
  BreakTarget = 1
  TargetDownPoint = 0
  StartLoad = 1
  BreakStart = 2
  SampleNums = {3}
  PageSize = 2
  MAX_RECORD = 3
  StayTime = 1
  MaxSerial = 0
  Faults = {"read"}
PROPERTY OnlyContinued

CONSTANTS
  FcCount = 1
  Values = {0, 1}
  Accepts <- OneAccepts
  Lists <- OneLists
  Capacity = 1
  StallLimit = 1
  RetryLimit = 1
  OtherStation = FALSE
  StationReads = {}
  MaxOut = 2
  MaxQueue = 3
SPECIFICATION ParamsSpec
INVARIANTS WrittenIsHeld

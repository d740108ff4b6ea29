CONSTANTS
  FcCount = 2
  Values = {0, 1}
  Accepts <- MCAccepts
  Lists <- MCLists
  Capacity = 2
  StallLimit = 1
  RetryLimit = 1
  OtherStation = FALSE
  StationReads = {}
  MaxOut = 1
  MaxQueue = 2
SPECIFICATION ParamsSpec
INVARIANTS BackupIsADump

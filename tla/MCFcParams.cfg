CONSTANTS
  FcCount = 2
  Values = {0, 1}
  Accepts <- MCAccepts
  Lists <- MCLists
  Capacity = 2
  StallLimit = 0
  RetryLimit = 0
  OtherStation = TRUE
  StationReads = {1}
  MaxOut = 1
  MaxQueue = 2
SPECIFICATION ParamsSpec
INVARIANTS ParamsTypeOK WrittenWasStored CountedOnce NeverHalf BackupWasStored

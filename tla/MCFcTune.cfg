CONSTANTS
  FcCount = 1
  Values = {0, 1}
  Accepts <- MCAccepts
  Lists <- MCLists
  Capacity = 1
  StallLimit = 1
  RetryLimit = 1
  OtherStation = FALSE
  StationReads = {}
  MaxOut = 1
  MaxQueue = 1
  BaseIds = {1}
  Gains <- MCGains
  MaxResults = 1
SPECIFICATION TuneFairSpec
INVARIANTS TuneTypeOK
PROPERTIES AppliedWasEchoed JobsEnd TuneEnds

CONSTANTS
  Count = 3
  MaxEvents = 5
  FastRetries = 2
SPECIFICATION StartupFairSpec
INVARIANTS StartupTypeOK RecentKept
PROPERTIES KeepsContract KeepsTrying BootEnds

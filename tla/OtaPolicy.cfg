CONSTANTS
  CrashLimit = 3
  MaxPowerCuts = 2
  MaxUploads = 3
SPECIFICATION OtaFairSpec
INVARIANTS OtaTypeOK TrustIsEarned ProbationHasFallback
PROPERTIES GoodIsNeverDemoted ComesUpAgain

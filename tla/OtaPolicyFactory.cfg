CONSTANTS
  CrashLimit = 3
  MaxPowerCuts = 2
  MaxUploads = 3
SPECIFICATION OtaFairSpec
PROPERTIES BothFailRevertToFactory

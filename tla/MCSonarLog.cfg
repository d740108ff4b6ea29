CONSTANTS
  System = System
  Trip = Trip
  Sonar = Sonar
  NoFile = NoFile
  MaxId = 2
  MaxTrip = 2
  MaxSonar = 1
  Block = 2
  LinesPerSecond = 2
  SysLimit = 2
  SysTrim = 1
  Headroom = 6
  ImageReserve = 1
  MaxImage = 2
  Chunk = 2
  MaxStuck = 1
  Capacity = 10
SPECIFICATION LogFairSpec
INVARIANTS LogTypeOK ReserveKept RenamedTogether
PROPERTIES IdsNeverGoBack FinishedIsFinal BufferedReachesFlash

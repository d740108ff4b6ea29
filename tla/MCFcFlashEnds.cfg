CONSTANTS
  Torn = Torn
  A = A
  B = B
  Odd = Odd
  Big = Big
  Old = Old
  Mixed = Mixed
  Data <- OneData
  Uploads <- OneUpload
  FlashSize <- OneFlashSize
  Align = 4
  Block = 4
  MaxImage = 4
  ProgChunk = 4
  BlRev = 3
  MaxPending = 1
  MaxWire = 3
SPECIFICATION FlashFairSpec
PROPERTIES JobEnds

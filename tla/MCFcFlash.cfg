CONSTANTS
  Torn = Torn
  A = A
  B = B
  Odd = Odd
  Big = Big
  Old = Old
  Mixed = Mixed
  Data <- MCData
  Uploads <- MCUploads
  FlashSize <- MCFlashSize
  Align = 4
  Block = 2
  MaxImage = 6
  ProgChunk = 3
  BlRev = 3
  MaxPending = 1
  MaxWire = 3
SPECIFICATION FlashSpec
INVARIANTS FlashTypeOK BootsOnlyVerified NoLeakedHandle PresentIsWhole
PROPERTIES EraseOnlyMatchingBoard DoneMeansWritten NoRewriteWhileBusy
SYMMETRY Symmetry

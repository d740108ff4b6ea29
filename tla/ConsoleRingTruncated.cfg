CONSTANTS
  Lines = 4
  MinFit = 2
  MaxLog = 4
  MaxBoots = 1
SPECIFICATION ConsoleSpec
INVARIANTS NothingSkipped

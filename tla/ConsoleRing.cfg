CONSTANTS
  Lines = 3
  MinFit = 3
  MaxLog = 7
  MaxBoots = 2
SPECIFICATION ConsoleSpec
INVARIANTS ConsoleTypeOK ShownOnce NothingSkipped

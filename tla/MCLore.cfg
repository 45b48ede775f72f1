CONSTANTS
  Entries <- SomeEntries
  Alike <- SomeAlike
  NoEntry = NoEntry
  MaxEntries = 2
  MaxUploads = 2
  MaxLoads = 1
  MaxEdits = 2
  MaxSaves = 2
  MaxSteps = 4
SPECIFICATION LoreSpec
INVARIANTS LoreTypeOK
PROPERTIES MergeIsCareful NoNewsNoChange GuardCanPass RestoreIsTrue
CHECK_DEADLOCK FALSE

CONSTANTS
  RisuIds = {r1}
  LocalIds = {}
  Bodies = {b1, b2}
  NoTurn = NoTurn
  Padded = b2
  Trimmed = b1
  Markdown <- ToMarkdown
  MaxSnaps = 1
  MaxRisuEdits = 2
  MaxLocalEdits = 1
  MaxInFlight = 2
  MaxWrites = 1
SPECIFICATION FairSyncSpec
PROPERTIES LockReleased BaselineCatchesUp

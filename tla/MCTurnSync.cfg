CONSTANTS
  RisuIds = {r1}
  LocalIds = {l1}
  Bodies = {b1, b2}
  NoTurn = NoTurn
  Padded = b2
  Trimmed = b1
  Markdown <- ToMarkdown
  MaxSnaps = 1
  MaxRisuEdits = 1
  MaxLocalEdits = 2
  MaxInFlight = 2
  MaxWrites = 1
SPECIFICATION SyncSpec
INVARIANTS SyncSound
PROPERTIES NoUnseenRevert CommitLosesNothing StoreSpec

CONSTANTS
  RisuIds = {r1, r2}
  LocalIds = {l1}
  Bodies = {b1, b2}
  NoTurn = NoTurn
  Padded = b2
  Trimmed = b1
  Markdown <- ToMarkdown
  NoExtra = NoExtra
  MaxTurns = 3
  AutoKeep = 1
  CheckpointKeep = 1
  MaxUploads = 2
  MaxEdits = 2
  MaxSaves = 0
SPECIFICATION RowsSpec
INVARIANTS RowsSound
PROPERTIES ImplementsStore InsertedStay
CHECK_DEADLOCK FALSE
SYMMETRY RisuSymmetry

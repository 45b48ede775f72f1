CONSTANTS
  RisuIds = {r1, r2}
  LocalIds = {l1}
  Bodies = {b1, b2}
  NoTurn = NoTurn
  Padded = b2
  Trimmed = b1
  Markdown <- ToMarkdown
  NoExtra = NoExtra
  MaxTurns = 3
  AutoKeep = 1
  CheckpointKeep = 3
  MaxUploads = 1
  MaxEdits = 1
  MaxSaves = 3
SPECIFICATION RowsSpec
PROPERTIES ImplementsStore VersionsHold
CHECK_DEADLOCK FALSE
SYMMETRY RisuSymmetry

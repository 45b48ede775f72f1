CONSTANTS
  RisuIds = {r1}
  LocalIds = {l1}
  Bodies = {b1, b2}
  NoTurn = NoTurn
  Markdown <- AsWritten
  MaxSnaps = 1
  Threads = {t1, t2}
  MaxStaged = 2
  MaxMoves = 1
  MaxApprovals = 2
SPECIFICATION StagingSpec
INVARIANTS StagingSound
PROPERTIES DecisionsAreFinal ApprovalHolds
CHECK_DEADLOCK FALSE
SYMMETRY Interchangeable

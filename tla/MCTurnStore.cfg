CONSTANTS
  RisuIds = {r1}
  LocalIds = {l1}
  Bodies = {b1, b2, b3}
  NoTurn = NoTurn
  Padded = b2
  Trimmed = b1
  Markdown <- ToMarkdown
  MaxSnaps = 2
SPECIFICATION StoreSpec
INVARIANTS StoreSound
PROPERTIES ReopenIsSafe AgreementIsClean

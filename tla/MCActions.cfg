CONSTANTS
  Backend = {lore_add}
  Rerunnable = {host_card_writeback}
  Once = {host_module_create}
  Panels = {p1, p2}
  NoAction = NoAction
  MaxProposals = 1
  MaxRequests = 4
  MaxLosses = 1
  MaxRestarts = 1
SPECIFICATION ActionsSpec
INVARIANTS ActionsSound DecidedOnce ReportSurvivesOneLoss
CHECK_DEADLOCK FALSE
SYMMETRY PanelSymmetry

CONSTANTS
  Panels = {p1, p2}
  MaxPolls = 2
  MaxJobs = 2
  MaxEvents = 4
  NoPanel = NoPanel
SPECIFICATION BridgeSpec
INVARIANTS BridgeSound DeliveredOnce
PROPERTIES BridgeConverges
CHECK_DEADLOCK FALSE

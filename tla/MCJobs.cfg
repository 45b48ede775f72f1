CONSTANTS
  MaxJobs = 2
  Items = 2
  Plans = {plan}
  PlanSize = 1
  Approvals = {popover, mcp}
  NoPlan = NoPlan
  MaxRestarts = 1
SPECIFICATION JobsSpec
INVARIANTS JobsSound CancelsHold PlanRunsOnce
PROPERTIES BatchesEnd
CHECK_DEADLOCK FALSE

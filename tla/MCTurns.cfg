CONSTANTS
  MaxTurns = 3
  MaxPrompts = 2
  MaxEvents = 2
SPECIFICATION TurnsSpec
INVARIANTS TurnsSound EndedIsHeard PermissionsEndWithTurn
PROPERTIES StopsAndWaitsEnd
CHECK_DEADLOCK FALSE

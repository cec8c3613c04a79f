CONSTANTS
  Installs <- MCInstalls
  Modes <- MCModes
  Daemons = {d1}
  Clis = {1, 2}
  MaxCommands = 2
  MaxFaults = 1
SPECIFICATION Spec
CHECK_DEADLOCK FALSE
INVARIANTS
  HookFollowsService
  ModeApplies
PROPERTIES
  StopsLeaveNoEngine
  StopsAndBlocksEnd

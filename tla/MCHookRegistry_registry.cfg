SPECIFICATION Spec
CONSTANTS
  Agents = {"claude", "codex"}
  MaxCommands = 3
  MaxEdits = 2
CHECK_DEADLOCK FALSE
INVARIANTS
  RegistryInv
  DisabledEndsWithService
PROPERTIES
  ReportsHold

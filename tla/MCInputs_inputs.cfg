SPECIFICATION Spec
CONSTANTS
  PatchLines <- MCPatchLines
  MaxPatch = 5
  FileSystems <- MCFileSystems
  Components <- MCComponents
  MaxPath = 4
  Records <- MCRecords
  IndexLines <- MCIndexLines
  MaxRecords = 3
  MaxLooks = 2
  ConfigFiles <- MCConfigFiles
  Commands <- MCCommands
CHECK_DEADLOCK FALSE
INVARIANTS
  PatchesAreJudged
  ResolvedIsWhereItLands
  NamesAreCurrent
  SettingsAgree

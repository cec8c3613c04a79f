CONSTANTS
  Calls <- MCCalls
  Names <- MCNames
  Commands <- MCCommands
  Enrols <- MCEnrols
  Keys <- MCKeys
  OldKeys <- MCOldKeys
  Rps <- MCRps
  MaxTyped = 2
  MaxEdits = 1
  MaxRestarts = 1
SPECIFICATION Spec
CHECK_DEADLOCK FALSE

  
PROPERTIES
  ReleasedAsMeant
  WatchPromptsOnce

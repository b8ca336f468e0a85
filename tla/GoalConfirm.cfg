SPECIFICATION Spec
CONSTANTS
  MaxGoals = 1
  MaxTasks = 3
  MaxAttempts = 3
  MaxCrashes = 0
  Kinds <- MCKinds
  Action <- MCAction
  Awaits <- MCAwaits
  Inputs <- MCInputs
  Prefixed <- MCPrefixed
  Asks <- MCAsksRead
  Forbidden <- MCForbidden
  Plans <- MCSingle
  Replacements <- MCReplacements
  Session <- MCSession
PROPERTY Confirmed
CHECK_DEADLOCK FALSE

SPECIFICATION Spec
CONSTANTS
  MaxGoals = 1
  MaxTasks = 3
  MaxAttempts = 2
  MaxCrashes = 0
  Kinds <- MCKinds
  Action <- MCAction
  Awaits <- MCAwaits
  Inputs <- MCInputs
  Prefixed <- MCPrefixed
  Asks <- MCAsksRead
  Forbidden <- MCForbidden
  Plans <- MCInput
  Replacements <- MCReplacements
  Session <- MCSession
PROPERTY InputPauses
CHECK_DEADLOCK FALSE

SPECIFICATION Spec
CONSTANTS
  MaxGoals = 2
  MaxTasks = 5
  MaxAttempts = 2
  MaxCrashes = 1
  Kinds <- MCKinds
  Action <- MCAction
  Awaits <- MCAwaits
  Inputs <- MCInputs
  Prefixed <- MCPrefixed
  Asks <- MCAsks
  Forbidden <- MCForbidden
  Plans <- MCPlans
  Replacements <- MCReplacements
  Session <- MCSession
INVARIANTS TypeOK DepsDone Consent GoalDone Noticed
PROPERTIES Ended Recorded RunnerEnds ImplementsWorkflow
CHECK_DEADLOCK FALSE

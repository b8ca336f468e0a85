SPECIFICATION Spec
CONSTANTS
  NoValue = NoValue
  NoProfile = NoProfile
  NoApproval = NoApproval
  run_command = run_command
  git_push = git_push
  spawn_agent = spawn_agent
  deploy = deploy
  telegram = telegram
  g1 = g1
  g2 = g2
  s1 = s1
  s2 = s2
  gitPush = gitPush
  git = git
  make = make
  HasProject = TRUE
  HasHome = TRUE
  ActionTypes <- MCTypes
  HighByDefault <- MCHigh
  ActionLevels <- MCActionLevels
  SkillLevels <- MCSkillLevels
  PlatformLevels <- MCPlatformLevels
  Starts <- MCStarts
  Goals = {g1, g2}
  Requests <- MCRequests
  Agents <- MCAgents
  RuleChoices <- MCRules
  Intents <- MCIntents
  MaxAgents = 1
  MaxRules = 2
  MaxRuns = 2
INVARIANTS TypeOK Lawful Elevated NoneLeft Slots
PROPERTIES RuleEffect Ends
CHECK_DEADLOCK FALSE

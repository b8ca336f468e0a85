------------------------------ MODULE MCTaskRuns ------------------------------
(* Two goals, of two sessions.  "make" is a low risk command unless its skill   *)
(* says otherwise, "push" a high risk one, "helper" a sub-agent.                *)
EXTENDS TaskRuns, TLC

CONSTANTS run_command, git_push, spawn_agent, deploy, telegram, g1, g2, s1, s2,
          gitPush, git, make

MCTypes == {run_command, git_push, spawn_agent}
MCHigh == {git_push}
MCActionLevels == [t \in {} |-> "low"]
MCSkillLevels == deploy :> "Confirm"
MCPlatformLevels == telegram :> "low"
MCStarts == {<<gitPush, git>>, <<gitPush, gitPush>>, <<make, make>>}

Request(type, skill, platform, session, command) ==
  [type |-> type, skill |-> skill, platform |-> platform, session |-> session,
   command |-> command, file |-> NoValue]

Make == Request(run_command, deploy, telegram, s1, make)
Push == Request(git_push, NoValue, NoValue, s2, gitPush)
Helper == Request(spawn_agent, NoValue, telegram, s1, NoValue)

MCRequests == {Make, Push, Helper}
MCAgents == {Helper}
MCRules ==
  {AllowForSession(s1, NoValue), AllowForSession(s2, git_push),
   AllowPrefix("command_prefix", make, run_command),
   DenyPrefix("command_prefix", git, NoValue)}
MCIntents ==
  [requested : {NoProfile, "full", "minimal"}, network : BOOLEAN, reads : {FALSE}, writes : BOOLEAN]
=============================================================================

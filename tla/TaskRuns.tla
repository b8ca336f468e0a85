------------------------------- MODULE TaskRuns -------------------------------
(* What is carried out on behalf of goals, and what is left of it: the engine   *)
(* has each task approved, and then runs a command in a container               *)
(* (sandbox/docker.py) or a sub-agent (agents/manager.py).                      *)
(*                                                                              *)
(* Each goal runs its tasks one after the other; goals, the executor's threads, *)
(* which run the containers, and sub-agents run side by side.  A run is         *)
(* numbered in the order of the approvals.                                      *)
EXTENDS Approval, SandboxPolicy, FiniteSets

CONSTANTS Goals,        (* the goals that are being run                         *)
          Requests,     (* the tasks, as the pipeline is asked about them       *)
          Agents,       (* those of them that are sub-agents                    *)
          RuleChoices,  (* rules that users add                                 *)
          Intents,      (* what resolve_execution_policy is asked               *)
          MaxAgents,    (* max_agents                                           *)
          MaxRules,     (* bound: rules                                         *)
          MaxRuns       (* bound: runs                                          *)

ASSUME TaskRunsAssumption ==
  /\ NoApproval \notin {"allow", "ask", "deny"}
  /\ Agents \subseteq Requests
  /\ MaxAgents \in Nat \ {0} /\ MaxRules \in Nat /\ MaxRuns \in Nat

VARIABLES rules,     (* table approval_rules                                    *)
          runs,      (* the runs: their goal and request, how many rules there  *)
                     (* were when they were approved, how far they are, and     *)
                     (* the events on the sub-agents' bus                       *)
          tracked,   (* SandboxManager._containers                              *)
          docker,    (* containers that were started and exist                  *)
          cleaning,  (* the containers cleanup() has yet to look at             *)
          stray      (* history: containers their own thread failed to remove   *)

vars == <<rules, runs, tracked, docker, cleaning, stray>>

Ids == DOMAIN runs
At(n, stage) == n \in Ids /\ runs[n].stage = stage
Busy(g) == \E n \in Ids : runs[n].goal = g /\ runs[n].stage # "over"
IsAgent(n) == runs[n].req \in Agents

(* A sub-agent's record has the status that was published last.                 *)
Status(n) == runs[n].events[Len(runs[n].events)]
Running == {n \in Ids : IsAgent(n) /\ Status(n) = "running"}

Init ==
  /\ rules = <<>> /\ runs = <<>>
  /\ tracked = {} /\ docker = {} /\ cleaning = {} /\ stray = {}

-----------------------------------------------------------------------------
(* Users.                                                                       *)

(* Fault: the rule is stored with the outcome it leads to as its mode.          *)
AddRuleOutcome(r) ==
  /\ Len(rules) < MaxRules
  /\ rules' = Append(rules, [r EXCEPT !.mode = "allow"])
  /\ UNCHANGED <<runs, tracked, docker, cleaning, stray>>

AddRule(r) ==
  /\ Len(rules) < MaxRules
  /\ rules' = Append(rules, r)
  /\ UNCHANGED <<runs, tracked, docker, cleaning, stray>>

-----------------------------------------------------------------------------
(* Goals.                                                                       *)

(* A task that is denied or needs an answer is not run; nor is a sub-agent that *)
(* would be one too many, by the records that say they are running.  For a      *)
(* command a thread is asked, for a sub-agent a task is created.                *)
Start(g, q) ==
  /\ ~Busy(g) /\ Len(runs) < MaxRuns
  /\ Evaluate(rules, q).outcome = "allow"
  /\ q \in Agents => Cardinality(Running) < MaxAgents
  /\ runs' = Append(runs, [goal |-> g, req |-> q, seen |-> Len(rules),
                           stage |-> IF q \in Agents THEN "spawned" ELSE "queued",
                           events |-> IF q \in Agents THEN <<"spawned">> ELSE <<>>])
  /\ UNCHANGED <<rules, tracked, docker, cleaning, stray>>

Move(n, from, to) == At(n, from) /\ runs' = [runs EXCEPT ![n].stage = to]

-----------------------------------------------------------------------------
(* Commands: _execute_sync, on a thread.                                        *)

(* What exec_sandbox asks for, without a decision; execute() takes the profile  *)
(* alone, with the project read-only.                                           *)
TaskIntent == [requested |-> NoProfile, network |-> TRUE, reads |-> TRUE, writes |-> FALSE]
TaskProfile == GetProfile(Resolve(TaskIntent, NoApproval).profile.name, "ro")

Register(n) ==
  /\ Move(n, "queued", "registered")
  /\ tracked' = tracked \cup {n}
  /\ UNCHANGED <<rules, docker, cleaning, stray>>

(* The container runs before the manager knows its id.                          *)
Create(n) ==
  /\ Move(n, "registered", "created")
  /\ docker' = docker \cup {n}
  /\ UNCHANGED <<rules, tracked, cleaning, stray>>

(* A container that was created and does not start is left behind by Docker's   *)
(* library, but runs nothing.                                                   *)
CreateFails(n) ==
  /\ Move(n, "registered", "removed")
  /\ UNCHANGED <<rules, tracked, docker, cleaning, stray>>

SetId(n) ==
  /\ Move(n, "created", "waiting")
  /\ UNCHANGED <<rules, tracked, docker, cleaning, stray>>

(* The command ends, or wait() raises: at the timeout, or because the container *)
(* is gone; then it is killed.                                                  *)
Exits(n) ==
  /\ n \in docker
  /\ Move(n, "waiting", "ended")
  /\ UNCHANGED <<rules, tracked, docker, cleaning, stray>>

(* Fault: a timeout returns at once, past the removal.                          *)
WaitRaisesOut(n) ==
  /\ Move(n, "waiting", "removed")
  /\ UNCHANGED <<rules, tracked, docker, cleaning, stray>>

WaitRaises(n) ==
  /\ Move(n, "waiting", "ended")
  /\ UNCHANGED <<rules, tracked, docker, cleaning, stray>>

(* Fault: it waits for a container that is gone already.                        *)
RemoveWaits(n) ==
  /\ n \in docker
  /\ Move(n, "ended", "removed")
  /\ docker' = docker \ {n}
  /\ UNCHANGED <<rules, tracked, cleaning, stray>>

(* In the finally clause, also when someone else removed it already.            *)
Remove(n) ==
  /\ Move(n, "ended", "removed")
  /\ docker' = docker \ {n}
  /\ UNCHANGED <<rules, tracked, cleaning, stray>>

(* The removal raises: the exception is swallowed, and the container stays.     *)
RemoveFails(n) ==
  /\ n \in docker
  /\ Move(n, "ended", "removed")
  /\ stray' = stray \cup {n}
  /\ UNCHANGED <<rules, tracked, docker, cleaning>>

Untrack(n) ==
  /\ Move(n, "removed", "over")
  /\ tracked' = tracked \ {n}
  /\ UNCHANGED <<rules, docker, cleaning, stray>>

(* cleanup(), on another thread: it goes through the containers that are        *)
(* tracked, skips those whose id is not known, and then forgets all.            *)
Cleanup ==
  /\ cleaning = {} /\ tracked # {}
  /\ cleaning' = tracked
  /\ UNCHANGED <<rules, runs, tracked, docker, stray>>

(* It looks for the container by its id, and removes it; if either raises, that *)
(* is swallowed and the container stays.                                        *)
HasId(n) == runs[n].stage \in {"waiting", "ended", "removed", "over"}
CleanOne(n) ==
  /\ n \in cleaning
  /\ docker' = docker \/ (HasId(n) /\ docker' = docker \ {n})
  /\ cleaning' = cleaning \ {n}
  /\ tracked' = IF cleaning = {n} THEN {} ELSE tracked
  /\ UNCHANGED <<rules, runs, stray>>

-----------------------------------------------------------------------------
(* Sub-agents: _run_record, in a task of its own, and run_subagent, which waits *)
(* for it.                                                                      *)

Publish(n, from, to, status) ==
  /\ At(n, from)
  /\ runs' = [runs EXCEPT ![n].stage = to, ![n].events = Append(@, status)]
  /\ UNCHANGED <<rules, tracked, docker, cleaning, stray>>

Begin(n) == Publish(n, "spawned", "thinking", "running")
Concludes(n) == Publish(n, "thinking", "joined", "done")

(* Fault: the timeout is raised, and the record left as it is.                  *)
FailsSilently(n) ==
  /\ Move(n, "thinking", "joined")
  /\ UNCHANGED <<rules, tracked, docker, cleaning, stray>>

(* By a timeout or an error.                                                    *)
Fails(n) == Publish(n, "thinking", "joined", "failed")

(* The result, or the exception, reaches the goal.                              *)
Join(n) ==
  /\ Move(n, "joined", "over")
  /\ UNCHANGED <<rules, tracked, docker, cleaning, stray>>

(* Whoever waits is cancelled, and the sub-agent with it: no Exception, so that *)
(* the record keeps its status.                                                 *)
Cancel(n) ==
  /\ n \in Ids /\ runs[n].stage \in {"spawned", "thinking"}
  /\ runs' = [runs EXCEPT ![n].stage = "over"]
  /\ UNCHANGED <<rules, tracked, docker, cleaning, stray>>

-----------------------------------------------------------------------------
Step(n) ==
  \/ Register(n) \/ Create(n) \/ CreateFails(n) \/ SetId(n)
  \/ Exits(n) \/ WaitRaises(n) \/ Remove(n) \/ RemoveFails(n) \/ Untrack(n)
  \/ Begin(n) \/ Concludes(n) \/ Fails(n) \/ Join(n)

Next ==
  \/ \E r \in RuleChoices : AddRule(r)
  \/ \E g \in Goals, q \in Requests : Start(g, q)
  \/ \E n \in Ids : Step(n) \/ Cancel(n)
  \/ Cleanup
  \/ \E n \in cleaning : CleanOne(n)

(* A thread and a task go on, and both waits have a timeout.                    *)
Fairness == \A n \in 1 .. MaxRuns : WF_vars(Step(n))

Spec == Init /\ [][Next]_vars /\ Fairness

-----------------------------------------------------------------------------
SandboxStages == {"queued", "registered", "created", "waiting", "ended", "removed"}
AgentStages == {"spawned", "thinking", "joined"}

TypeOK ==
  /\ \A i \in DOMAIN rules : rules[i] \in RuleChoices
  /\ \A n \in Ids :
       /\ runs[n].goal \in Goals /\ runs[n].req \in Requests
       /\ runs[n].seen \in 0 .. Len(rules)
       /\ runs[n].stage \in {"over"} \cup (IF IsAgent(n) THEN AgentStages ELSE SandboxStages)
  /\ tracked \subseteq Ids /\ docker \subseteq Ids /\ cleaning \subseteq Ids /\ stray \subseteq Ids

(* Nothing is run against a rule: when it was approved, no rule that denies it  *)
(* was stored, in whatever order rules were added, and it was not risky or a    *)
(* rule allowed it.                                                             *)
Allows(q, seen) ==
  LET Applies(mode, i) == rules[i].mode = mode /\ Covers(rules[i], q) IN
  /\ \A i \in 1 .. seen : ~Applies("deny", i)
  /\ \/ ~RequiresConfirmation(q)
     \/ \E i \in 1 .. seen, mode \in Allowing : Applies(mode, i)
Lawful == \A n \in Ids : Allows(runs[n].req, runs[n].seen)

(* A new rule changes the outcome only of what it covers; a rule that denies    *)
(* has the last word, and one that allows only spares the question.             *)
RuleEffect ==
  [][\A q \in Requests :
       LET was == Evaluate(rules, q).outcome
           is == Evaluate(rules', q).outcome
           new == rules'[Len(rules')] IN
       was # is =>
         /\ Covers(new, q)
         /\ IF new.mode = "deny" THEN is = "deny" ELSE was = "ask" /\ is = "allow"]_rules

(* A policy that is resolved for a command once that was evaluated is cleared   *)
(* for the user's home, or for writing the project, only if a rule or its low   *)
(* risk allows the command; and for the project only if it is to write it.      *)
Elevated ==
  \A intent \in Intents, q \in Requests :
    LET is == Resolve(intent, Evaluate(rules, q).outcome) IN
    is.executionAllowed /\ ~is.requiresApproval =>
      /\ is.profile.home = "rw" => Allows(q, Len(rules))
      /\ is.profile.project = "rw" => intent.writes /\ Allows(q, Len(rules))

(* Nothing is left of a command: a container, and the manager's note of it, are *)
(* there only while its thread is at work, whether it ended, timed out or was   *)
(* cleaned up meanwhile.  The one exception is a container that its own thread  *)
(* failed to remove: that is swallowed, and nothing in the manager remembers    *)
(* it; a cleanup that fails leaves nothing.  What a task runs in cannot write   *)
(* the project or home.                                                         *)
NoneLeft ==
  /\ \A n \in docker : runs[n].stage \in {"created", "waiting", "ended"} \/ n \in stray
  /\ \A n \in tracked : runs[n].stage \in SandboxStages
  /\ docker # {} => TaskProfile.project # "rw" /\ TaskProfile.home # "rw"

(* No slot is lost to a sub-agent that ended or failed: a record that says it   *)
(* is running is of one that is, or of one that was cancelled.  Each has told   *)
(* its story in order.                                                          *)
Slots ==
  \A n \in Ids : IsAgent(n) =>
    /\ runs[n].events \in {<<"spawned">>, <<"spawned", "running">>,
                           <<"spawned", "running", "done">>, <<"spawned", "running", "failed">>}
    /\ runs[n].stage = "spawned" => Status(n) = "spawned"
    /\ runs[n].stage = "thinking" <=> runs[n].stage # "over" /\ Status(n) = "running"

(* Whatever was started ends, and the goal goes on.                             *)
Ends == \A n \in 1 .. MaxRuns : n \in Ids ~> At(n, "over")
=============================================================================

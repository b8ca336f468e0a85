----------------------------- MODULE GoalEngine -----------------------------
(* Goals and their tasks: planner/engine.py, planner/executor.py,               *)
(* planner/approval.py and planner/store.py, driven by CoreLoop.handle_event    *)
(* (core/loop.py), which starts goals, routes the answers of users to blocked   *)
(* goals and runs each goal in a background coroutine.                          *)
(*                                                                              *)
(* Everything runs on one asyncio event loop, so code between two suspension    *)
(* points is not interleaved: the variable loop names the coroutine that runs.  *)
(* The code suspends only to wait for the model, or for a sub-agent: to plan, to *)
(* execute some kinds of tasks, and to replan.  Every write to the store is     *)
(* committed at once, and a crash may come between any two actions.             *)
EXTENDS Integers, Sequences

CONSTANTS MaxGoals,      (* bound: goals, numbered in order of creation         *)
          MaxTasks,      (* bound: tasks of a goal, replacements included       *)
          Kinds,         (* the tasks a plan may hold: type and instruction     *)
          Action,        (* _TASK_ACTION_MAP: the action type of each kind      *)
          Awaits,        (* kinds whose execution suspends the coroutine        *)
          Inputs,        (* WAIT_INPUT, CREDENTIAL_REQUEST                      *)
          Prefixed,      (* kinds with a command or a file path                 *)
          Asks,          (* action types that need a confirmation               *)
          Forbidden,     (* kinds that a stored deny rule matches               *)
          Plans,         (* what the model may plan: sequences of [kind, deps]  *)
          Replacements,  (* what it may replace a failed task with: sequences   *)
                         (* of kinds                                            *)
          Session,       (* approval_session_id, source:channel, of each goal   *)
          MaxAttempts,   (* Task.max_attempts                                   *)
          MaxCrashes     (* bound: crashes and restarts of the process          *)

Goals == 1 .. MaxGoals
Slots == 1 .. MaxTasks

ASSUME BoundAssumption ==
  /\ MaxGoals \in Nat /\ MaxTasks \in Nat /\ MaxCrashes \in Nat
  /\ MaxAttempts \in Nat \ {0}

ASSUME KindAssumption ==
  /\ Awaits \subseteq Kinds /\ Inputs \subseteq Kinds
  /\ Prefixed \subseteq Kinds /\ Forbidden \subseteq Kinds
  /\ "none" \notin Kinds

(* depends_on_indices can only resolve to tasks that were planned before.       *)
ASSUME PlanAssumption ==
  /\ \A plan \in Plans :
       /\ plan \in Seq([kind : Kinds, deps : SUBSET Slots])
       /\ Len(plan) <= MaxTasks
       /\ \A i \in 1 .. Len(plan) : plan[i].deps \subseteq 1 .. i - 1
  /\ Replacements \subseteq Seq(Kinds)

VARIABLES gstatus,   (* goals.status                                            *)
          tstatus,   (* tasks.status, "absent" when there is no such task       *)
          kind,      (* tasks.task_type and tasks.instruction                   *)
          deps,      (* tasks.depends_on                                        *)
          attempts,  (* tasks.attempts                                          *)
          rules,     (* approval_rules with a mode that allows                  *)
          runner,    (* where the goal's background coroutine is, "off" if none *)
          batch,     (* what is left of the ready_tasks of its current step     *)
          at,        (* the task it executes or replans, 0 if none              *)
          ran,       (* result.executed is not empty                            *)
          consumer,  (* where the consumer of the event queue is                *)
          loop,      (* the goal whose coroutine has the event loop, 0 if none  *)
          crashes    (* history: crashes so far                                 *)

store == <<gstatus, tstatus, kind, deps, attempts, rules>>
volatile == <<runner, batch, at, ran, consumer, loop>>
vars == <<store, volatile, crashes>>

GoalStatuses == {"none", "planning", "executing", "blocked", "done", "failed"}
TaskStatuses == {"absent", "pending", "running", "blocked", "done", "failed", "skipped"}
RunnerStates == {"off", "new", "step", "batch", "exec", "replan"}
Idle == [phase |-> "idle", goal |-> 0, task |-> 0]

First(i, S) == i \in S /\ \A j \in S : i <= j
Last(i, S) == i \in S /\ \A j \in S : j <= i

Terminal == {"done", "skipped", "failed"}
Tasks(g) == {t \in Slots : tstatus[g][t] # "absent"}
TaskCount(g) == CHOOSE n \in 0 .. MaxTasks : Tasks(g) = 1 .. n

Init ==
  /\ gstatus = [g \in Goals |-> "none"]
  /\ tstatus = [g \in Goals |-> [t \in Slots |-> "absent"]]
  /\ kind = [g \in Goals |-> [t \in Slots |-> "none"]]
  /\ deps = [g \in Goals |-> [t \in Slots |-> {}]]
  /\ attempts = [g \in Goals |-> [t \in Slots |-> 0]]
  /\ rules = {}
  /\ runner = [g \in Goals |-> "off"]
  /\ batch = [g \in Goals |-> {}]
  /\ at = [g \in Goals |-> 0]
  /\ ran = [g \in Goals |-> FALSE]
  /\ consumer = Idle
  /\ loop = 0
  /\ crashes = 0

-----------------------------------------------------------------------------
(* Approval.                                                                    *)

SessionRule(g, k) == <<"session", Session[g], Action[k]>>
PrefixRule(k) == <<"prefix", k, Action[k]>>
Granted(g, k) == {SessionRule(g, k), PrefixRule(k)} \cap rules # {}

(* Fault: the session of the rule is not compared.                              *)
VerdictAnySession(g, k) ==
  IF k \in Forbidden THEN "deny"
  ELSE IF Action[k] \in Asks /\ \A h \in Goals : ~Granted(h, k) THEN "block" ELSE "allow"

(* evaluate_task: a deny rule wins over an allow rule, that over the policy.    *)
Verdict(g, k) ==
  IF k \in Forbidden THEN "deny"
  ELSE IF Action[k] \in Asks /\ ~Granted(g, k) THEN "block" ELSE "allow"

-----------------------------------------------------------------------------
(* The consumer: handle_event for "goal: ..." and for answers.                  *)

(* The newest blocked goal of the session takes every message of the channel.   *)
BlockedGoals(s) == {g \in Goals : gstatus[g] = "blocked" /\ Session[g] = s}
FindBlocked(g) == Last(g, BlockedGoals(Session[g]))

LoopFree == loop = 0 /\ consumer.phase # "resuming"

(* The consumer takes its next event through an executor, and a coroutine that  *)
(* was created before starts first.                                             *)
ConsumerFree ==
  /\ consumer = Idle
  /\ LoopFree
  /\ \A g \in Goals : runner[g] # "new"

(* _start_goal, create_plan: the goal is saved, the model is asked for a plan.  *)
StartGoal(g) ==
  /\ ConsumerFree
  /\ gstatus[g] = "none" /\ \A h \in 1 .. g - 1 : gstatus[h] # "none"
  /\ BlockedGoals(Session[g]) = {}
  /\ gstatus' = [gstatus EXCEPT ![g] = "planning"]
  /\ consumer' = [phase |-> "planning", goal |-> g, task |-> 0]
  /\ UNCHANGED <<tstatus, kind, deps, attempts, rules, runner, batch, at, ran, loop, crashes>>

(* The plan is saved as a draft, approved, and the coroutine is created.        *)
PlanReady(plan) ==
  LET g == consumer.goal IN
  /\ consumer.phase = "planning"
  /\ LoopFree
  /\ tstatus' = [tstatus EXCEPT ![g] =
                   [t \in Slots |-> IF t <= Len(plan) THEN "pending" ELSE "absent"]]
  /\ kind' = [kind EXCEPT ![g] =
                [t \in Slots |-> IF t <= Len(plan) THEN plan[t].kind ELSE kind[g][t]]]
  /\ deps' = [deps EXCEPT ![g] =
                [t \in Slots |-> IF t <= Len(plan) THEN plan[t].deps ELSE {}]]
  /\ gstatus' = [gstatus EXCEPT ![g] = "executing"]
  /\ runner' = [runner EXCEPT ![g] = "new"]
  /\ consumer' = Idle
  /\ UNCHANGED <<attempts, rules, batch, at, ran, loop, crashes>>

(* "Failed to plan goal": the goal stays in PLANNING.                           *)
PlanFails ==
  /\ consumer.phase = "planning"
  /\ LoopFree
  /\ consumer' = Idle
  /\ UNCHANGED <<store, runner, batch, at, ran, loop, crashes>>

(* Fault: the first task that was not finished, whatever it waits for.          *)
AnsweredLoose(g) == {t \in Tasks(g) : tstatus[g][t] # "done"}

(* The blocked tasks of a goal; an answer is for the first.                     *)
Answered(g) == {t \in Tasks(g) : tstatus[g][t] = "blocked"}

(* Fault: the coroutine is created even if the goal has one.                    *)
WakeAlways(g) == [runner EXCEPT ![g] = "new"]

(* Unless the goal has a coroutine, one is created.                             *)
Wake(g) == [runner EXCEPT ![g] = IF @ = "off" THEN "new" ELSE @]

(* "no": the task has failed; the goal stays BLOCKED until the coroutine sees.  *)
Deny(g, t) ==
  /\ ConsumerFree /\ FindBlocked(g) /\ First(t, Answered(g))
  /\ kind[g][t] \notin Inputs
  /\ tstatus' = [tstatus EXCEPT ![g][t] = "failed"]
  /\ runner' = Wake(g)
  /\ UNCHANGED <<gstatus, kind, deps, attempts, rules, batch, at, ran, consumer, loop, crashes>>

(* What an answer may grant: nothing, the session, or the command or path.      *)
Grants(g, k) ==
  {{}, {SessionRule(g, k)}} \cup (IF k \in Prefixed THEN {{PrefixRule(k)}} ELSE {})

(* Any other answer: what it grants is recorded, the task goes back to PENDING. *)
Confirm(g, t) ==
  /\ ConsumerFree /\ FindBlocked(g) /\ First(t, Answered(g))
  /\ kind[g][t] \notin Inputs
  /\ \E grant \in Grants(g, kind[g][t]) : rules' = rules \cup grant
  /\ tstatus' = [tstatus EXCEPT ![g][t] = "pending"]
  /\ consumer' = [phase |-> "resuming", goal |-> g, task |-> t]
  /\ UNCHANGED <<gstatus, kind, deps, attempts, runner, batch, at, ran, loop, crashes>>

(* A blocked WAIT_INPUT or CREDENTIAL_REQUEST takes any text as its result.     *)
Supply(g, t) ==
  /\ ConsumerFree /\ FindBlocked(g) /\ First(t, Answered(g))
  /\ kind[g][t] \in Inputs
  /\ tstatus' = [tstatus EXCEPT ![g][t] = "done"]
  /\ consumer' = [phase |-> "resuming", goal |-> g, task |-> t]
  /\ UNCHANGED <<gstatus, kind, deps, attempts, rules, runner, batch, at, ran, loop, crashes>>

(* "No blocked task found matching this input": the goal is run all the same.   *)
Stray(g) ==
  /\ ConsumerFree /\ FindBlocked(g) /\ Answered(g) = {}
  /\ runner' = Wake(g)
  /\ UNCHANGED <<store, batch, at, ran, consumer, loop, crashes>>

(* The goal is EXECUTING again and its coroutine is created.                    *)
Resume ==
  LET g == consumer.goal IN
  /\ consumer.phase = "resuming"
  /\ gstatus' = [gstatus EXCEPT ![g] = "executing"]
  /\ runner' = Wake(g)
  /\ consumer' = Idle
  /\ UNCHANGED <<tstatus, kind, deps, attempts, rules, batch, at, ran, loop, crashes>>

-----------------------------------------------------------------------------
(* The goal's coroutine: run_goal calls step until the goal ends, is blocked,   *)
(* or a step has executed nothing.                                              *)

(* Fault: a dependency that has ended in any way counts.                        *)
ReadyLoose(g) ==
  {t \in Tasks(g) : /\ tstatus[g][t] = "pending"
                    /\ \A d \in deps[g][t] : tstatus[g][d] \in Terminal}

(* get_ready_tasks                                                              *)
Ready(g) ==
  {t \in Tasks(g) : /\ tstatus[g][t] = "pending"
                    /\ \A d \in deps[g][t] : tstatus[g][d] = "done"}

(* Fault: tasks that failed are not counted.                                    *)
CompletionBlind(g) ==
  LET left == {t \in Tasks(g) : tstatus[g][t] \notin Terminal} IN
  IF left = {} THEN "done"
  ELSE IF \A t \in left : tstatus[g][t] = "blocked" THEN "blocked"
  ELSE gstatus[g]

(* _check_goal_completion: what it writes, the old status if nothing.           *)
Completion(g) ==
  LET left == {t \in Tasks(g) : tstatus[g][t] \notin Terminal} IN
  IF left = {} THEN IF \E t \in Tasks(g) : tstatus[g][t] = "failed" THEN "failed" ELSE "done"
  ELSE IF \A t \in left : tstatus[g][t] = "blocked" THEN "blocked"
  ELSE gstatus[g]

(* It wrote a status, and run_goal stops.                                       *)
Completed(g) == \A t \in Tasks(g) : tstatus[g][t] \in Terminal \cup {"blocked"}

(* A coroutine that starts, or goes on with another step.                       *)
Stepping(g) == \/ runner[g] = "new" /\ LoopFree
               \/ runner[g] = "step" /\ loop = g

(* A goal that has ended is left as it is.                                      *)
StepEnded(g) ==
  /\ Stepping(g)
  /\ gstatus[g] \in {"done", "failed"}
  /\ runner' = [runner EXCEPT ![g] = "off"]
  /\ loop' = 0
  /\ UNCHANGED <<store, batch, at, ran, consumer, crashes>>

(* Fault: run_goal stops without a look at what is left.                        *)
StepIdleForgets(g) ==
  /\ Stepping(g)
  /\ gstatus[g] \notin {"done", "failed"}
  /\ Ready(g) = {}
  /\ runner' = [runner EXCEPT ![g] = "off"]
  /\ loop' = 0
  /\ UNCHANGED <<store, batch, at, ran, consumer, crashes>>

(* Fault: run_goal goes on although the step has executed nothing.              *)
StepIdleSpins(g) ==
  /\ Stepping(g)
  /\ gstatus[g] \notin {"done", "failed"}
  /\ Ready(g) = {}
  /\ gstatus' = [gstatus EXCEPT ![g] = Completion(g)]
  /\ runner' = [runner EXCEPT ![g] = IF Completed(g) THEN "off" ELSE "step"]
  /\ loop' = IF Completed(g) THEN 0 ELSE g
  /\ UNCHANGED <<tstatus, kind, deps, attempts, rules, batch, at, ran, consumer, crashes>>

(* No task is ready: the completion is checked, and run_goal stops.             *)
StepIdle(g) ==
  /\ Stepping(g)
  /\ gstatus[g] \notin {"done", "failed"}
  /\ Ready(g) = {}
  /\ gstatus' = [gstatus EXCEPT ![g] = Completion(g)]
  /\ runner' = [runner EXCEPT ![g] = "off"]
  /\ loop' = 0
  /\ UNCHANGED <<tstatus, kind, deps, attempts, rules, batch, at, ran, consumer, crashes>>

(* The ready tasks are loaded, once for the whole step.                         *)
StepReady(g) ==
  /\ Stepping(g)
  /\ gstatus[g] \notin {"done", "failed"}
  /\ Ready(g) # {}
  /\ batch' = [batch EXCEPT ![g] = Ready(g)]
  /\ ran' = [ran EXCEPT ![g] = FALSE]
  /\ runner' = [runner EXCEPT ![g] = "batch"]
  /\ loop' = g
  /\ UNCHANGED <<store, at, consumer, crashes>>

(* The next task of the batch, in order of creation.                            *)
NextTask(g, t) ==
  /\ runner[g] = "batch" /\ loop = g
  /\ First(t, batch[g])

(* Denied by a rule, or blocked until the user answers.                         *)
TaskStopped(g, t) ==
  /\ NextTask(g, t)
  /\ Verdict(g, kind[g][t]) # "allow"
  /\ tstatus' = [tstatus EXCEPT ![g][t] =
                   IF Verdict(g, kind[g][t]) = "deny" THEN "failed" ELSE "blocked"]
  /\ batch' = [batch EXCEPT ![g] = @ \ {t}]
  /\ UNCHANGED <<gstatus, kind, deps, attempts, rules, runner, at, ran, consumer, loop, crashes>>

(* The task is marked RUNNING and executed.                                     *)
TaskStarts(g, t) ==
  /\ NextTask(g, t)
  /\ Verdict(g, kind[g][t]) = "allow"
  /\ tstatus' = [tstatus EXCEPT ![g][t] = "running"]
  /\ attempts' = [attempts EXCEPT ![g][t] = @ + 1]
  /\ batch' = [batch EXCEPT ![g] = @ \ {t}]
  /\ at' = [at EXCEPT ![g] = t]
  /\ runner' = [runner EXCEPT ![g] = "exec"]
  /\ loop' = IF kind[g][t] \in Awaits THEN 0 ELSE g
  /\ UNCHANGED <<gstatus, kind, deps, rules, ran, consumer, crashes>>

(* The execution has returned or raised, and the coroutine has the loop.        *)
Executed(g) ==
  /\ runner[g] = "exec"
  /\ IF kind[g][at[g]] \in Awaits THEN LoopFree ELSE loop = g

TaskDone(g) ==
  /\ Executed(g)
  /\ kind[g][at[g]] \notin Inputs
  /\ tstatus' = [tstatus EXCEPT ![g][at[g]] = "done"]
  /\ ran' = [ran EXCEPT ![g] = TRUE]
  /\ at' = [at EXCEPT ![g] = 0]
  /\ runner' = [runner EXCEPT ![g] = "batch"]
  /\ loop' = g
  /\ UNCHANGED <<gstatus, kind, deps, attempts, rules, batch, consumer, crashes>>

(* Fault: one attempt more than max_attempts.                                   *)
TaskRetriesOffByOne(g) ==
  /\ Executed(g)
  /\ attempts[g][at[g]] <= MaxAttempts
  /\ tstatus' = [tstatus EXCEPT ![g][at[g]] = "pending"]
  /\ at' = [at EXCEPT ![g] = 0]
  /\ runner' = [runner EXCEPT ![g] = "batch"]
  /\ loop' = g
  /\ UNCHANGED <<gstatus, kind, deps, attempts, rules, batch, ran, consumer, crashes>>

(* An attempt failed and attempts are left.  WAIT_INPUT and CREDENTIAL_REQUEST  *)
(* always raise TaskBlocked: the BLOCKED that the executor wrote is replaced by *)
(* what step writes for any exception.                                          *)
TaskRetries(g) ==
  /\ Executed(g)
  /\ attempts[g][at[g]] < MaxAttempts
  /\ tstatus' = [tstatus EXCEPT ![g][at[g]] = "pending"]
  /\ at' = [at EXCEPT ![g] = 0]
  /\ runner' = [runner EXCEPT ![g] = "batch"]
  /\ loop' = g
  /\ UNCHANGED <<gstatus, kind, deps, attempts, rules, batch, ran, consumer, crashes>>

(* The last attempt failed: the model is asked what to do.                      *)
TaskFails(g) ==
  /\ Executed(g)
  /\ attempts[g][at[g]] >= MaxAttempts
  /\ tstatus' = [tstatus EXCEPT ![g][at[g]] = "failed"]
  /\ runner' = [runner EXCEPT ![g] = "replan"]
  /\ loop' = 0
  /\ UNCHANGED <<gstatus, kind, deps, attempts, rules, batch, at, ran, consumer, crashes>>

Replanned(g) ==
  /\ runner[g] = "replan" /\ LoopFree
  /\ at' = [at EXCEPT ![g] = 0]
  /\ runner' = [runner EXCEPT ![g] = "batch"]
  /\ loop' = g
  /\ UNCHANGED <<rules, attempts, batch, ran, consumer, crashes>>

(* "retry", or the model did not answer: nothing is done.                       *)
ReplanKeeps(g) ==
  /\ Replanned(g)
  /\ UNCHANGED <<gstatus, tstatus, kind, deps>>

ReplanAborts(g) ==
  /\ Replanned(g)
  /\ gstatus' = [gstatus EXCEPT ![g] = "failed"]
  /\ UNCHANGED <<tstatus, kind, deps>>

ReplanSkips(g) ==
  /\ Replanned(g)
  /\ tstatus' = [tstatus EXCEPT ![g][at[g]] = "skipped"]
  /\ UNCHANGED <<gstatus, kind, deps>>

(* Fault: the new tasks depend on nothing.                                      *)
ReplanReplacesFree(g, new) ==
  LET n == TaskCount(g)
      added == n + 1 .. n + Len(new) IN
  /\ Replanned(g)
  /\ new # <<>> /\ n + Len(new) <= MaxTasks
  /\ tstatus' = [tstatus EXCEPT ![g] =
                   [t \in Slots |-> IF t = at[g] THEN "skipped"
                                    ELSE IF t \in added THEN "pending" ELSE tstatus[g][t]]]
  /\ kind' = [kind EXCEPT ![g] =
                [t \in Slots |-> IF t \in added THEN new[t - n] ELSE kind[g][t]]]
  /\ UNCHANGED <<gstatus, deps>>

(* New tasks with the dependencies of the failed one, which is skipped.  Only   *)
(* the model's bound keeps a plan from being replaced for ever.                 *)
ReplanReplaces(g, new) ==
  LET n == TaskCount(g)
      added == n + 1 .. n + Len(new) IN
  /\ Replanned(g)
  /\ new # <<>> /\ n + Len(new) <= MaxTasks
  /\ tstatus' = [tstatus EXCEPT ![g] =
                   [t \in Slots |-> IF t = at[g] THEN "skipped"
                                    ELSE IF t \in added THEN "pending" ELSE tstatus[g][t]]]
  /\ kind' = [kind EXCEPT ![g] =
                [t \in Slots |-> IF t \in added THEN new[t - n] ELSE kind[g][t]]]
  /\ deps' = [deps EXCEPT ![g] =
                [t \in Slots |-> IF t \in added THEN deps[g][at[g]] ELSE deps[g][t]]]
  /\ UNCHANGED gstatus

(* The batch is through: the completion is checked.  run_goal goes on only if   *)
(* the step executed a task.                                                    *)
StepEnds(g) ==
  LET on == ~Completed(g) /\ ran[g] IN
  /\ runner[g] = "batch" /\ loop = g
  /\ batch[g] = {}
  /\ gstatus' = [gstatus EXCEPT ![g] = Completion(g)]
  /\ runner' = [runner EXCEPT ![g] = IF on THEN "step" ELSE "off"]
  /\ ran' = [ran EXCEPT ![g] = FALSE]
  /\ loop' = IF on THEN g ELSE 0
  /\ UNCHANGED <<tstatus, kind, deps, attempts, rules, batch, at, consumer, crashes>>

-----------------------------------------------------------------------------
(* The process stops and is started again: coroutines are gone, the store       *)
(* stays, and nobody calls recover_running().                                   *)
Crash ==
  /\ crashes < MaxCrashes
  /\ crashes' = crashes + 1
  /\ runner' = [g \in Goals |-> "off"]
  /\ batch' = [g \in Goals |-> {}]
  /\ at' = [g \in Goals |-> 0]
  /\ ran' = [g \in Goals |-> FALSE]
  /\ consumer' = Idle
  /\ loop' = 0
  /\ UNCHANGED store

User(g) ==
  \/ StartGoal(g) \/ Stray(g)
  \/ \E t \in Slots : Deny(g, t) \/ Confirm(g, t) \/ Supply(g, t)

Consume == (\E plan \in Plans : PlanReady(plan)) \/ PlanFails \/ Resume

Run(g) ==
  \/ StepEnded(g) \/ StepIdle(g) \/ StepReady(g) \/ StepEnds(g)
  \/ \E t \in Slots : TaskStopped(g, t) \/ TaskStarts(g, t)
  \/ TaskDone(g) \/ TaskRetries(g) \/ TaskFails(g)
  \/ ReplanKeeps(g) \/ ReplanAborts(g) \/ ReplanSkips(g)
  \/ \E new \in Replacements : ReplanReplaces(g, new)

Next ==
  \/ \E g \in Goals : User(g) \/ Run(g)
  \/ Consume
  \/ Crash

(* Every call of the model returns or raises, and the event loop runs what is   *)
(* ready in the order in which it became ready: a coroutine that others keep    *)
(* from the loop again and again gets it in the end.  Users and crashes owe     *)
(* nothing.                                                                     *)
Spec == Init /\ [][Next]_vars /\ WF_vars(Consume) /\ \A g \in Goals : SF_vars(Run(g))

-----------------------------------------------------------------------------
(* Properties.                                                                  *)

AllRules == {SessionRule(g, k) : g \in Goals, k \in Kinds} \cup {PrefixRule(k) : k \in Kinds}

TypeOK ==
  /\ gstatus \in [Goals -> GoalStatuses]
  /\ tstatus \in [Goals -> [Slots -> TaskStatuses]]
  /\ kind \in [Goals -> [Slots -> Kinds \cup {"none"}]]
  /\ deps \in [Goals -> [Slots -> SUBSET Slots]]
  /\ attempts \in [Goals -> [Slots -> 0 .. MaxAttempts]]
  /\ rules \subseteq AllRules
  /\ runner \in [Goals -> RunnerStates]
  /\ batch \in [Goals -> SUBSET Slots]
  /\ at \in [Goals -> Slots \cup {0}]
  /\ ran \in [Goals -> BOOLEAN]
  /\ consumer \in [phase : {"idle", "planning", "resuming"},
                   goal : Goals \cup {0}, task : Slots \cup {0}]
  /\ loop \in Goals \cup {0}
  /\ crashes \in 0 .. MaxCrashes

(* A task that was ever taken up has the results of all its dependencies: they  *)
(* are DONE then and stay DONE, whatever is skipped, replaced, denied or lost   *)
(* in a crash meanwhile.                                                        *)
DepsDone ==
  \A g \in Goals : \A t \in Tasks(g) :
    tstatus[g][t] # "pending" => \A d \in deps[g][t] : tstatus[g][d] = "done"

(* No task was ever started whose action needs a confirmation, unless a user    *)
(* has granted it, in its session or for its command or path; none a rule       *)
(* denies.  The grant still stands, after a restart too.                        *)
Consent ==
  \A g \in Goals : \A t \in Tasks(g) :
    attempts[g][t] > 0 =>
      /\ kind[g][t] \notin Forbidden
      /\ Action[kind[g][t]] \in Asks => Granted(g, kind[g][t])

(* DONE means that every task is DONE or SKIPPED: no coroutine, replan or late  *)
(* answer changes a task of a goal that was reported as DONE.                   *)
GoalDone ==
  \A g \in Goals : gstatus[g] = "done" =>
    \A t \in Tasks(g) : tstatus[g][t] \in {"done", "skipped"}

(* Without a crash, a goal whose tasks have all ended is not left EXECUTING     *)
(* when its coroutine is gone, and a BLOCKED goal always has a task that an     *)
(* answer can be for.                                                           *)
Noticed ==
  crashes = 0 =>
    \A g \in Goals : runner[g] = "off" /\ consumer.goal # g /\ gstatus[g] # "none" =>
      /\ gstatus[g] = "executing" =>
           \E t \in Tasks(g) : tstatus[g][t] \notin Terminal
      /\ gstatus[g] = "blocked" => Answered(g) # {}

(* What has ended stays ended: DONE and SKIPPED tasks never change, a FAILED    *)
(* one is at most SKIPPED by the replanning of its own failure.                 *)
Ended ==
  [][\A g \in Goals, t \in Slots :
       /\ tstatus[g][t] \in {"done", "skipped"} => tstatus'[g][t] = tstatus[g][t]
       /\ tstatus[g][t] = "failed" /\ tstatus'[g][t] # "failed" =>
            tstatus'[g][t] = "skipped" /\ runner[g] = "replan" /\ at[g] = t]_vars

(* A coroutine that executes a task records how it ended before it does         *)
(* anything else; only a crash leaves a task RUNNING.                           *)
Recorded ==
  [][\A g \in Goals : runner[g] = "exec" /\ runner'[g] # "exec" =>
       tstatus'[g][at[g]] # "running" \/ crashes' # crashes]_vars

(* Retries and batches come to an end: a coroutine ends, or the model replaces  *)
(* failed tasks by others for ever.  How often it does is not bounded by the    *)
(* code, and nothing is said of it.                                             *)
RunnerEnds ==
  \A g \in Goals :
    []<>(runner[g] = "off") \/ []<><<Tasks(g)' # Tasks(g)>>_vars

-----------------------------------------------------------------------------
(* What Workflow sees.  A task that is RUNNING is in the hands of its           *)
(* coroutine, or it was lost in a crash; a goal that is DONE is closed.         *)
InHand(g, t) == runner[g] = "exec" /\ at[g] = t

Life(g, t) ==
  CASE tstatus[g][t] = "absent" -> "none"
    [] tstatus[g][t] = "pending" -> "todo"
    [] tstatus[g][t] = "blocked" -> "asked"
    [] tstatus[g][t] = "running" -> IF InHand(g, t) THEN "doing" ELSE "lost"
    [] OTHER -> tstatus[g][t]

Lives == [g \in Goals |-> [t \in Slots |-> Life(g, t)]]
Finished == {g \in Goals : gstatus[g] = "done"}

Flow == INSTANCE Workflow
          WITH Limit <- MaxAttempts, life <- Lives, needs <- deps, tries <- attempts,
               closed <- Finished

(* Whatever its coroutine, the answers of users, the replans of the model and   *)
(* crashes do in between, a task of planner/engine.py is begun, tried again,    *)
(* refused, replaced and reported as Workflow promises.                         *)
ImplementsWorkflow == Flow!WorkflowSpec

-----------------------------------------------------------------------------
(* docs/design/07-autonomy.md:66, "executes when the user confirms": a task the *)
(* user has confirmed is executed.                                              *)
Confirmed ==
  \A g \in Goals, t \in Slots :
    consumer = [phase |-> "resuming", goal |-> g, task |-> t]
      ~> tstatus[g][t] \in {"running", "done", "failed"}

(* planner/approval.py:182 tells the user the options for a task that waits for *)
(* approval: once its coroutine is gone, an answer reaches the goal.            *)
Answerable ==
  \A g \in Goals :
    Answered(g) # {} /\ runner[g] = "off" /\ consumer.goal # g => gstatus[g] = "blocked"

(* planner/executor.py:15, "Raised when a task needs to pause for user input    *)
(* or credentials": the execution of such a task ends with the task BLOCKED.    *)
InputPauses ==
  [][\A g \in Goals, t \in Slots :
       /\ tstatus[g][t] = "running" /\ kind[g][t] \in Inputs
       /\ tstatus'[g][t] # "running"
       => tstatus'[g][t] = "blocked"]_vars

=============================================================================

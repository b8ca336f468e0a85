-------------------------- MODULE GoalEngineProofs --------------------------
(* For every number of goals, tasks, attempts and crashes, every policy and     *)
(* everything the model may plan: the safety properties of the goal engine.     *)
EXTENDS GoalEngine, TLAPS

(* A goal that has no plan yet has no task and no coroutine.                    *)
FreshInv ==
  /\ \A g \in Goals : gstatus[g] \in {"none", "planning"} =>
       /\ runner[g] = "off" /\ batch[g] = {}
       /\ Tasks(g) = {}
  /\ consumer.phase = "planning" =>
       consumer.goal \in Goals /\ gstatus[consumer.goal] = "planning"
  /\ consumer.phase = "resuming" =>
       consumer.goal \in Goals /\ gstatus[consumer.goal] = "blocked" /\ loop = 0

(* Tasks are numbered from 1, those that do not exist were never started.       *)
ShapeInv ==
  \A g \in Goals :
    /\ \E n \in 0 .. MaxTasks : Tasks(g) = 1 .. n
    /\ \A t \in Slots : tstatus[g][t] = "absent" => attempts[g][t] = 0 /\ kind[g][t] = "none"
    /\ \A t \in Tasks(g) : kind[g][t] \in Kinds

(* What the coroutine still has to do of its step was ready when the list was   *)
(* loaded, and is ready still: no answer, replan or other task has touched it.  *)
BatchInv == \A g \in Goals : batch[g] \subseteq Ready(g)

(* The task a coroutine waits for.                                              *)
AtInv ==
  \A g \in Goals :
    /\ runner[g] = "exec" => at[g] \in Slots /\ tstatus[g][at[g]] = "running"
    /\ runner[g] = "replan" => at[g] \in Slots /\ tstatus[g][at[g]] = "failed"
    /\ runner[g] \in {"off", "new", "step"} => batch[g] = {}

(* Nothing runs for a goal that is DONE.                                        *)
DoneInv == GoalDone /\ \A g \in Goals : gstatus[g] = "done" => runner[g] = "off"

(* A task that may still be started is one attempt short of the bound.          *)
AttemptsInv ==
  \A g \in Goals, t \in Slots : tstatus[g][t] \in {"pending", "blocked"} =>
    attempts[g][t] < MaxAttempts

IInv ==
  /\ TypeOK
  /\ FreshInv
  /\ ShapeInv
  /\ AttemptsInv
  /\ BatchInv
  /\ AtInv
  /\ DoneInv
  /\ DepsDone
  /\ Consent

-----------------------------------------------------------------------------
(* Slots are natural numbers, so are the numbers of the tasks of a goal.        *)
LEMMA CountProps ==
  ASSUME NEW g \in Goals, ShapeInv
  PROVE  TaskCount(g) \in 0 .. MaxTasks /\ Tasks(g) = 1 .. TaskCount(g)
BY Zenon DEF ShapeInv, TaskCount

LEMMA SeqProps ==
  ASSUME NEW S, NEW seq \in Seq(S)
  PROVE  Len(seq) \in Nat /\ \A i \in 1 .. Len(seq) : seq[i] \in S
OBVIOUS

LEMMA PlanProps ==
  ASSUME NEW plan \in Plans
  PROVE  /\ Len(plan) \in Nat
         /\ Len(plan) <= MaxTasks
         /\ \A t \in 1 .. Len(plan) : plan[t].kind \in Kinds /\ plan[t].deps \in SUBSET Slots
         /\ \A t \in 1 .. Len(plan) : plan[t].deps \subseteq 1 .. t - 1
<1> DEFINE Specs == [kind : Kinds, deps : SUBSET Slots]
<1>1. /\ plan \in Seq(Specs) /\ Len(plan) <= MaxTasks
      /\ \A t \in 1 .. Len(plan) : plan[t].deps \subseteq 1 .. t - 1
  BY PlanAssumption
<1> HIDE DEF Specs
<1>2. Len(plan) \in Nat /\ \A t \in 1 .. Len(plan) : plan[t] \in Specs
  BY <1>1, SeqProps
<1> QED
  BY <1>1, <1>2 DEF Specs

LEMMA ReplacementProps ==
  ASSUME NEW new \in Replacements
  PROVE  Len(new) \in Nat /\ \A i \in 1 .. Len(new) : new[i] \in Kinds
BY PlanAssumption, SeqProps

(* The rows of tasks that a plan writes.                                        *)
LEMMA PlanRows ==
  ASSUME IInv, NEW plan \in Plans, PlanReady(plan)
  PROVE  /\ consumer.goal \in Goals
         /\ kind' \in [Goals -> [Slots -> Kinds \cup {"none"}]]
         /\ deps' \in [Goals -> [Slots -> SUBSET Slots]]
         /\ tstatus' \in [Goals -> [Slots -> TaskStatuses]]
<1> DEFINE g == consumer.goal
           kinds == [t \in Slots |-> IF t <= Len(plan) THEN plan[t].kind ELSE kind[g][t]]
           edges == [t \in Slots |-> IF t <= Len(plan) THEN plan[t].deps ELSE {}]
           marks == [t \in Slots |-> IF t <= Len(plan) THEN "pending" ELSE "absent"]
<1>1. g \in Goals
  BY DEF PlanReady, IInv, FreshInv
<1>2. /\ kind \in [Goals -> [Slots -> Kinds \cup {"none"}]]
      /\ deps \in [Goals -> [Slots -> SUBSET Slots]]
      /\ tstatus \in [Goals -> [Slots -> TaskStatuses]]
  BY DEF IInv, TypeOK
<1>3. \A t \in Slots : t <= Len(plan) => plan[t].kind \in Kinds /\ plan[t].deps \in SUBSET Slots
  BY PlanProps, BoundAssumption DEF Slots
<1>4. /\ kinds \in [Slots -> Kinds \cup {"none"}]
      /\ edges \in [Slots -> SUBSET Slots]
      /\ marks \in [Slots -> TaskStatuses]
  BY <1>1, <1>2, <1>3 DEF TaskStatuses
<1>5. /\ kind' = [kind EXCEPT ![g] = kinds]
      /\ deps' = [deps EXCEPT ![g] = edges]
      /\ tstatus' = [tstatus EXCEPT ![g] = marks]
  BY DEF PlanReady
<1> HIDE DEF kinds, edges, marks
<1> QED
  BY <1>1, <1>2, <1>4, <1>5

(* The rows of tasks that a replacement writes.                                 *)
LEMMA ReplacementRows ==
  ASSUME IInv, NEW g \in Goals, NEW new \in Replacements, ReplanReplaces(g, new)
  PROVE  /\ kind' \in [Goals -> [Slots -> Kinds \cup {"none"}]]
         /\ deps' \in [Goals -> [Slots -> SUBSET Slots]]
         /\ tstatus' \in [Goals -> [Slots -> TaskStatuses]]
<1> DEFINE n == TaskCount(g)
           added == n + 1 .. n + Len(new)
           kinds == [t \in Slots |-> IF t \in added THEN new[t - n] ELSE kind[g][t]]
           edges == [t \in Slots |-> IF t \in added THEN deps[g][at[g]] ELSE deps[g][t]]
           marks == [t \in Slots |-> IF t = at[g] THEN "skipped"
                                     ELSE IF t \in added THEN "pending" ELSE tstatus[g][t]]
<1>1. at[g] \in Slots /\ n \in Nat
  BY CountProps, BoundAssumption DEF ReplanReplaces, Replanned, IInv, AtInv
<1>2. /\ kind \in [Goals -> [Slots -> Kinds \cup {"none"}]]
      /\ deps \in [Goals -> [Slots -> SUBSET Slots]]
      /\ tstatus \in [Goals -> [Slots -> TaskStatuses]]
  BY DEF IInv, TypeOK
<1>3. \A t \in Slots : t \in added => new[t - n] \in Kinds
  <2> HIDE DEF n
  <2>1. \A t \in added : t - n \in 1 .. Len(new)
    BY <1>1, ReplacementProps
  <2> QED
    BY <2>1, ReplacementProps
<1> HIDE DEF n, added
<1>4. /\ kinds \in [Slots -> Kinds \cup {"none"}]
      /\ edges \in [Slots -> SUBSET Slots]
      /\ marks \in [Slots -> TaskStatuses]
  BY <1>1, <1>2, <1>3 DEF TaskStatuses
<1>5. /\ kind' = [kind EXCEPT ![g] = kinds]
      /\ deps' = [deps EXCEPT ![g] = edges]
      /\ tstatus' = [tstatus EXCEPT ![g] = marks]
  BY DEF ReplanReplaces, n, added
<1> HIDE DEF kinds, edges, marks
<1> QED
  BY <1>1, <1>2, <1>4, <1>5

LEMMA TypeStep == IInv /\ [Next]_vars => TypeOK'
<1> SUFFICES ASSUME IInv, [Next]_vars PROVE TypeOK'
  OBVIOUS
<1> USE DEF TypeOK, GoalStatuses, TaskStatuses, RunnerStates, Goals, Slots, store
<1>1. ASSUME NEW g \in Goals, StartGoal(g) PROVE TypeOK'
  BY <1>1 DEF StartGoal, IInv
<1>2. ASSUME NEW plan \in Plans, PlanReady(plan) PROVE TypeOK'
  <2>1. /\ consumer.goal \in Goals
        /\ kind' \in [Goals -> [Slots -> Kinds \cup {"none"}]]
        /\ deps' \in [Goals -> [Slots -> SUBSET Slots]]
        /\ tstatus' \in [Goals -> [Slots -> TaskStatuses]]
    BY <1>2, PlanRows
  <2>2. UNCHANGED rules
    BY <1>2 DEF PlanReady
  <2> QED
    BY <1>2, <2>1, <2>2 DEF PlanReady, IInv, Idle
<1>3. CASE PlanFails
  BY <1>3 DEF PlanFails, IInv, Idle
<1>4. ASSUME NEW g \in Goals, NEW t \in Slots, Deny(g, t) PROVE TypeOK'
  BY <1>4 DEF Deny, Wake, IInv
<1>5. ASSUME NEW g \in Goals, NEW t \in Slots, Confirm(g, t) PROVE TypeOK'
  <2>1. kind[g][t] \in Kinds
    BY <1>5 DEF Confirm, First, Answered, Tasks, IInv, ShapeInv
  <2>2. Grants(g, kind[g][t]) \subseteq SUBSET AllRules
    BY <2>1 DEF Grants, AllRules
  <2>3. rules' \subseteq AllRules
    BY <1>5, <2>2 DEF Confirm, IInv
  <2> QED
    BY <1>5, <2>3 DEF Confirm, IInv
<1>6. ASSUME NEW g \in Goals, NEW t \in Slots, Supply(g, t) PROVE TypeOK'
  BY <1>6 DEF Supply, IInv
<1>7. ASSUME NEW g \in Goals, Stray(g) PROVE TypeOK'
  BY <1>7 DEF Stray, Wake, IInv
<1>8. CASE Resume
  BY <1>8 DEF Resume, Wake, IInv, FreshInv, Idle
<1>9. ASSUME NEW g \in Goals, StepEnded(g) PROVE TypeOK'
  BY <1>9 DEF StepEnded, IInv
<1>10. ASSUME NEW g \in Goals, StepIdle(g) PROVE TypeOK'
  BY <1>10 DEF StepIdle, Completion, IInv
<1>11. ASSUME NEW g \in Goals, StepReady(g) PROVE TypeOK'
  BY <1>11 DEF StepReady, Ready, Tasks, IInv
<1>12. ASSUME NEW g \in Goals, NEW t \in Slots, TaskStopped(g, t) PROVE TypeOK'
  BY <1>12 DEF TaskStopped, IInv
<1>13. ASSUME NEW g \in Goals, NEW t \in Slots, TaskStarts(g, t) PROVE TypeOK'
  <2> HIDE DEF TypeOK, Goals, Slots
  <2>0. t \in batch[g]
    BY <1>13 DEF TaskStarts, NextTask, First
  <2>1. attempts[g][t] < MaxAttempts
    BY <2>0 DEF IInv, BatchInv, Ready, AttemptsInv
  <2>2. attempts[g][t] + 1 \in 0 .. MaxAttempts
    BY <2>1, BoundAssumption DEF IInv, TypeOK
  <2> USE DEF TypeOK
  <2>3. attempts' \in [Goals -> [Slots -> 0 .. MaxAttempts]]
    BY <1>13, <2>2 DEF TaskStarts, IInv
  <2>4. UNCHANGED <<gstatus, kind, deps, rules, ran, consumer, crashes>>
    BY <1>13 DEF TaskStarts
  <2>5. /\ tstatus' \in [Goals -> [Slots -> TaskStatuses]]
        /\ batch' \in [Goals -> SUBSET Slots]
        /\ at' \in [Goals -> Slots \cup {0}]
        /\ runner' \in [Goals -> RunnerStates]
        /\ loop' \in Goals \cup {0}
    BY <1>13 DEF TaskStarts, IInv
  <2> QED
    BY <2>3, <2>4, <2>5 DEF IInv
<1>14. ASSUME NEW g \in Goals, TaskDone(g) PROVE TypeOK'
  BY <1>14 DEF TaskDone, Executed, IInv, AtInv
<1>15. ASSUME NEW g \in Goals, TaskRetries(g) PROVE TypeOK'
  BY <1>15 DEF TaskRetries, Executed, IInv, AtInv
<1>16. ASSUME NEW g \in Goals, TaskFails(g) PROVE TypeOK'
  BY <1>16 DEF TaskFails, Executed, IInv, AtInv
<1>17. ASSUME NEW g \in Goals, ReplanKeeps(g) PROVE TypeOK'
  BY <1>17 DEF ReplanKeeps, Replanned, IInv
<1>18. ASSUME NEW g \in Goals, ReplanAborts(g) PROVE TypeOK'
  BY <1>18 DEF ReplanAborts, Replanned, IInv
<1>19. ASSUME NEW g \in Goals, ReplanSkips(g) PROVE TypeOK'
  BY <1>19 DEF ReplanSkips, Replanned, IInv, AtInv
<1>20. ASSUME NEW g \in Goals, NEW new \in Replacements, ReplanReplaces(g, new) PROVE TypeOK'
  <2>1. /\ kind' \in [Goals -> [Slots -> Kinds \cup {"none"}]]
        /\ deps' \in [Goals -> [Slots -> SUBSET Slots]]
        /\ tstatus' \in [Goals -> [Slots -> TaskStatuses]]
    BY <1>20, ReplacementRows
  <2>2. UNCHANGED rules
    BY <1>20 DEF ReplanReplaces, Replanned
  <2> QED
    BY <1>20, <2>1, <2>2 DEF ReplanReplaces, Replanned, IInv
<1>21. ASSUME NEW g \in Goals, StepEnds(g) PROVE TypeOK'
  BY <1>21 DEF StepEnds, Completion, IInv
<1>22. CASE Crash
  <2>1. crashes' \in 0 .. MaxCrashes
    BY <1>22, BoundAssumption DEF Crash, IInv
  <2> QED
    BY <1>22, <2>1 DEF Crash, IInv, Idle
<1>23. CASE UNCHANGED vars
  BY <1>23 DEF vars, volatile, IInv
<1> HIDE DEF TypeOK, Goals, Slots
<1>24. ASSUME NEW g \in Goals, User(g) PROVE TypeOK'
  BY <1>24, <1>1, <1>4, <1>5, <1>6, <1>7 DEF User
<1>25. ASSUME NEW g \in Goals, Run(g) PROVE TypeOK'
  <2>1. CASE \E t \in Slots : TaskStopped(g, t) \/ TaskStarts(g, t)
    BY <2>1, <1>12, <1>13
  <2>2. CASE \E new \in Replacements : ReplanReplaces(g, new)
    BY <2>2, <1>20
  <2> QED
    BY <1>25, <2>1, <2>2, <1>9, <1>10, <1>11, <1>14, <1>15, <1>16, <1>17, <1>18, <1>19, <1>21
       DEF Run
<1> QED
  BY <1>2, <1>3, <1>8, <1>22, <1>23, <1>24, <1>25 DEF Next, Consume

-----------------------------------------------------------------------------
(* All a step may do to a task.                                                 *)
Move(g, t, before, after) == tstatus[g][t] = before /\ tstatus'[g][t] = after

Moves(g, t) ==
  \/ UNCHANGED <<tstatus[g][t], attempts[g][t]>>
  \/ /\ Move(g, t, "absent", "pending") /\ UNCHANGED attempts[g][t]
     /\ (gstatus[g] = "planning" /\ gstatus'[g] = "executing") \/ runner[g] = "replan"
  \/ /\ t \in Ready(g) /\ t \notin batch'[g]
     /\ Move(g, t, "pending", "running")
     /\ Verdict(g, kind[g][t]) = "allow"
     /\ attempts'[g][t] = attempts[g][t] + 1
  \/ /\ t \in Ready(g) /\ t \notin batch'[g]
     /\ Move(g, t, "pending", "blocked") \/ Move(g, t, "pending", "failed")
     /\ UNCHANGED attempts[g][t]
  \/ /\ runner[g] = "exec" /\ at[g] = t /\ runner'[g] # "exec"
     /\ \/ Move(g, t, "running", "done") \/ Move(g, t, "running", "failed")
        \/ Move(g, t, "running", "pending") /\ attempts[g][t] < MaxAttempts
     /\ UNCHANGED attempts[g][t]
  \/ /\ Move(g, t, "blocked", "failed") \/ Move(g, t, "blocked", "pending")
        \/ Move(g, t, "blocked", "done")
     /\ UNCHANGED attempts[g][t]
  \/ /\ runner[g] = "replan" /\ at[g] = t /\ runner'[g] = "batch"
     /\ Move(g, t, "failed", "skipped")
     /\ UNCHANGED attempts[g][t]

(* A task keeps its type, its instruction and its dependencies.                 *)
Keeps(g, t) ==
  /\ tstatus[g][t] # "absent" => UNCHANGED <<kind[g][t], deps[g][t]>>
  /\ tstatus'[g][t] = "absent" => UNCHANGED kind[g][t]
  /\ Move(g, t, "absent", "pending") => kind'[g][t] \in Kinds

LEMMA StepMoves ==
  ASSUME IInv, [Next]_vars, NEW g \in Goals, NEW t \in Slots
  PROVE  Moves(g, t) /\ Keeps(g, t)
<1> DEFINE Goal == Moves(g, t) /\ Keeps(g, t)
<1> USE DEF Moves, Keeps, Move
<1>0. /\ tstatus \in [Goals -> [Slots -> TaskStatuses]]
      /\ attempts \in [Goals -> [Slots -> 0 .. MaxAttempts]]
      /\ kind \in [Goals -> [Slots -> Kinds \cup {"none"}]]
      /\ deps \in [Goals -> [Slots -> SUBSET Slots]]
      /\ tstatus' \in [Goals -> [Slots -> TaskStatuses]]
      /\ kind' \in [Goals -> [Slots -> Kinds \cup {"none"}]]
      /\ deps' \in [Goals -> [Slots -> SUBSET Slots]]
      /\ gstatus \in [Goals -> GoalStatuses]
      /\ runner \in [Goals -> RunnerStates]
      /\ batch \in [Goals -> SUBSET Slots]
  <2>1. TypeOK /\ TypeOK'
    BY TypeStep DEF IInv
  <2> QED
    BY <2>1 DEF TypeOK
<1>1. ASSUME NEW plan \in Plans, PlanReady(plan) PROVE Goal
  <2>1. CASE g = consumer.goal
    <3>1. tstatus[g][t] = "absent" /\ kind[g][t] = "none"
      BY <1>1, <2>1 DEF PlanReady, IInv, FreshInv, ShapeInv, Tasks
    <3>2. tstatus'[g][t] = IF t <= Len(plan) THEN "pending" ELSE "absent"
      BY <1>0, <1>1, <2>1 DEF PlanReady
    <3>3. kind'[g][t] = IF t <= Len(plan) THEN plan[t].kind ELSE "none"
      BY <1>0, <1>1, <2>1, <3>1 DEF PlanReady
    <3>4. t <= Len(plan) => plan[t].kind \in Kinds
      BY PlanProps, BoundAssumption DEF Slots
    <3>5. UNCHANGED attempts /\ gstatus[g] = "planning" /\ gstatus'[g] = "executing"
      BY <1>0, <1>1, <2>1 DEF PlanReady, IInv, FreshInv
    <3> QED
      BY <3>1, <3>2, <3>3, <3>4, <3>5
  <2>2. CASE g # consumer.goal
    BY <1>0, <1>1, <2>2 DEF PlanReady
  <2> QED
    BY <2>1, <2>2
<1>2. ASSUME NEW h \in Goals, NEW u \in Slots, Deny(h, u) \/ Confirm(h, u) \/ Supply(h, u)
      PROVE  Goal
  <2>1. tstatus[h][u] = "blocked" /\ UNCHANGED <<kind, deps, attempts>>
    BY <1>2 DEF Deny, Confirm, Supply, First, Answered
  <2>2. PICK s \in {"failed", "pending", "done"} : tstatus' = [tstatus EXCEPT ![h][u] = s]
    BY <1>2 DEF Deny, Confirm, Supply
  <2>3. CASE g = h /\ t = u
    BY <1>0, <2>1, <2>2, <2>3
  <2>4. CASE ~(g = h /\ t = u)
    <3>1. tstatus'[g][t] = tstatus[g][t]
      BY <1>0, <2>1, <2>2, <2>4
    <3> QED
      BY <1>0, <2>1, <3>1
  <2> QED
    BY <2>3, <2>4
<1>3. ASSUME NEW h \in Goals, NEW u \in Slots, TaskStopped(h, u) PROVE Goal
  <2>1. u \in Ready(h) /\ tstatus[h][u] = "pending"
    BY <1>3 DEF TaskStopped, NextTask, First, IInv, BatchInv, Ready
  <2> QED
    BY <1>0, <1>3, <2>1 DEF TaskStopped
<1>4. ASSUME NEW h \in Goals, NEW u \in Slots, TaskStarts(h, u) PROVE Goal
  <2>1. u \in Ready(h) /\ tstatus[h][u] = "pending"
    BY <1>4 DEF TaskStarts, NextTask, First, IInv, BatchInv, Ready
  <2> QED
    BY <1>0, <1>4, <2>1 DEF TaskStarts
<1>5. ASSUME NEW h \in Goals, TaskDone(h) \/ TaskRetries(h) \/ TaskFails(h) PROVE Goal
  <2>1. /\ runner[h] = "exec" /\ at[h] \in Slots /\ tstatus[h][at[h]] = "running"
        /\ UNCHANGED <<kind, deps, attempts>>
    BY <1>5 DEF TaskDone, TaskRetries, TaskFails, Executed, IInv, AtInv
  <2>0. runner'[h] # "exec"
    BY <1>0, <1>5 DEF TaskDone, TaskRetries, TaskFails
  <2>2. \/ tstatus' = [tstatus EXCEPT ![h][at[h]] = "done"]
        \/ tstatus' = [tstatus EXCEPT ![h][at[h]] = "failed"]
        \/ /\ tstatus' = [tstatus EXCEPT ![h][at[h]] = "pending"]
           /\ attempts[h][at[h]] < MaxAttempts
    BY <1>5 DEF TaskDone, TaskRetries, TaskFails
  <2>3. CASE g = h /\ t = at[h]
    BY <1>0, <2>0, <2>1, <2>2, <2>3
  <2>4. CASE ~(g = h /\ t = at[h])
    <3>1. tstatus'[g][t] = tstatus[g][t]
      BY <1>0, <2>1, <2>2, <2>4
    <3> QED
      BY <1>0, <2>1, <3>1
  <2> QED
    BY <2>3, <2>4
<1>6. ASSUME NEW h \in Goals, ReplanSkips(h) PROVE Goal
  <2>1. /\ runner[h] = "replan" /\ at[h] \in Slots /\ tstatus[h][at[h]] = "failed"
        /\ UNCHANGED <<kind, deps, attempts>>
        /\ tstatus' = [tstatus EXCEPT ![h][at[h]] = "skipped"]
        /\ runner' = [runner EXCEPT ![h] = "batch"]
    BY <1>6 DEF ReplanSkips, Replanned, IInv, AtInv
  <2> QED
    BY <1>0, <2>1
<1>7. ASSUME NEW h \in Goals, NEW new \in Replacements, ReplanReplaces(h, new) PROVE Goal
  <2> DEFINE n == TaskCount(h)
             added == n + 1 .. n + Len(new)
  <2>1. at[h] \in Slots /\ tstatus[h][at[h]] = "failed" /\ runner[h] = "replan"
    BY <1>7 DEF ReplanReplaces, Replanned, IInv, AtInv
  <2>2. n \in Nat /\ Tasks(h) = 1 .. n
    BY CountProps, BoundAssumption DEF IInv
  <2>3. \A u \in Slots : u \in added => tstatus[h][u] = "absent" /\ new[u - n] \in Kinds
    <3> HIDE DEF n
    <3>1. \A u \in added : u \notin 1 .. n /\ u - n \in 1 .. Len(new)
      BY <2>2, ReplacementProps
    <3> QED
      BY <2>2, <3>1, ReplacementProps DEF Tasks
  <2> HIDE DEF n, added
  <2>4. CASE g = h
    <3>1. tstatus'[g][t] = IF t = at[g] THEN "skipped"
                           ELSE IF t \in added THEN "pending" ELSE tstatus[g][t]
      BY <1>0, <1>7, <2>4 DEF ReplanReplaces, n, added
    <3>2. kind'[g][t] = IF t \in added THEN new[t - n] ELSE kind[g][t]
      BY <1>0, <1>7, <2>4 DEF ReplanReplaces, n, added
    <3>3. deps'[g][t] = IF t \in added THEN deps[g][at[g]] ELSE deps[g][t]
      BY <1>0, <1>7, <2>4 DEF ReplanReplaces, n, added
    <3>4. UNCHANGED attempts /\ runner'[h] = "batch"
      BY <1>0, <1>7 DEF ReplanReplaces, Replanned
    <3> QED
      BY <2>1, <2>3, <2>4, <3>1, <3>2, <3>3, <3>4
  <2>5. CASE g # h
    BY <1>0, <1>7, <2>5 DEF ReplanReplaces, Replanned
  <2> QED
    BY <2>4, <2>5
<1>8. ASSUME UNCHANGED <<tstatus, kind, deps, attempts>> PROVE Goal
  BY <1>8
<1>9. ASSUME NEW h \in Goals, User(h) PROVE Goal
  <2>1. CASE StartGoal(h) \/ Stray(h)
    BY <1>8, <2>1 DEF StartGoal, Stray, store
  <2> QED
    BY <1>2, <1>9, <2>1 DEF User
<1>10. ASSUME NEW h \in Goals, Run(h) PROVE Goal
  <2>1. CASE \/ StepEnded(h) \/ StepIdle(h) \/ StepReady(h) \/ StepEnds(h)
             \/ ReplanKeeps(h) \/ ReplanAborts(h)
    BY <1>8, <2>1 DEF StepEnded, StepIdle, StepReady, StepEnds, ReplanKeeps, ReplanAborts,
                      Replanned, store
  <2> HIDE DEF Goal
  <2>2. CASE \E u \in Slots : TaskStopped(h, u) \/ TaskStarts(h, u)
    BY <2>2, <1>3, <1>4
  <2>3. CASE \E new \in Replacements : ReplanReplaces(h, new)
    BY <2>3, <1>7
  <2> QED
    BY <1>5, <1>6, <1>10, <2>1, <2>2, <2>3 DEF Run
<1>11. ASSUME PlanFails \/ Resume \/ Crash \/ UNCHANGED vars PROVE Goal
  BY <1>8, <1>11 DEF PlanFails, Resume, Crash, vars, store
<1> HIDE DEF Goal, Moves, Keeps
<1>12. Goal
  <2>1. CASE \E h \in Goals : User(h) \/ Run(h)
    BY <2>1, <1>9, <1>10
  <2>2. CASE Consume
    BY <2>2, <1>1, <1>11 DEF Consume
  <2> QED
    BY <2>1, <2>2, <1>11 DEF Next
<1> QED
  BY <1>12 DEF Goal
(* A dependency that is DONE stays DONE.                                        *)
LEMMA DoneStays ==
  ASSUME IInv, [Next]_vars, NEW g \in Goals, NEW d \in Slots, tstatus[g][d] = "done"
  PROVE  tstatus'[g][d] = "done"
BY StepMoves DEF Moves, Move, Ready

LEMMA DepsDoneStep == IInv /\ [Next]_vars => DepsDone'
<1> SUFFICES ASSUME IInv, [Next]_vars,
                    NEW g \in Goals, NEW t \in Slots,
                    tstatus'[g][t] \notin {"absent", "pending"},
                    NEW d \in deps'[g][t]
             PROVE  tstatus'[g][d] = "done"
  BY DEF DepsDone, Tasks
<1>1. Moves(g, t) /\ Keeps(g, t)
  BY StepMoves
<1>2. tstatus[g][t] # "absent"
  BY <1>1 DEF Moves, Move
<1>3. d \in deps[g][t] /\ deps[g][t] \subseteq Slots
  BY <1>1, <1>2 DEF Keeps, IInv, TypeOK
<1>4. tstatus[g][t] # "pending" \/ t \in Ready(g)
  BY <1>1 DEF Moves, Move
<1>5. tstatus[g][d] = "done"
  BY <1>2, <1>3, <1>4 DEF IInv, DepsDone, Tasks, Ready
<1> QED
  BY <1>3, <1>5, DoneStays

(* Nothing takes a grant back.                                                  *)
LEMMA RulesGrow ==
  ASSUME [Next]_vars PROVE rules \subseteq rules'
<1>1. ASSUME NEW g \in Goals, User(g) PROVE rules \subseteq rules'
  BY <1>1 DEF User, StartGoal, Stray, Deny, Confirm, Supply, store
<1>2. ASSUME NEW g \in Goals, Run(g) PROVE UNCHANGED rules
  BY <1>2 DEF Run, StepEnded, StepIdle, StepReady, StepEnds, TaskStopped, TaskStarts,
              TaskDone, TaskRetries, TaskFails, ReplanKeeps, ReplanAborts, ReplanSkips,
              ReplanReplaces, Replanned, store
<1> QED
  BY <1>1, <1>2 DEF Next, Consume, PlanReady, PlanFails, Resume, Crash, vars, store

LEMMA ConsentStep == IInv /\ [Next]_vars => Consent'
<1> DEFINE Wanted(g, k) == {SessionRule(g, k), PrefixRule(k)}
<1> SUFFICES ASSUME IInv, [Next]_vars,
                    NEW g \in Goals, NEW t \in Slots,
                    tstatus'[g][t] # "absent", attempts'[g][t] > 0
             PROVE  /\ kind'[g][t] \notin Forbidden
                    /\ Action[kind'[g][t]] \in Asks => Wanted(g, kind'[g][t]) \cap rules' # {}
  BY DEF Consent, Tasks, Granted, SessionRule, PrefixRule
<1>1. Moves(g, t) /\ Keeps(g, t)
  BY StepMoves
<1>2. tstatus[g][t] # "absent"
  BY <1>1 DEF Moves, Move, IInv, ShapeInv
<1>3. UNCHANGED kind[g][t]
  BY <1>1, <1>2 DEF Keeps
<1>4. attempts[g][t] > 0 \/ Verdict(g, kind[g][t]) = "allow"
  BY <1>1 DEF Moves
<1>5. /\ kind[g][t] \notin Forbidden
      /\ Action[kind[g][t]] \in Asks => Granted(g, kind[g][t])
  BY <1>2, <1>4 DEF IInv, Consent, Tasks, Verdict
<1>6. Granted(g, kind[g][t]) => Wanted(g, kind[g][t]) \cap rules' # {}
  BY RulesGrow DEF Granted
<1> QED
  BY <1>3, <1>5, <1>6

LEMMA AttemptsStep == IInv /\ [Next]_vars => AttemptsInv'
<1> SUFFICES ASSUME IInv, [Next]_vars,
                    NEW g \in Goals, NEW t \in Slots,
                    tstatus'[g][t] \in {"pending", "blocked"}
             PROVE  attempts'[g][t] < MaxAttempts
  BY DEF AttemptsInv
<1>1. Moves(g, t)
  BY StepMoves
<1>2. tstatus[g][t] = "absent" => attempts[g][t] < MaxAttempts
  BY BoundAssumption DEF IInv, ShapeInv
<1>3. tstatus[g][t] \in {"pending", "blocked"} => attempts[g][t] < MaxAttempts
  BY DEF IInv, AttemptsInv
<1> QED
  BY <1>1, <1>2, <1>3 DEF Moves, Move
-----------------------------------------------------------------------------
(* All a step may do to the coroutine of a goal and to its status.              *)
Courses(g) ==
  \/ UNCHANGED <<runner[g], at[g], batch[g]>>
  \/ runner'[g] = "exec" /\ at'[g] \in Slots /\ tstatus'[g][at'[g]] = "running"
  \/ runner'[g] = "replan" /\ at'[g] \in Slots /\ tstatus'[g][at'[g]] = "failed"
  \/ runner'[g] \in {"off", "new", "step"} /\ batch'[g] = {}
  \/ runner'[g] = "batch"

Wakes(g) ==
  runner[g] = "off" /\ runner'[g] # "off" =>
    \/ gstatus[g] = "planning" /\ gstatus'[g] = "executing"
    \/ gstatus[g] = "blocked" /\ gstatus'[g] \in {"blocked", "executing"}

Verdicts(g) ==
  \/ UNCHANGED gstatus[g]
  \/ gstatus[g] = "none" /\ gstatus'[g] = "planning"
  \/ gstatus'[g] \in {"executing", "blocked", "failed"}
  \/ /\ gstatus'[g] = "done" /\ runner'[g] = "off" /\ UNCHANGED tstatus[g]
     /\ \A t \in Tasks(g) : tstatus[g][t] \in {"done", "skipped"}

Steers(g) == Courses(g) /\ Wakes(g) /\ Verdicts(g) /\ batch'[g] \subseteq Ready(g)

LEMMA StepSteers ==
  ASSUME IInv, [Next]_vars, NEW g \in Goals
  PROVE  Steers(g)
<1>0. /\ gstatus \in [Goals -> GoalStatuses]
      /\ tstatus \in [Goals -> [Slots -> TaskStatuses]]
      /\ runner \in [Goals -> RunnerStates]
      /\ batch \in [Goals -> SUBSET Slots]
      /\ at \in [Goals -> Slots \cup {0}]
  BY DEF IInv, TypeOK
<1>i. batch[g] \subseteq Ready(g) /\ (runner[g] \in {"off", "new", "step"} => batch[g] = {})
  BY DEF IInv, BatchInv, AtInv
<1> USE DEF Steers, Courses, Wakes, Verdicts
<1>1. ASSUME NEW h \in Goals, StartGoal(h) PROVE Steers(g)
  BY <1>0, <1>i, <1>1 DEF StartGoal
<1>2. ASSUME NEW plan \in Plans, PlanReady(plan) PROVE Steers(g)
  <2>1. consumer.goal \in Goals /\ gstatus[consumer.goal] = "planning"
    BY <1>2 DEF PlanReady, IInv, FreshInv
  <2>2. runner[consumer.goal] = "off"
    BY <2>1 DEF IInv, FreshInv
  <2>3. /\ gstatus' = [gstatus EXCEPT ![consumer.goal] = "executing"]
        /\ runner' = [runner EXCEPT ![consumer.goal] = "new"]
        /\ UNCHANGED <<at, batch>>
    BY <1>2 DEF PlanReady
  <2> QED
    BY <1>0, <1>i, <2>1, <2>2, <2>3
<1>3. ASSUME NEW h \in Goals, Stray(h) \/ \E t \in Slots : Deny(h, t) PROVE Steers(g)
  <2>1. /\ gstatus[h] = "blocked" /\ UNCHANGED <<gstatus, at, batch>>
        /\ runner' = [runner EXCEPT ![h] = IF @ = "off" THEN "new" ELSE @]
    BY <1>3 DEF Stray, Deny, FindBlocked, Last, BlockedGoals, Wake, store
  <2> QED
    BY <1>0, <1>i, <2>1
<1>4. ASSUME UNCHANGED <<gstatus, runner, at, batch>> PROVE Steers(g)
  BY <1>i, <1>4
<1>5. ASSUME Resume PROVE Steers(g)
  <2>1. /\ consumer.goal \in Goals /\ gstatus[consumer.goal] = "blocked"
        /\ UNCHANGED <<at, batch>>
        /\ gstatus' = [gstatus EXCEPT ![consumer.goal] = "executing"]
        /\ runner' = [runner EXCEPT ![consumer.goal] = IF @ = "off" THEN "new" ELSE @]
    BY <1>5 DEF Resume, Wake, IInv, FreshInv
  <2> QED
    BY <1>0, <1>i, <2>1
<1>6. ASSUME NEW h \in Goals, StepEnded(h) PROVE Steers(g)
  <2>1. /\ runner[h] \in {"new", "step"} /\ UNCHANGED <<gstatus, at, batch>>
        /\ runner' = [runner EXCEPT ![h] = "off"]
    BY <1>6 DEF StepEnded, Stepping, store
  <2> QED
    BY <1>0, <1>i, <2>1
<1>7. ASSUME NEW h \in Goals, StepIdle(h) PROVE Steers(g)
  <2>1. /\ runner[h] \in {"new", "step"} /\ UNCHANGED <<at, batch, tstatus>>
        /\ runner' = [runner EXCEPT ![h] = "off"]
        /\ gstatus' = [gstatus EXCEPT ![h] = Completion(h)]
        /\ gstatus[h] \notin {"done", "failed", "none", "planning"}
    BY <1>7 DEF StepIdle, Stepping, IInv, FreshInv
  <2> QED
    BY <1>0, <1>i, <2>1 DEF Completion, GoalStatuses, Terminal, Tasks
<1>8. ASSUME NEW h \in Goals, StepReady(h) PROVE Steers(g)
  <2>1. /\ runner[h] \in {"new", "step"} /\ UNCHANGED <<at, gstatus>>
        /\ runner' = [runner EXCEPT ![h] = "batch"]
        /\ batch' = [batch EXCEPT ![h] = Ready(h)]
    BY <1>8 DEF StepReady, Stepping, store
  <2> QED
    BY <1>0, <1>i, <2>1
<1>9. ASSUME NEW h \in Goals, NEW t \in Slots, TaskStopped(h, t) PROVE Steers(g)
  <2>1. /\ runner[h] = "batch" /\ UNCHANGED <<at, gstatus, runner>>
        /\ batch' = [batch EXCEPT ![h] = @ \ {t}]
    BY <1>9 DEF TaskStopped, NextTask
  <2> QED
    BY <1>0, <1>i, <2>1
<1>10. ASSUME NEW h \in Goals, NEW t \in Slots, TaskStarts(h, t) PROVE Steers(g)
  <2>1. /\ runner[h] = "batch" /\ UNCHANGED gstatus
        /\ runner' = [runner EXCEPT ![h] = "exec"]
        /\ at' = [at EXCEPT ![h] = t]
        /\ tstatus' = [tstatus EXCEPT ![h][t] = "running"]
        /\ batch' = [batch EXCEPT ![h] = @ \ {t}]
    BY <1>10 DEF TaskStarts, NextTask
  <2> QED
    BY <1>0, <1>i, <2>1
<1>11. ASSUME NEW h \in Goals, TaskDone(h) \/ TaskRetries(h) PROVE Steers(g)
  <2>1. /\ runner[h] = "exec" /\ UNCHANGED <<gstatus, batch>>
        /\ runner' = [runner EXCEPT ![h] = "batch"]
        /\ at' = [at EXCEPT ![h] = 0]
    BY <1>11 DEF TaskDone, TaskRetries, Executed
  <2> QED
    BY <1>0, <1>i, <2>1
<1>12. ASSUME NEW h \in Goals, TaskFails(h) PROVE Steers(g)
  <2>1. /\ runner[h] = "exec" /\ UNCHANGED <<gstatus, batch, at>> /\ at[h] \in Slots
        /\ runner' = [runner EXCEPT ![h] = "replan"]
        /\ tstatus' = [tstatus EXCEPT ![h][at[h]] = "failed"]
    BY <1>12 DEF TaskFails, Executed, IInv, AtInv
  <2> QED
    BY <1>0, <1>i, <2>1
<1>13. ASSUME NEW h \in Goals, Replanned(h),
              \/ UNCHANGED gstatus
              \/ gstatus' = [gstatus EXCEPT ![h] = "failed"]
       PROVE  Steers(g)
  <2>1. /\ runner[h] = "replan" /\ UNCHANGED batch
        /\ runner' = [runner EXCEPT ![h] = "batch"]
        /\ at' = [at EXCEPT ![h] = 0]
    BY <1>13 DEF Replanned
  <2> QED
    BY <1>0, <1>i, <1>13, <2>1
<1>14. ASSUME NEW h \in Goals, StepEnds(h) PROVE Steers(g)
  <2>1. /\ runner[h] = "batch" /\ batch[h] = {} /\ UNCHANGED <<at, batch, tstatus>>
        /\ runner' = [runner EXCEPT ![h] = IF ~Completed(h) /\ ran[h] THEN "step" ELSE "off"]
        /\ gstatus' = [gstatus EXCEPT ![h] = Completion(h)]
        /\ gstatus[h] \notin {"none", "planning"}
    BY <1>14 DEF StepEnds, IInv, FreshInv
  <2>2. gstatus[h] # "done"
    BY <2>1 DEF IInv, DoneInv
  <2>3. Completion(h) \in {"executing", "blocked", "failed", "done"}
    BY <1>0, <2>1 DEF Completion, GoalStatuses
  <2>4. Completion(h) = "done" =>
          Completed(h) /\ \A t \in Tasks(h) : tstatus[h][t] \in {"done", "skipped"}
    BY <2>2 DEF Completion, Completed, Terminal
  <2> QED
    BY <1>0, <1>i, <2>1, <2>3, <2>4
<1>15. ASSUME Crash PROVE Steers(g)
  BY <1>0, <1>15 DEF Crash, store
<1> HIDE DEF Steers
<1>16. ASSUME NEW h \in Goals, User(h) PROVE Steers(g)
  <2>1. ASSUME NEW t \in Slots, Confirm(h, t) \/ Supply(h, t) PROVE Steers(g)
    BY <1>4, <2>1 DEF Confirm, Supply
  <2> QED
    BY <1>1, <1>3, <1>16, <2>1 DEF User
<1>17. ASSUME NEW h \in Goals, Run(h) PROVE Steers(g)
  <2>1. ASSUME \/ ReplanKeeps(h) \/ ReplanAborts(h) \/ ReplanSkips(h)
               \/ \E new \in Replacements : ReplanReplaces(h, new)
        PROVE  Steers(g)
    BY <1>13, <2>1 DEF ReplanKeeps, ReplanAborts, ReplanSkips, ReplanReplaces
  <2> QED
    BY <1>6, <1>7, <1>8, <1>9, <1>10, <1>11, <1>12, <1>14, <1>17, <2>1 DEF Run
<1>18. ASSUME PlanFails \/ UNCHANGED vars PROVE Steers(g)
  BY <1>4, <1>18 DEF PlanFails, vars, store, volatile
<1>19. ASSUME Consume PROVE Steers(g)
  BY <1>2, <1>5, <1>18, <1>19 DEF Consume
<1> QED
  BY <1>15, <1>16, <1>17, <1>18, <1>19 DEF Next
LEMMA BatchStep == IInv /\ [Next]_vars => BatchInv'
<1> SUFFICES ASSUME IInv, [Next]_vars,
                    NEW g \in Goals, NEW t \in batch'[g]
             PROVE  t \in Ready(g)'
  BY DEF BatchInv
<1>1. t \in Ready(g) /\ t \in Slots /\ tstatus[g][t] = "pending"
  BY StepSteers DEF Steers, Ready, Tasks
<1>2. Moves(g, t) /\ Keeps(g, t)
  BY <1>1, StepMoves
<1>3. tstatus'[g][t] = "pending" /\ deps'[g][t] = deps[g][t]
  BY <1>1, <1>2 DEF Moves, Move, Keeps
<1>4. \A d \in deps[g][t] : tstatus[g][d] = "done" /\ d \in Slots
  BY <1>1 DEF Ready, IInv, TypeOK
<1>5. \A d \in deps'[g][t] : tstatus'[g][d] = "done"
  BY <1>3, <1>4, DoneStays
<1> QED
  BY <1>1, <1>3, <1>5 DEF Ready, Tasks

LEMMA AtStep == IInv /\ [Next]_vars => AtInv'
<1> SUFFICES ASSUME IInv, [Next]_vars, NEW g \in Goals
             PROVE  /\ runner'[g] = "exec" => at'[g] \in Slots /\ tstatus'[g][at'[g]] = "running"
                    /\ runner'[g] = "replan" => at'[g] \in Slots /\ tstatus'[g][at'[g]] = "failed"
                    /\ runner'[g] \in {"off", "new", "step"} => batch'[g] = {}
  BY DEF AtInv
<1>1. Courses(g)
  BY StepSteers DEF Steers
<1>2. CASE UNCHANGED <<runner[g], at[g], batch[g]>>
  <2>1. /\ runner[g] = "exec" => at[g] \in Slots /\ tstatus[g][at[g]] = "running"
        /\ runner[g] = "replan" => at[g] \in Slots /\ tstatus[g][at[g]] = "failed"
        /\ runner[g] \in {"off", "new", "step"} => batch[g] = {}
    BY DEF IInv, AtInv
  <2>2. at[g] \in Slots => Moves(g, at[g])
    BY StepMoves
  <2> QED
    BY <1>2, <2>1, <2>2 DEF Moves, Move, Ready
<1> QED
  BY <1>1, <1>2 DEF Courses

LEMMA DoneStep == IInv /\ [Next]_vars => DoneInv'
<1> SUFFICES ASSUME IInv, [Next]_vars, NEW g \in Goals, gstatus'[g] = "done"
             PROVE  /\ runner'[g] = "off"
                    /\ \A t \in Slots : tstatus'[g][t] \in {"absent", "done", "skipped"}
  BY DEF DoneInv, GoalDone, Tasks
<1>1. Verdicts(g) /\ Wakes(g)
  BY StepSteers DEF Steers
<1>2. CASE gstatus[g] = "done"
  <2>1. runner[g] = "off" /\ \A t \in Slots : tstatus[g][t] \in {"absent", "done", "skipped"}
    BY <1>2 DEF IInv, DoneInv, GoalDone, Tasks
  <2>2. \A t \in Slots : Moves(g, t)
    BY StepMoves
  <2>3. runner'[g] = "off"
    BY <1>1, <1>2, <2>1 DEF Wakes
  <2>4. \A t \in Slots : tstatus'[g][t] \in {"absent", "done", "skipped"}
    BY <1>2, <2>1, <2>2 DEF Moves, Move, Ready
  <2> QED
    BY <2>3, <2>4
<1>3. CASE gstatus[g] # "done"
  BY <1>1, <1>3 DEF Verdicts, Tasks
<1> QED
  BY <1>2, <1>3

(* While an answer is being recorded no coroutine runs.                         *)
LEMMA StepConsumer ==
  ASSUME IInv, [Next]_vars
  PROVE  /\ consumer'.phase = "planning" =>
              consumer'.goal \in Goals /\ gstatus'[consumer'.goal] = "planning"
         /\ consumer'.phase = "resuming" =>
              consumer'.goal \in Goals /\ gstatus'[consumer'.goal] = "blocked" /\ loop' = 0
<1> DEFINE Held == /\ consumer'.phase = "planning" =>
                        consumer'.goal \in Goals /\ gstatus'[consumer'.goal] = "planning"
                   /\ consumer'.phase = "resuming" =>
                        consumer'.goal \in Goals /\ gstatus'[consumer'.goal] = "blocked" /\ loop' = 0
<1>0. /\ gstatus \in [Goals -> GoalStatuses]
      /\ consumer.phase = "planning" =>
           consumer.goal \in Goals /\ gstatus[consumer.goal] = "planning"
      /\ consumer.phase = "resuming" =>
           consumer.goal \in Goals /\ gstatus[consumer.goal] = "blocked" /\ loop = 0
  BY DEF IInv, TypeOK, FreshInv
<1>1. ASSUME NEW g \in Goals, StartGoal(g) PROVE Held
  BY <1>0, <1>1 DEF StartGoal
<1>2. ASSUME NEW g \in Goals, NEW t \in Slots, Confirm(g, t) \/ Supply(g, t) PROVE Held
  BY <1>0, <1>2 DEF Confirm, Supply, ConsumerFree, LoopFree, FindBlocked, Last, BlockedGoals
<1>3. ASSUME UNCHANGED <<gstatus, consumer, loop>> PROVE Held
  BY <1>0, <1>3
<1>4. ASSUME consumer' = Idle PROVE Held
  BY <1>4 DEF Idle
<1>5. ASSUME NEW g \in Goals, Run(g) PROVE Held
  <2>1. runner[g] # "off" /\ (loop = g \/ consumer.phase # "resuming") /\ UNCHANGED consumer
    BY <1>5 DEF Run, StepEnded, StepIdle, StepReady, StepEnds, TaskStopped, TaskStarts, NextTask,
                TaskDone, TaskRetries, TaskFails, ReplanKeeps, ReplanAborts, ReplanSkips,
                ReplanReplaces, Replanned, Stepping, Executed, LoopFree, store
  <2>2. g # 0
    BY BoundAssumption DEF Goals
  <2>3. gstatus[g] # "planning"
    BY <2>1 DEF IInv, FreshInv
  <2>4. \E s \in {gstatus[g], Completion(g), "failed"} : gstatus' = [gstatus EXCEPT ![g] = s]
    BY <1>0, <1>5 DEF Run, StepEnded, StepIdle, StepReady, StepEnds, TaskStopped, TaskStarts,
                TaskDone, TaskRetries, TaskFails, ReplanKeeps, ReplanAborts, ReplanSkips,
                ReplanReplaces, Replanned, store
  <2> QED
    BY <1>0, <2>1, <2>2, <2>3, <2>4
<1>6. ASSUME NEW g \in Goals, User(g) PROVE Held
  <2>1. ASSUME Stray(g) \/ \E t \in Slots : Deny(g, t) PROVE Held
    BY <1>3, <2>1 DEF Stray, Deny, store
  <2> QED
    BY <1>1, <1>2, <1>6, <2>1 DEF User
<1>7. ASSUME Consume \/ Crash PROVE Held
  BY <1>4, <1>7 DEF Consume, PlanReady, PlanFails, Resume, Crash
<1>8. ASSUME UNCHANGED vars PROVE Held
  BY <1>3, <1>8 DEF vars, store, volatile
<1> HIDE DEF Held
<1>9. Held
  BY <1>5, <1>6, <1>7, <1>8 DEF Next
<1> QED
  BY <1>9 DEF Held

LEMMA FreshStep == IInv /\ [Next]_vars => FreshInv'
<1> SUFFICES ASSUME IInv, [Next]_vars PROVE FreshInv'
  OBVIOUS
<1>1. ASSUME NEW g \in Goals, gstatus'[g] \in {"none", "planning"}
      PROVE  runner'[g] = "off" /\ batch'[g] = {} /\ \A t \in Slots : tstatus'[g][t] = "absent"
  <2>1. Steers(g) /\ \A t \in Slots : Moves(g, t)
    BY StepSteers, StepMoves
  <2>2. gstatus[g] \in {"none", "planning"}
    BY <1>1, <2>1 DEF Steers, Verdicts
  <2>3. runner[g] = "off" /\ \A t \in Slots : tstatus[g][t] = "absent"
    BY <2>2 DEF IInv, FreshInv, Tasks
  <2>4. runner'[g] = "off"
    BY <1>1, <2>1, <2>3 DEF Steers, Wakes
  <2>5. batch'[g] = {}
    BY <2>1, <2>3 DEF Steers, Ready, Tasks
  <2>6. \A t \in Slots : tstatus'[g][t] = "absent"
    BY <1>1, <2>1, <2>3 DEF Moves, Move, Ready
  <2> QED
    BY <2>4, <2>5, <2>6
<1> QED
  BY <1>1, StepConsumer DEF FreshInv, Tasks
(* Tasks are only added at the end.                                             *)
LEMMA StepCounts ==
  ASSUME IInv, [Next]_vars, NEW g \in Goals
  PROVE  \E n \in 0 .. MaxTasks : Tasks(g)' = 1 .. n
<1> DEFINE Counted == \E n \in 0 .. MaxTasks : Tasks(g)' = 1 .. n
<1>0. /\ tstatus \in [Goals -> [Slots -> TaskStatuses]]
      /\ \E n \in 0 .. MaxTasks : Tasks(g) = 1 .. n
  BY DEF IInv, TypeOK, ShapeInv
<1>1. ASSUME \A t \in Slots : tstatus'[g][t] = "absent" <=> tstatus[g][t] = "absent"
      PROVE  Counted
  <2>1. Tasks(g)' = Tasks(g)
    BY <1>1 DEF Tasks
  <2> QED
    BY <1>0, <2>1
<1>2. ASSUME NEW plan \in Plans, PlanReady(plan) PROVE Counted
  <2>1. consumer.goal \in Goals
    BY <1>2 DEF PlanReady, IInv, FreshInv
  <2>2. CASE g = consumer.goal
    <3>1. \A t \in Slots : tstatus'[g][t] = IF t <= Len(plan) THEN "pending" ELSE "absent"
      BY <1>0, <1>2, <2>2 DEF PlanReady
    <3>2. Len(plan) \in 0 .. MaxTasks
      BY PlanProps, BoundAssumption
    <3>3. Tasks(g)' = 1 .. Len(plan)
      BY <3>1, <3>2, BoundAssumption DEF Tasks, Slots
    <3> QED
      BY <3>2, <3>3
  <2>3. CASE g # consumer.goal
    BY <1>0, <1>1, <1>2, <2>3 DEF PlanReady
  <2> QED
    BY <2>2, <2>3
<1>3. ASSUME NEW h \in Goals, NEW new \in Replacements, ReplanReplaces(h, new) PROVE Counted
  <2> DEFINE n == TaskCount(h)
             added == n + 1 .. n + Len(new)
  <2>1. n \in 0 .. MaxTasks /\ Tasks(h) = 1 .. n
    BY CountProps DEF IInv
  <2>2. at[h] \in Tasks(h)
    BY <1>3 DEF ReplanReplaces, Replanned, IInv, AtInv, Tasks
  <2>3. Len(new) \in Nat /\ n + Len(new) <= MaxTasks
    BY <1>3, ReplacementProps DEF ReplanReplaces
  <2> HIDE DEF n
  <2>4. CASE g = h
    <3>1. \A t \in Slots : tstatus'[g][t] = IF t = at[g] THEN "skipped"
                                            ELSE IF t \in added THEN "pending" ELSE tstatus[g][t]
      BY <1>0, <1>3, <2>4 DEF ReplanReplaces, n
    <3>2. \A t \in Slots : tstatus'[g][t] # "absent" <=> t \in 1 .. n \/ t \in added
      BY <2>1, <2>2, <2>4, <3>1 DEF Tasks
    <3>3. n + Len(new) \in 0 .. MaxTasks
      BY <2>1, <2>3, BoundAssumption
    <3>4. Tasks(g)' = 1 .. n + Len(new)
      BY <2>1, <2>3, <3>2, BoundAssumption DEF Tasks, Slots
    <3> QED
      BY <3>3, <3>4
  <2>5. CASE g # h
    BY <1>0, <1>1, <1>3, <2>5 DEF ReplanReplaces, Replanned
  <2> QED
    BY <2>4, <2>5
<1>4. ASSUME NEW h \in Goals, NEW t \in Slots, NEW s \in TaskStatuses \ {"absent"},
             tstatus[h][t] # "absent", tstatus' = [tstatus EXCEPT ![h][t] = s]
      PROVE  Counted
  BY <1>0, <1>1, <1>4
<1>5. ASSUME UNCHANGED tstatus PROVE Counted
  BY <1>1, <1>5
<1>6. ASSUME NEW h \in Goals, NEW t \in Slots, Deny(h, t) \/ Confirm(h, t) \/ Supply(h, t)
      PROVE  Counted
  BY <1>4, <1>6 DEF Deny, Confirm, Supply, First, Answered, TaskStatuses
<1>7. ASSUME NEW h \in Goals, NEW t \in Slots, TaskStopped(h, t) \/ TaskStarts(h, t)
      PROVE  Counted
  <2>1. tstatus[h][t] = "pending"
    BY <1>7 DEF TaskStopped, TaskStarts, NextTask, First, IInv, BatchInv, Ready
  <2>2. \E s \in TaskStatuses \ {"absent"} : tstatus' = [tstatus EXCEPT ![h][t] = s]
    BY <1>7 DEF TaskStopped, TaskStarts, TaskStatuses
  <2> QED
    BY <1>4, <2>1, <2>2
<1>8. ASSUME NEW h \in Goals, TaskDone(h) \/ TaskRetries(h) \/ TaskFails(h) PROVE Counted
  <2>1. at[h] \in Slots /\ tstatus[h][at[h]] = "running"
    BY <1>8 DEF TaskDone, TaskRetries, TaskFails, Executed, IInv, AtInv
  <2>2. \E s \in TaskStatuses \ {"absent"} : tstatus' = [tstatus EXCEPT ![h][at[h]] = s]
    BY <1>8 DEF TaskDone, TaskRetries, TaskFails, TaskStatuses
  <2> QED
    BY <1>4, <2>1, <2>2
<1>9. ASSUME NEW h \in Goals, ReplanSkips(h) PROVE Counted
  <2>1. at[h] \in Slots /\ tstatus[h][at[h]] = "failed"
    BY <1>9 DEF ReplanSkips, Replanned, IInv, AtInv
  <2> QED
    BY <1>4, <1>9, <2>1 DEF ReplanSkips, TaskStatuses
<1> HIDE DEF Counted
<1>10. ASSUME NEW h \in Goals, User(h) PROVE Counted
  <2>1. ASSUME StartGoal(h) \/ Stray(h) PROVE Counted
    BY <1>5, <2>1 DEF StartGoal, Stray, store
  <2> QED
    BY <1>6, <1>10, <2>1 DEF User
<1>11. ASSUME NEW h \in Goals, Run(h) PROVE Counted
  <2>1. ASSUME \/ StepEnded(h) \/ StepIdle(h) \/ StepReady(h) \/ StepEnds(h)
               \/ ReplanKeeps(h) \/ ReplanAborts(h)
        PROVE  Counted
    BY <1>5, <2>1 DEF StepEnded, StepIdle, StepReady, StepEnds, ReplanKeeps, ReplanAborts, store
  <2> QED
    BY <1>3, <1>7, <1>8, <1>9, <1>11, <2>1 DEF Run
<1>12. ASSUME PlanFails \/ Resume \/ Crash \/ UNCHANGED vars PROVE Counted
  BY <1>5, <1>12 DEF PlanFails, Resume, Crash, vars, store
<1>13. ASSUME Consume PROVE Counted
  BY <1>2, <1>12, <1>13 DEF Consume
<1>14. Counted
  BY <1>10, <1>11, <1>12, <1>13 DEF Next
<1> QED
  BY <1>14 DEF Counted

LEMMA ShapeStep == IInv /\ [Next]_vars => ShapeInv'
<1> SUFFICES ASSUME IInv, [Next]_vars PROVE ShapeInv'
  OBVIOUS
<1>1. ASSUME NEW g \in Goals, NEW t \in Slots
      PROVE  /\ tstatus'[g][t] = "absent" => attempts'[g][t] = 0 /\ kind'[g][t] = "none"
             /\ tstatus'[g][t] # "absent" => kind'[g][t] \in Kinds
  <2>1. Moves(g, t) /\ Keeps(g, t)
    BY StepMoves
  <2>2. /\ tstatus[g][t] = "absent" => attempts[g][t] = 0 /\ kind[g][t] = "none"
        /\ tstatus[g][t] # "absent" => kind[g][t] \in Kinds
    BY DEF IInv, ShapeInv, Tasks
  <2> QED
    BY <2>1, <2>2 DEF Moves, Move, Keeps
<1>2. \A g \in Goals : \E n \in 0 .. MaxTasks : Tasks(g)' = 1 .. n
  BY StepCounts
<1>3. \A g \in Goals : \A t \in Tasks(g)' : kind'[g][t] \in Kinds
  BY <1>1 DEF Tasks
<1> QED
  BY <1>1, <1>2, <1>3 DEF ShapeInv

-----------------------------------------------------------------------------
LEMMA InitIInv == Init => IInv
<1> SUFFICES ASSUME Init PROVE IInv
  OBVIOUS
<1>1. TypeOK
  BY BoundAssumption DEF Init, TypeOK, GoalStatuses, TaskStatuses, RunnerStates, Idle
<1>2. \A g \in Goals, t \in Slots :
         tstatus[g][t] = "absent" /\ attempts[g][t] = 0 /\ kind[g][t] = "none"
  BY DEF Init
<1>3. \A g \in Goals :
         /\ gstatus[g] = "none" /\ runner[g] = "off" /\ batch[g] = {}
         /\ Tasks(g) = {}
  BY <1>2 DEF Init, Tasks
<1>4. consumer.phase = "idle"
  BY DEF Init, Idle
<1>5. FreshInv
  BY <1>3, <1>4 DEF FreshInv
<1>6. ShapeInv
  <2>1. 0 \in 0 .. MaxTasks /\ 1 .. 0 = {}
    BY BoundAssumption
  <2> QED
    BY <1>2, <1>3, <2>1 DEF ShapeInv
<1>7. AttemptsInv /\ BatchInv /\ AtInv
  BY <1>2, <1>3 DEF AttemptsInv, BatchInv, AtInv
<1>8. DoneInv /\ DepsDone /\ Consent
  BY <1>3 DEF DoneInv, GoalDone, DepsDone, Consent
<1> QED
  BY <1>1, <1>5, <1>6, <1>7, <1>8 DEF IInv

(* The inductive invariant of the goal engine: core/loop.py, planner/engine.py, *)
(* planner/approval.py and planner/store.py together keep it, for every size.   *)
THEOREM Invariance == Spec => []IInv
<1>1. Init => IInv
  BY InitIInv
<1>2. IInv /\ [Next]_vars => IInv'
  <2> SUFFICES ASSUME IInv, [Next]_vars PROVE IInv'
    OBVIOUS
  <2>1. TypeOK' /\ FreshInv' /\ ShapeInv' /\ AttemptsInv' /\ BatchInv'
    BY TypeStep, FreshStep, ShapeStep, AttemptsStep, BatchStep
  <2>2. AtInv' /\ DoneInv' /\ DepsDone' /\ Consent'
    BY AtStep, DoneStep, DepsDoneStep, ConsentStep
  <2> QED
    BY <2>1, <2>2 DEF IInv
<1> QED
  BY <1>1, <1>2, PTL DEF Spec

(* Every variable keeps its type; in particular no task is attempted more than  *)
(* max_attempts times (planner/engine.py, the test before a retry).             *)
THEOREM TypeCorrect == Spec => []TypeOK
<1>1. IInv => TypeOK
  BY DEF IInv
<1> QED
  BY <1>1, Invariance, PTL

(* A task that was ever taken up has, and keeps, the results of all its         *)
(* dependencies (planner/store.py, get_ready_tasks).                            *)
THEOREM DepsDoneSafe == Spec => []DepsDone
<1>1. IInv => DepsDone
  BY DEF IInv
<1> QED
  BY <1>1, Invariance, PTL

(* No task whose action needs a confirmation was ever started without a grant   *)
(* of the user, and none that a rule denies (planner/approval.py,               *)
(* evaluate_task).                                                              *)
THEOREM ConsentSafe == Spec => []Consent
<1>1. IInv => Consent
  BY DEF IInv
<1> QED
  BY <1>1, Invariance, PTL

(* A goal that is DONE has no task that failed or is unfinished                 *)
(* (planner/engine.py, _check_goal_completion).                                 *)
THEOREM GoalDoneSafe == Spec => []GoalDone
<1>1. IInv => GoalDone
  BY DEF IInv, DoneInv
<1> QED
  BY <1>1, Invariance, PTL

(* Tasks that are DONE or SKIPPED never change, and a FAILED one is at most     *)
(* SKIPPED by the replanning of its own failure (planner/engine.py, step).      *)
THEOREM EndedSafe == Spec => Ended
<1>1. IInv /\ [Next]_vars =>
        [\A g \in Goals, t \in Slots :
           /\ tstatus[g][t] \in {"done", "skipped"} => tstatus'[g][t] = tstatus[g][t]
           /\ tstatus[g][t] = "failed" /\ tstatus'[g][t] # "failed" =>
                tstatus'[g][t] = "skipped" /\ runner[g] = "replan" /\ at[g] = t]_vars
  <2> SUFFICES ASSUME IInv, [Next]_vars, NEW g \in Goals, NEW t \in Slots
               PROVE  /\ tstatus[g][t] \in {"done", "skipped"} => tstatus'[g][t] = tstatus[g][t]
                      /\ tstatus[g][t] = "failed" /\ tstatus'[g][t] # "failed" =>
                           tstatus'[g][t] = "skipped" /\ runner[g] = "replan" /\ at[g] = t
    OBVIOUS
  <2> QED
    BY StepMoves DEF Moves, Move, Ready
<1> QED
  BY <1>1, Invariance, PTL DEF Spec, Ended

-----------------------------------------------------------------------------
(* What a coroutine leaves behind when no crash has taken it away.              *)

Resuming(g) == consumer.phase = "resuming" /\ consumer.goal = g

(* A goal that is BLOCKED has nothing left that a coroutine could do, until an  *)
(* answer comes.                                                                *)
Rests(g) ==
  gstatus[g] = "blocked" =>
    /\ runner[g] \in {"off", "new"}
    /\ Resuming(g) => runner[g] = "off"
    /\ ~Resuming(g) =>
         /\ \A t \in Tasks(g) : tstatus[g][t] \in Terminal \cup {"blocked"}
         /\ runner[g] = "off" => Answered(g) # {}

Unfinished(g) ==
  gstatus[g] = "executing" /\ runner[g] = "off" =>
    \E t \in Tasks(g) : tstatus[g][t] \notin Terminal

NoticedInv == crashes = 0 => \A g \in Goals : Rests(g) /\ Unfinished(g)

(* A step of another goal's coroutine, or of the consumer about another goal,   *)
(* does not touch this one.                                                     *)
LEMMA OthersApart ==
  ASSUME IInv, NEW g \in Goals, NEW h \in Goals \ {g}, User(h) \/ Run(h)
  PROVE  /\ UNCHANGED <<gstatus[g], tstatus[g], runner[g]>>
         /\ Resuming(g)' <=> Resuming(g)
<1>0. /\ gstatus \in [Goals -> GoalStatuses]
      /\ tstatus \in [Goals -> [Slots -> TaskStatuses]]
      /\ runner \in [Goals -> RunnerStates]
  BY DEF IInv, TypeOK
<1>1. ASSUME User(h)
      PROVE  /\ UNCHANGED <<gstatus[g], tstatus[g], runner[g]>>
             /\ consumer = Idle /\ (consumer' = Idle \/ consumer'.goal = h)
  BY <1>0, <1>1, SMTT(20) DEF User, StartGoal, Stray, Deny, Confirm, Supply, ConsumerFree, Wake, store
<1>2. ASSUME Run(h)
      PROVE  UNCHANGED <<gstatus[g], tstatus[g], runner[g], consumer>>
  BY <1>0, <1>2 DEF Run, StepEnded, StepIdle, StepReady, StepEnds, TaskStopped, TaskStarts,
                TaskDone, TaskRetries, TaskFails, ReplanKeeps, ReplanAborts, ReplanSkips,
                ReplanReplaces, Replanned, store
<1> QED
  BY <1>1, <1>2 DEF Resuming, Idle

LEMMA NoticedStep == IInv /\ NoticedInv /\ [Next]_vars => NoticedInv'
<1> SUFFICES ASSUME IInv, NoticedInv, [Next]_vars, crashes' = 0, NEW g \in Goals
             PROVE  Rests(g)' /\ Unfinished(g)'
  BY DEF NoticedInv
<1> DEFINE Kept == Rests(g)' /\ Unfinished(g)'
<1>0. /\ gstatus \in [Goals -> GoalStatuses]
      /\ tstatus \in [Goals -> [Slots -> TaskStatuses]]
      /\ runner \in [Goals -> RunnerStates]
      /\ crashes \in Nat
  BY BoundAssumption DEF IInv, TypeOK
<1>1. crashes = 0 /\ ~Crash
  <2>1. ~Crash
    BY <1>0 DEF Crash
  <2>2. ASSUME NEW h \in Goals, User(h) PROVE UNCHANGED crashes
    BY <2>2 DEF User, StartGoal, Stray, Deny, Confirm, Supply
  <2>3. ASSUME NEW h \in Goals, Run(h) PROVE UNCHANGED crashes
    BY <2>3 DEF Run, StepEnded, StepIdle, StepReady, StepEnds, TaskStopped, TaskStarts, TaskDone,
                TaskRetries, TaskFails, ReplanKeeps, ReplanAborts, ReplanSkips, ReplanReplaces,
                Replanned
  <2>4. ASSUME Consume \/ UNCHANGED vars PROVE UNCHANGED crashes
    BY <2>4 DEF Consume, PlanReady, PlanFails, Resume, vars
  <2> QED
    BY <2>1, <2>2, <2>3, <2>4 DEF Next
<1>2. Rests(g) /\ Unfinished(g)
  BY <1>1 DEF NoticedInv
<1>same. ASSUME UNCHANGED <<gstatus[g], tstatus[g], runner[g]>>, Resuming(g)' <=> Resuming(g)
         PROVE  Kept
  <2>1. Tasks(g)' = Tasks(g) /\ Answered(g)' = Answered(g)
    BY <1>same DEF Tasks, Answered
  <2> QED
    BY <1>2, <1>same, <2>1 DEF Rests, Unfinished
<1>ended. ASSUME gstatus'[g] \notin {"blocked", "executing"} PROVE Kept
  BY <1>ended DEF Rests, Unfinished
<1>goes. ASSUME gstatus'[g] # "blocked", runner'[g] # "off" PROVE Kept
  BY <1>goes DEF Rests, Unfinished
<1>3. ASSUME NEW h \in Goals \ {g}, User(h) \/ Run(h) PROVE Kept
  BY <1>3, <1>same, OthersApart
<1>4. ASSUME User(g) PROVE Kept
  <2>1. CASE StartGoal(g)
    BY <1>0, <1>ended, <2>1 DEF StartGoal
  <2>2. ASSUME ConsumerFree, FindBlocked(g)
        PROVE  /\ gstatus[g] = "blocked" /\ runner[g] = "off" /\ consumer.phase = "idle"
               /\ Answered(g) # {}
               /\ \A t \in Tasks(g) : tstatus[g][t] \in Terminal \cup {"blocked"}
    BY <1>2, <2>2 DEF ConsumerFree, FindBlocked, Last, BlockedGoals, Idle, Rests, Resuming
  <2>3. CASE Stray(g)
    BY <2>2, <2>3 DEF Stray
  <2>4. ASSUME NEW t \in Slots, Deny(g, t) PROVE Kept
    <3>1. /\ UNCHANGED <<gstatus, consumer>>
          /\ runner'[g] = "new" /\ gstatus[g] = "blocked" /\ consumer.phase = "idle"
      BY <1>0, <2>2, <2>4 DEF Deny, Wake
    <3>2. \A u \in Slots : tstatus'[g][u] = IF u = t THEN "failed" ELSE tstatus[g][u]
      BY <1>0, <2>4 DEF Deny
    <3>3. \A u \in Tasks(g)' : tstatus'[g][u] \in Terminal \cup {"blocked"}
      BY <2>2, <2>4, <3>2 DEF Deny, Tasks, Terminal
    <3> QED
      BY <3>1, <3>3 DEF Rests, Unfinished, Resuming
  <2>5. ASSUME NEW t \in Slots, Confirm(g, t) \/ Supply(g, t) PROVE Kept
    <3>1. UNCHANGED <<gstatus, runner>> /\ gstatus[g] = "blocked" /\ runner[g] = "off" /\ Resuming(g)'
      BY <2>2, <2>5 DEF Confirm, Supply, Resuming
    <3> QED
      BY <3>1 DEF Rests, Unfinished
  <2> QED
    BY <1>4, <2>1, <2>3, <2>4, <2>5 DEF User
<1>5. ASSUME Run(g) PROVE Kept
  <2>1. /\ runner[g] # "off" /\ (loop = g \/ consumer.phase # "resuming") /\ UNCHANGED consumer
    BY <1>5 DEF Run, StepEnded, StepIdle, StepReady, StepEnds, TaskStopped, TaskStarts, NextTask,
                TaskDone, TaskRetries, TaskFails, ReplanKeeps, ReplanAborts, ReplanSkips,
                ReplanReplaces, Replanned, Stepping, Executed, LoopFree, store
  <2>2. ~Resuming(g) /\ ~Resuming(g)'
    <3>1. g # 0
      BY BoundAssumption DEF Goals
    <3> QED
      BY <2>1, <3>1 DEF IInv, FreshInv, Resuming
  <2>3. gstatus[g] = "blocked" =>
          runner[g] = "new" /\ \A t \in Tasks(g) : tstatus[g][t] \in Terminal \cup {"blocked"}
    BY <1>2, <2>1, <2>2 DEF Rests
  <2>4. CASE StepEnded(g)
    BY <1>ended, <2>4 DEF StepEnded, store
  <2>5. ASSUME gstatus'[g] = Completion(g), UNCHANGED tstatus[g], runner'[g] = "off"
        PROVE  Kept
    <3>1. Tasks(g)' = Tasks(g) /\ Answered(g)' = Answered(g)
      BY <2>5 DEF Tasks, Answered
    <3> DEFINE left == {t \in Tasks(g) : tstatus[g][t] \notin Terminal}
    <3>2. CASE left = {}
      BY <1>ended, <2>5, <3>2 DEF Completion
    <3>3. CASE left # {} /\ \A t \in left : tstatus[g][t] = "blocked"
      <4>1. Answered(g) # {} /\ \A t \in Tasks(g) : tstatus[g][t] \in Terminal \cup {"blocked"}
        BY <3>3 DEF Answered
      <4>2. gstatus'[g] = "blocked"
        BY <2>5, <3>3 DEF Completion
      <4> QED
        BY <2>2, <2>5, <3>1, <4>1, <4>2 DEF Rests, Unfinished
    <3>4. CASE left # {} /\ ~ \A t \in left : tstatus[g][t] = "blocked"
      <4>1. gstatus'[g] = gstatus[g]
        BY <2>5, <3>4 DEF Completion
      <4>2. gstatus[g] # "blocked"
        BY <2>3, <3>4
      <4>3. \E t \in Tasks(g) : tstatus[g][t] \notin Terminal
        BY <3>4
      <4> QED
        BY <2>5, <3>1, <4>1, <4>2, <4>3 DEF Rests, Unfinished
    <3> QED
      BY <3>2, <3>3, <3>4
  <2>6. CASE StepIdle(g)
    BY <1>0, <2>5, <2>6 DEF StepIdle
  <2>7. CASE StepReady(g)
    <3>1. gstatus[g] # "blocked"
      BY <2>3, <2>7 DEF StepReady, Ready, Terminal
    <3> QED
      BY <1>0, <1>goes, <2>7, <3>1 DEF StepReady, store
  <2>8. CASE StepEnds(g)
    <3>1. /\ runner[g] = "batch" /\ UNCHANGED tstatus
          /\ gstatus'[g] = Completion(g)
          /\ runner'[g] = IF ~Completed(g) /\ ran[g] THEN "step" ELSE "off"
      BY <1>0, <2>8 DEF StepEnds
    <3>2. CASE ~Completed(g) /\ ran[g]
      <4>1. Completion(g) = gstatus[g]
        BY <3>2 DEF Completed, Completion, Terminal
      <4> QED
        BY <1>goes, <2>3, <3>1, <3>2, <4>1
    <3> QED
      BY <2>5, <3>1, <3>2
  <2>9. ASSUME runner[g] \in {"batch", "exec", "replan"}, runner'[g] # "off",
               gstatus'[g] \in {gstatus[g], "failed"}
        PROVE  Kept
    BY <1>goes, <2>3, <2>9
  <2>10. ASSUME NEW t \in Slots, TaskStopped(g, t) \/ TaskStarts(g, t) PROVE Kept
    BY <1>0, <2>9, <2>10 DEF TaskStopped, TaskStarts, NextTask
  <2>11. ASSUME TaskDone(g) \/ TaskRetries(g) \/ TaskFails(g) PROVE Kept
    BY <1>0, <2>9, <2>11 DEF TaskDone, TaskRetries, TaskFails, Executed
  <2>12. ASSUME \/ ReplanKeeps(g) \/ ReplanAborts(g) \/ ReplanSkips(g)
                \/ \E new \in Replacements : ReplanReplaces(g, new)
         PROVE  Kept
    BY <1>0, <2>9, <2>12 DEF ReplanKeeps, ReplanAborts, ReplanSkips, ReplanReplaces, Replanned
  <2> QED
    BY <1>5, <2>4, <2>6, <2>7, <2>8, <2>10, <2>11, <2>12 DEF Run
<1>6. ASSUME NEW plan \in Plans, PlanReady(plan) PROVE Kept
  <2>1. /\ consumer.phase = "planning" /\ consumer' = Idle /\ consumer.goal \in Goals
    BY <1>6 DEF PlanReady, IInv, FreshInv
  <2>2. CASE g = consumer.goal
    BY <1>0, <1>6, <1>goes, <2>2 DEF PlanReady
  <2>3. CASE g # consumer.goal
    <3>1. UNCHANGED <<gstatus[g], tstatus[g], runner[g]>>
      BY <1>0, <1>6, <2>1, <2>3 DEF PlanReady
    <3> QED
      BY <1>same, <2>1, <3>1 DEF Resuming, Idle
  <2> QED
    BY <2>2, <2>3
<1>7. ASSUME PlanFails PROVE Kept
  BY <1>7, <1>same DEF PlanFails, store, Resuming, Idle
<1>8. ASSUME Resume PROVE Kept
  <2>1. consumer.phase = "resuming" /\ consumer.goal \in Goals /\ consumer' = Idle
    BY <1>8 DEF Resume, IInv, FreshInv
  <2>2. CASE g = consumer.goal
    BY <1>0, <1>8, <1>goes, <2>2 DEF Resume, Wake
  <2>3. CASE g # consumer.goal
    <3>1. UNCHANGED <<gstatus[g], tstatus[g], runner[g]>>
      BY <1>0, <1>8, <2>1, <2>3 DEF Resume, Wake
    <3> QED
      BY <1>same, <2>1, <2>3, <3>1 DEF Resuming, Idle
  <2> QED
    BY <2>2, <2>3
<1>9. ASSUME UNCHANGED vars PROVE Kept
  BY <1>9, <1>same DEF vars, store, volatile, Resuming
<1> HIDE DEF Kept
<1>10. ASSUME NEW h \in Goals, User(h) \/ Run(h) PROVE Kept
  BY <1>3, <1>4, <1>5, <1>10
<1>11. ASSUME Consume PROVE Kept
  BY <1>6, <1>7, <1>8, <1>11 DEF Consume
<1>12. Kept
  BY <1>1, <1>9, <1>10, <1>11 DEF Next
<1> QED
  BY <1>12 DEF Kept

(* Without a crash, no coroutine stops without a look at what is left           *)
(* (planner/engine.py, run_goal and _check_goal_completion): a goal whose tasks *)
(* have ended is not left EXECUTING, a BLOCKED one has a task to answer for.    *)
THEOREM NoticedSafe == Spec => []Noticed
<1>1. Init => NoticedInv
  BY DEF Init, NoticedInv, Rests, Unfinished
<1>2. IInv /\ NoticedInv /\ [Next]_vars => NoticedInv'
  BY NoticedStep
<1>3. NoticedInv => Noticed
  BY DEF NoticedInv, Noticed, Rests, Unfinished, Resuming
<1> QED
  BY <1>1, <1>2, <1>3, Invariance, PTL DEF Spec

(* A coroutine that executes a task records how it ended before it does         *)
(* anything else; only a crash leaves the task RUNNING (planner/engine.py,      *)
(* step).                                                                       *)
THEOREM RecordedSafe == Spec => Recorded
<1>1. ASSUME IInv, [Next]_vars
      PROVE  [\A g \in Goals : runner[g] = "exec" /\ runner'[g] # "exec" =>
                tstatus'[g][at[g]] # "running" \/ crashes' # crashes]_vars
  <2> SUFFICES ASSUME NEW g \in Goals, runner[g] = "exec", runner'[g] # "exec"
               PROVE  tstatus'[g][at[g]] # "running" \/ crashes' # crashes
    OBVIOUS
  <2>0. /\ tstatus \in [Goals -> [Slots -> TaskStatuses]]
        /\ runner \in [Goals -> RunnerStates]
        /\ at[g] \in Slots
        /\ crashes \in Nat
    BY <1>1, BoundAssumption DEF IInv, TypeOK, AtInv
  <2>1. ASSUME NEW h \in Goals \ {g}, User(h) \/ Run(h) PROVE FALSE
    BY <1>1, <2>1, OthersApart
  <2>2. ~User(g)
    BY <2>0 DEF User, StartGoal, Stray, Deny, Confirm, Supply, Wake
  <2>3. ASSUME NEW plan \in Plans, PlanReady(plan) PROVE FALSE
    <3>1. consumer.goal \in Goals /\ gstatus[consumer.goal] = "planning"
      BY <1>1, <2>3 DEF PlanReady, IInv, FreshInv
    <3>2. runner[consumer.goal] = "off"
      BY <1>1, <3>1 DEF IInv, FreshInv
    <3> QED
      BY <2>0, <2>3, <3>1, <3>2 DEF PlanReady
  <2>4. ~PlanFails /\ ~Resume
    BY <2>0 DEF PlanFails, Resume, Wake
  <2>5. CASE TaskDone(g) \/ TaskRetries(g) \/ TaskFails(g)
    BY <2>0, <2>5 DEF TaskDone, TaskRetries, TaskFails
  <2>6. CASE Crash
    BY <2>0, <2>6 DEF Crash
  <2>7. ASSUME Run(g), ~TaskDone(g), ~TaskRetries(g), ~TaskFails(g) PROVE FALSE
    BY <2>0, <2>7 DEF Run, StepEnded, StepIdle, StepReady, StepEnds, TaskStopped, TaskStarts, NextTask,
                ReplanKeeps, ReplanAborts, ReplanSkips, ReplanReplaces, Replanned, Stepping
  <2>8. ~ UNCHANGED vars
    BY DEF vars, volatile
  <2> QED
    BY <1>1, <2>1, <2>2, <2>3, <2>4, <2>5, <2>6, <2>7, <2>8 DEF Next, Consume
<1> QED
  BY <1>1, Invariance, PTL DEF Spec, Recorded
-----------------------------------------------------------------------------
(* The engine implements Workflow.                                              *)

(* All a step may do to the hands that a task is in.                            *)
Handles(g) ==
  \/ UNCHANGED <<runner[g], at[g]>>
  \/ runner[g] \notin {"exec", "replan"} /\ runner'[g] \notin {"exec", "replan"}
  \/ \E t \in Slots : TaskStarts(g, t)
  \/ TaskDone(g) \/ TaskRetries(g) \/ TaskFails(g)
  \/ Replanned(g)
  \/ Crash

LEMMA StepHandles ==
  ASSUME IInv, [Next]_vars, NEW g \in Goals
  PROVE  Handles(g)
<1>0. /\ runner \in [Goals -> RunnerStates]
      /\ at \in [Goals -> Slots \cup {0}]
  BY DEF IInv, TypeOK
<1> USE DEF Handles
<1>1. ASSUME NEW h \in Goals, User(h) PROVE Handles(g)
  <2>1. /\ UNCHANGED at
        /\ runner' = runner \/ runner' = [runner EXCEPT ![h] = IF @ = "off" THEN "new" ELSE @]
    BY <1>1 DEF User, StartGoal, Stray, Deny, Confirm, Supply, Wake, store
  <2> QED
    BY <1>0, <2>1
<1>2. ASSUME Consume PROVE Handles(g)
  <2>1. ASSUME NEW plan \in Plans, PlanReady(plan) PROVE Handles(g)
    <3>1. consumer.goal \in Goals /\ runner[consumer.goal] = "off"
      BY <2>1 DEF PlanReady, IInv, FreshInv
    <3> QED
      BY <1>0, <2>1, <3>1 DEF PlanReady
  <2>2. CASE PlanFails
    BY <2>2 DEF PlanFails
  <2>3. CASE Resume
    BY <1>0, <2>3 DEF Resume, Wake
  <2> QED
    BY <1>2, <2>1, <2>2, <2>3 DEF Consume
<1>3. ASSUME NEW h \in Goals \ {g}, Run(h) PROVE UNCHANGED <<runner[g], at[g]>>
  BY <1>0, <1>3 DEF Run, StepEnded, StepIdle, StepReady, StepEnds, TaskStopped, TaskStarts,
                TaskDone, TaskRetries, TaskFails, ReplanKeeps, ReplanAborts, ReplanSkips,
                ReplanReplaces, Replanned, store
<1>4. ASSUME Run(g) PROVE Handles(g)
  <2>1. CASE StepEnded(g) \/ StepIdle(g) \/ StepReady(g) \/ StepEnds(g)
    BY <1>0, <2>1 DEF StepEnded, StepIdle, StepReady, StepEnds, Stepping
  <2>2. ASSUME NEW t \in Slots, TaskStopped(g, t) PROVE Handles(g)
    BY <2>2 DEF TaskStopped
  <2>3. ASSUME \/ ReplanKeeps(g) \/ ReplanAborts(g) \/ ReplanSkips(g)
               \/ \E new \in Replacements : ReplanReplaces(g, new)
        PROVE  Replanned(g)
    BY <2>3 DEF ReplanKeeps, ReplanAborts, ReplanSkips, ReplanReplaces
  <2> QED
    BY <1>4, <2>1, <2>2, <2>3 DEF Run
<1>5. ASSUME UNCHANGED vars PROVE Handles(g)
  BY <1>5 DEF vars, volatile
<1> HIDE DEF Handles
<1>6. ASSUME NEW h \in Goals, Run(h) PROVE Handles(g)
  BY <1>3, <1>4, <1>6 DEF Handles
<1>7. ASSUME Crash PROVE Handles(g)
  BY <1>7 DEF Handles
<1> QED
  BY <1>1, <1>2, <1>5, <1>6, <1>7 DEF Next

(* The model is asked to replan only for a task without attempts left.          *)
ExhaustedInv == \A g \in Goals : runner[g] = "replan" => attempts[g][at[g]] = MaxAttempts

LEMMA ExhaustedStep == IInv /\ ExhaustedInv /\ [Next]_vars => ExhaustedInv'
<1> SUFFICES ASSUME IInv, ExhaustedInv, [Next]_vars, NEW g \in Goals, runner'[g] = "replan"
             PROVE  attempts'[g][at'[g]] = MaxAttempts
  BY DEF ExhaustedInv
<1>0. /\ runner \in [Goals -> RunnerStates]
      /\ attempts \in [Goals -> [Slots -> 0 .. MaxAttempts]]
  BY DEF IInv, TypeOK
<1>1. Handles(g)
  BY StepHandles
<1>2. CASE UNCHANGED <<runner[g], at[g]>>
  <2>1. at[g] \in Slots /\ tstatus[g][at[g]] = "failed" /\ attempts[g][at[g]] = MaxAttempts
    BY <1>2 DEF IInv, AtInv, ExhaustedInv
  <2>2. Moves(g, at[g])
    BY <2>1, StepMoves
  <2>3. UNCHANGED attempts[g][at[g]]
    BY <2>1, <2>2 DEF Moves, Move, Ready
  <2> QED
    BY <1>2, <2>1, <2>3
<1>3. CASE TaskFails(g)
  <2>1. at[g] \in Slots /\ attempts[g][at[g]] >= MaxAttempts /\ UNCHANGED <<attempts, at>>
    BY <1>3 DEF TaskFails, Executed, IInv, AtInv
  <2>2. attempts[g][at[g]] \in 0 .. MaxAttempts /\ MaxAttempts \in Nat
    BY <1>0, <2>1, BoundAssumption
  <2>3. attempts[g][at[g]] = MaxAttempts
    BY <2>1, <2>2
  <2> QED
    BY <2>1, <2>3
<1>4. ASSUME \/ \E t \in Slots : TaskStarts(g, t)
             \/ TaskDone(g) \/ TaskRetries(g) \/ Replanned(g) \/ Crash
      PROVE  FALSE
  BY <1>0, <1>4 DEF TaskStarts, TaskDone, TaskRetries, Replanned, Crash
<1> QED
  BY <1>1, <1>2, <1>3, <1>4 DEF Handles

(* One goal's tasks change, or one of its tasks.                                *)
LEMMA GoalLives ==
  ASSUME NEW g \in Goals, NEW row,
         \A t \in Slots : Life(g, t)' = row[t],
         row = [t \in Slots |-> row[t]],
         \A h \in Goals \ {g}, t \in Slots : Life(h, t)' = Life(h, t)
  PROVE  Lives' = [Lives EXCEPT ![g] = row]
<1> DEFINE Then(h) == [t \in Slots |-> Life(h, t)']
           Now(h) == [t \in Slots |-> Life(h, t)]
<1>1. Then(g) = row
  <2>1. Then(g) = [t \in Slots |-> row[t]]
    OBVIOUS
  <2> QED
    BY <2>1
<1>2. \A h \in Goals \ {g} : Then(h) = Now(h)
  OBVIOUS
<1>3. Lives' = [h \in Goals |-> Then(h)] /\ Lives = [h \in Goals |-> Now(h)]
  BY DEF Lives
<1> HIDE DEF Then, Now
<1> QED
  BY <1>1, <1>2, <1>3

LEMMA TaskLives ==
  ASSUME NEW g \in Goals, NEW t \in Slots, NEW s, Life(g, t)' = s,
         \A h \in Goals, u \in Slots : h # g \/ u # t => Life(h, u)' = Life(h, u)
  PROVE  Lives' = [Lives EXCEPT ![g][t] = s]
<1>1. Lives' = [Lives EXCEPT ![g] = [Lives[g] EXCEPT ![t] = s]]
  <2> DEFINE row == [Lives[g] EXCEPT ![t] = s]
  <2>1. row = [u \in Slots |-> IF u = t THEN s ELSE Life(g, u)]
    BY DEF Lives
  <2>2. \A u \in Slots : Life(g, u)' = row[u]
    BY <2>1
  <2>3. row = [u \in Slots |-> row[u]]
    BY <2>1
  <2>4. \A h \in Goals \ {g}, u \in Slots : Life(h, u)' = Life(h, u)
    OBVIOUS
  <2> HIDE DEF row
  <2>5. Lives' = [Lives EXCEPT ![g] = row]
    BY <2>2, <2>3, <2>4, GoalLives
  <2> QED
    BY <2>5 DEF row
<1> QED
  BY <1>1

LEMMA SameLives ==
  ASSUME \A g \in Goals, t \in Slots : Life(g, t)' = Life(g, t)
  PROVE  Lives' = Lives
BY DEF Lives

(* A step that gives one task a new status, and no other task changes hands.    *)
Touches(g, t, s) ==
  /\ tstatus' = [tstatus EXCEPT ![g][t] = s]
  /\ \A h \in Goals, u \in Slots : h # g \/ u # t => (InHand(h, u)' <=> InHand(h, u))

LEMMA OneTask ==
  ASSUME IInv, NEW g \in Goals, NEW t \in Slots, NEW s, Touches(g, t, s)
  PROVE  Lives' = [Lives EXCEPT ![g][t] = Life(g, t)'] /\ tstatus'[g][t] = s
<1> USE DEF Touches
<1>1. tstatus \in [Goals -> [Slots -> TaskStatuses]]
  BY DEF IInv, TypeOK
<1>2. \A h \in Goals, u \in Slots : h # g \/ u # t => tstatus'[h][u] = tstatus[h][u]
  BY <1>1
<1>3. \A h \in Goals, u \in Slots : h # g \/ u # t => Life(h, u)' = Life(h, u)
  BY <1>2 DEF Life
<1>4. tstatus'[g][t] = s
  BY <1>1
<1>5. Lives' = [Lives EXCEPT ![g][t] = Life(g, t)']
  BY <1>3, TaskLives
<1> QED
  BY <1>4, <1>5

(* A step that changes no task and neither takes nor leaves one.                *)
LEMMA NoTask ==
  ASSUME UNCHANGED tstatus,
         \A g \in Goals, t \in Slots : InHand(g, t)' <=> InHand(g, t)
  PROVE  UNCHANGED Lives
<1>1. \A g \in Goals, t \in Slots : Life(g, t)' = Life(g, t)
  BY DEF Life
<1> QED
  BY <1>1, SameLives

(* What Workflow sees of a task, and of a goal that has a coroutine.            *)
LEMMA Seen ==
  ASSUME IInv, NEW g \in Goals
  PROVE  /\ \A t \in Slots : Lives[g][t] = Life(g, t)
         /\ \A t \in Ready(g) : t \in Slots /\ Lives[g][t] = "todo" /\ Flow!Met(g, t)
         /\ runner[g] # "off" => g \notin Finished
         /\ runner[g] # "exec" => \A t \in Slots : Lives[g][t] # "doing"
<1>1. \A t \in Slots : Lives[g][t] = Life(g, t)
  BY DEF Lives
<1>2. /\ tstatus \in [Goals -> [Slots -> TaskStatuses]]
      /\ deps \in [Goals -> [Slots -> SUBSET Slots]]
  BY DEF IInv, TypeOK
<1>3. ASSUME NEW t \in Ready(g)
      PROVE  t \in Slots /\ Lives[g][t] = "todo" /\ Flow!Met(g, t)
  <2>1. t \in Slots /\ tstatus[g][t] = "pending" /\ \A d \in deps[g][t] : tstatus[g][d] = "done"
    BY DEF Ready, Tasks
  <2>2. \A d \in deps[g][t] : Lives[g][d] = "done"
    BY <1>1, <1>2, <2>1 DEF Life
  <2> QED
    BY <1>1, <2>1, <2>2 DEF Life, Flow!Met
<1>4. runner[g] # "off" => g \notin Finished
  BY DEF IInv, DoneInv, Finished
<1>5. ASSUME runner[g] # "exec", NEW t \in Slots PROVE Life(g, t) # "doing"
  BY <1>2, <1>5, SMTT(20) DEF Life, InHand, TaskStatuses
<1> QED
  BY <1>1, <1>3, <1>4, <1>5

(* A goal that nobody closes.                                                   *)
LEMMA SameFinished ==
  ASSUME \A g \in Goals : gstatus'[g] = "done" <=> gstatus[g] = "done"
  PROVE  UNCHANGED Finished
BY DEF Finished

(* The plan of the model becomes the tasks of the goal.                         *)
LEMMA PlanRefines ==
  ASSUME IInv, NEW plan \in Plans, PlanReady(plan)
  PROVE  \E g \in Goals \ Finished : Flow!Plan(g)
<1> DEFINE edges == [t \in Slots |-> IF t <= Len(plan) THEN plan[t].deps ELSE {}]
           tasks == {t \in Slots : t <= Len(plan)}
           row == [t \in Slots |-> IF t \in tasks THEN "todo" ELSE "none"]
<1>0. /\ gstatus \in [Goals -> GoalStatuses]
      /\ tstatus \in [Goals -> [Slots -> TaskStatuses]]
      /\ runner \in [Goals -> RunnerStates]
      /\ deps \in [Goals -> [Slots -> SUBSET Slots]]
  BY DEF IInv, TypeOK
<1> PICK g \in Goals : g = consumer.goal
  BY DEF PlanReady, IInv, FreshInv
<1>1. g \in Goals /\ gstatus[g] = "planning" /\ runner[g] = "off" /\ Tasks(g) = {}
  BY DEF PlanReady, IInv, FreshInv
<1>2. /\ tstatus' = [tstatus EXCEPT ![g] =
                       [t \in Slots |-> IF t <= Len(plan) THEN "pending" ELSE "absent"]]
      /\ deps' = [deps EXCEPT ![g] = edges]
      /\ gstatus' = [gstatus EXCEPT ![g] = "executing"]
      /\ runner' = [runner EXCEPT ![g] = "new"]
      /\ UNCHANGED <<attempts, at>>
  BY DEF PlanReady
<1>3. \A t \in Slots : Lives[g][t] = "none"
  BY <1>1 DEF Lives, Life, Tasks
<1>4. \A t \in Slots : Life(g, t)' = row[t]
  <2>1. \A t \in Slots : tstatus'[g][t] = IF t <= Len(plan) THEN "pending" ELSE "absent"
    BY <1>0, <1>1, <1>2
  <2> QED
    BY <2>1 DEF Life
<1>5. \A h \in Goals \ {g}, t \in Slots : Life(h, t)' = Life(h, t)
  <2>1. \A h \in Goals \ {g} : UNCHANGED <<tstatus[h], runner[h], at[h]>>
    BY <1>0, <1>2
  <2> QED
    BY <2>1 DEF Life, InHand
<1>6. Lives' = [Lives EXCEPT ![g] = row]
  <2>1. row = [t \in Slots |-> row[t]]
    OBVIOUS
  <2> HIDE DEF row
  <2> QED
    BY <1>1, <1>4, <1>5, <2>1, GoalLives
<1>7. deps'[g] = edges /\ deps' = [deps EXCEPT ![g] = deps'[g]]
  BY <1>0, <1>1, <1>2
<1>8. \A t \in Slots : deps'[g][t] \subseteq {d \in Slots : d < t}
  <2>1. ASSUME NEW t \in Slots, t <= Len(plan)
        PROVE  plan[t].deps \subseteq {d \in Slots : d < t}
    <3>1. t \in 1 .. Len(plan)
      BY <2>1, PlanProps, BoundAssumption DEF Slots
    <3>2. plan[t].deps \in SUBSET Slots /\ plan[t].deps \subseteq 1 .. t - 1
      BY <3>1, PlanProps
    <3> QED
      BY <3>2, BoundAssumption DEF Slots
  <2> QED
    BY <1>7, <2>1
<1>9. UNCHANGED Finished /\ g \in Goals \ Finished
  BY <1>0, <1>1, <1>2, SameFinished DEF Finished
<1>10. tasks \in SUBSET Slots
  OBVIOUS
<1> HIDE DEF edges, tasks
<1>11. Flow!Plan(g)
  BY <1>2, <1>3, <1>6, <1>7, <1>8, <1>9, <1>10, Zenon DEF Flow!Plan
<1> QED
  BY <1>9, <1>11

(* An answer decides the task it is for.                                        *)
LEMMA AnswerRefines ==
  ASSUME IInv, NEW g \in Goals, NEW t \in Slots, Deny(g, t) \/ Confirm(g, t) \/ Supply(g, t)
  PROVE  g \in Goals \ Finished /\ Flow!Decide(g, t)
<1>0. runner \in [Goals -> RunnerStates]
  BY DEF IInv, TypeOK
<1>1. /\ gstatus[g] = "blocked" /\ tstatus[g][t] = "blocked"
      /\ UNCHANGED <<gstatus, deps, attempts, at>>
      /\ runner' = runner \/ runner' = [runner EXCEPT ![g] = IF @ = "off" THEN "new" ELSE @]
  BY DEF Deny, Confirm, Supply, FindBlocked, Last, BlockedGoals, First, Answered, Wake
<1>2. PICK s \in {"failed", "pending", "done"} : tstatus' = [tstatus EXCEPT ![g][t] = s]
  BY DEF Deny, Confirm, Supply
<1>3. \A h \in Goals, u \in Slots : InHand(h, u)' <=> InHand(h, u)
  BY <1>0, <1>1 DEF InHand
<1>4. Lives' = [Lives EXCEPT ![g][t] = Life(g, t)'] /\ tstatus'[g][t] = s
  BY <1>2, <1>3, OneTask DEF Touches
<1>5. Life(g, t)' \in {"failed", "todo", "done"}
  BY <1>4 DEF Life
<1>6. UNCHANGED Finished /\ g \in Goals \ Finished
  BY <1>1, SameFinished DEF Finished
<1>7. Lives[g][t] = "asked"
  BY <1>1 DEF Lives, Life
<1> QED
  BY <1>1, <1>4, <1>5, <1>6, <1>7 DEF Flow!Decide, Flow!Becomes

(* A ready task is refused or blocked, or begun.                                *)
LEMMA TaskRefines ==
  ASSUME IInv, NEW g \in Goals, NEW t \in Slots, TaskStopped(g, t) \/ TaskStarts(g, t)
  PROVE  g \in Goals \ Finished /\ (Flow!Stop(g, t) \/ Flow!Begin(g, t))
<1>0. /\ runner \in [Goals -> RunnerStates]
      /\ attempts \in [Goals -> [Slots -> 0 .. MaxAttempts]]
      /\ at \in [Goals -> Slots \cup {0}]
  BY DEF IInv, TypeOK
<1>1. /\ runner[g] = "batch" /\ t \in Ready(g)
      /\ UNCHANGED <<gstatus, deps>>
  BY DEF TaskStopped, TaskStarts, NextTask, First, IInv, BatchInv
<1>2. /\ Lives[g][t] = "todo" /\ Flow!Met(g, t) /\ g \in Goals \ Finished
      /\ \A u \in Slots : Lives[g][u] # "doing"
  BY <1>1, Seen
<1>3. UNCHANGED Finished
  BY <1>1, SameFinished
<1>4. CASE TaskStopped(g, t)
  <2>1. UNCHANGED <<attempts, runner, at>>
    BY <1>4 DEF TaskStopped
  <2>2. PICK s \in {"failed", "blocked"} : tstatus' = [tstatus EXCEPT ![g][t] = s]
    BY <1>4 DEF TaskStopped
  <2>3. Lives' = [Lives EXCEPT ![g][t] = Life(g, t)'] /\ tstatus'[g][t] = s
    BY <2>1, <2>2, OneTask DEF InHand, Touches
  <2>4. Life(g, t)' \in {"failed", "asked"}
    BY <2>3 DEF Life
  <2> QED
    BY <1>1, <1>2, <1>3, <2>1, <2>3, <2>4 DEF Flow!Stop, Flow!Becomes
<1>5. CASE TaskStarts(g, t)
  <2>1. /\ tstatus' = [tstatus EXCEPT ![g][t] = "running"]
        /\ attempts' = [attempts EXCEPT ![g][t] = @ + 1]
        /\ at' = [at EXCEPT ![g] = t]
        /\ runner' = [runner EXCEPT ![g] = "exec"]
    BY <1>5 DEF TaskStarts
  <2>2. InHand(g, t)' /\ \A h \in Goals, u \in Slots : h # g \/ u # t => (InHand(h, u)' <=> InHand(h, u))
    BY <1>0, <1>1, <2>1 DEF InHand
  <2>3. Lives' = [Lives EXCEPT ![g][t] = Life(g, t)'] /\ tstatus'[g][t] = "running"
    BY <2>1, <2>2, OneTask DEF Touches
  <2>4. Life(g, t)' = "doing"
    BY <2>2, <2>3 DEF Life
  <2>5. attempts[g][t] < MaxAttempts
    BY <1>1 DEF IInv, AttemptsInv, Ready, Tasks
  <2> QED
    BY <1>1, <1>2, <1>3, <2>1, <2>3, <2>4, <2>5 DEF Flow!Begin, Flow!Becomes
<1> QED
  BY <1>4, <1>5

(* An execution ends.                                                           *)
LEMMA EndRefines ==
  ASSUME IInv, NEW g \in Goals, TaskDone(g) \/ TaskRetries(g) \/ TaskFails(g)
  PROVE  g \in Goals \ Finished /\ at[g] \in Slots /\ Flow!End(g, at[g])
<1>0. /\ runner \in [Goals -> RunnerStates]
      /\ attempts \in [Goals -> [Slots -> 0 .. MaxAttempts]]
      /\ at \in [Goals -> Slots \cup {0}]
  BY DEF IInv, TypeOK
<1> PICK t \in Slots : t = at[g]
  BY DEF TaskDone, TaskRetries, TaskFails, Executed, IInv, AtInv
<1>1. /\ runner[g] = "exec" /\ tstatus[g][t] = "running"
      /\ UNCHANGED <<gstatus, deps, attempts>>
  BY DEF TaskDone, TaskRetries, TaskFails, Executed, IInv, AtInv
<1>2. PICK s \in {"done", "pending", "failed"} :
        /\ tstatus' = [tstatus EXCEPT ![g][t] = s]
        /\ s = "pending" => attempts[g][t] < MaxAttempts
        /\ s = "failed" => attempts[g][t] >= MaxAttempts
  BY DEF TaskDone, TaskRetries, TaskFails
<1>3. /\ runner'[g] # "exec"
      /\ \A h \in Goals \ {g} : UNCHANGED <<runner[h], at[h]>>
  BY <1>0 DEF TaskDone, TaskRetries, TaskFails
<1>4. Lives[g][t] = "doing" /\ g \in Goals \ Finished
  BY <1>1, Seen DEF Life, InHand
<1>5. \A h \in Goals, u \in Slots : h # g \/ u # t => (InHand(h, u)' <=> InHand(h, u))
  BY <1>3 DEF InHand
<1>6. Lives' = [Lives EXCEPT ![g][t] = Life(g, t)'] /\ tstatus'[g][t] = s
  <2>1. Touches(g, t, s)
    BY <1>2, <1>5 DEF Touches
  <2> QED
    BY <2>1, OneTask
<1>7. Life(g, t)' = IF s = "pending" THEN "todo" ELSE s
  BY <1>6 DEF Life
<1>8. attempts[g][t] >= MaxAttempts => attempts[g][t] = MaxAttempts
  <2>1. attempts[g][t] \in 0 .. MaxAttempts /\ MaxAttempts \in Nat
    BY <1>0, <1>1, BoundAssumption
  <2> QED
    BY <2>1
<1>9. UNCHANGED Finished
  BY <1>1, SameFinished
<1>10. Flow!End(g, t)
  BY <1>1, <1>2, <1>4, <1>6, <1>7, <1>8, <1>9 DEF Flow!End, Flow!Becomes
<1> QED
  BY <1>4, <1>10

(* A task that failed for good is dropped, for new ones or for none.            *)
LEMMA ReplaceRefines ==
  ASSUME IInv, ExhaustedInv, NEW g \in Goals,
         ReplanSkips(g) \/ \E new \in Replacements : ReplanReplaces(g, new)
  PROVE  g \in Goals \ Finished /\ at[g] \in Slots /\ Flow!Replace(g, at[g])
<1>0. /\ tstatus \in [Goals -> [Slots -> TaskStatuses]]
      /\ deps \in [Goals -> [Slots -> SUBSET Slots]]
      /\ runner \in [Goals -> RunnerStates]
      /\ at \in [Goals -> Slots \cup {0}]
  BY DEF IInv, TypeOK
<1>1. Replanned(g)
  BY DEF ReplanSkips, ReplanReplaces
<1> PICK t \in Slots : t = at[g]
  BY <1>1 DEF Replanned, IInv, AtInv
<1>2. runner[g] = "replan" /\ tstatus[g][t] = "failed" /\ attempts[g][t] = MaxAttempts
  BY <1>1 DEF Replanned, IInv, AtInv, ExhaustedInv
<1>3. /\ UNCHANGED <<attempts, gstatus>> /\ runner'[g] # "exec"
      /\ \A h \in Goals \ {g} : UNCHANGED <<runner[h], at[h]>>
  BY <1>0 DEF ReplanSkips, ReplanReplaces, Replanned
<1>4. \A h \in Goals, u \in Slots : InHand(h, u)' <=> InHand(h, u)
  BY <1>2, <1>3 DEF InHand
<1>5. UNCHANGED Finished /\ g \in Goals \ Finished
  BY <1>2, <1>3, Seen, SameFinished
<1>6. Lives[g][t] = "failed" /\ \A u \in Slots : Lives[g][u] = "none" <=> tstatus[g][u] = "absent"
  <2>1. \A u \in Slots : tstatus[g][u] \in TaskStatuses
    BY <1>0
  <2> QED
    BY <1>2, <2>1 DEF Lives, Life, TaskStatuses
<1> DEFINE Row(new) == [u \in Slots |-> IF u = t THEN "skipped"
                                       ELSE IF u \in new THEN "todo" ELSE Lives[g][u]]
           Edges(new) == [u \in Slots |-> IF u \in new THEN deps[g][t] ELSE deps[g][u]]
           Drops(new) ==
             /\ \A u \in Slots : tstatus'[g][u] = IF u = t THEN "skipped"
                                                  ELSE IF u \in new THEN "pending" ELSE tstatus[g][u]
             /\ \A h \in Goals \ {g} : UNCHANGED tstatus[h]
             /\ deps' = [deps EXCEPT ![g] = Edges(new)]
<1>7. ASSUME NEW new \in SUBSET {u \in Slots : Lives[g][u] = "none"}, Drops(new)
      PROVE  Flow!Replace(g, t)
  <2>1. \A u \in Slots : Life(g, u)' = Row(new)[u]
    BY <1>4, <1>7 DEF Life, Lives
  <2>2. \A h \in Goals \ {g}, u \in Slots : Life(h, u)' = Life(h, u)
    BY <1>4, <1>7 DEF Life
  <2>3. Row(new) = [u \in Slots |-> Row(new)[u]]
    OBVIOUS
  <2>4. Lives' = [Lives EXCEPT ![g] = Row(new)]
    <3> HIDE DEF Row
    <3> QED
      BY <2>1, <2>2, <2>3, GoalLives
  <2> QED
    BY <1>2, <1>3, <1>5, <1>6, <1>7, <2>4 DEF Flow!Replace
<1>8. ASSUME ReplanSkips(g) PROVE Flow!Replace(g, t)
  <2> DEFINE none == {}
  <2>1. tstatus' = [tstatus EXCEPT ![g][t] = "skipped"] /\ deps' = deps
    BY <1>8 DEF ReplanSkips
  <2>2. Edges(none) = deps[g]
    BY <1>0
  <2>3. deps' = [deps EXCEPT ![g] = Edges(none)]
    BY <1>0, <2>1, <2>2
  <2>4. /\ \A u \in Slots : tstatus'[g][u] = IF u = t THEN "skipped" ELSE tstatus[g][u]
        /\ \A h \in Goals \ {g} : UNCHANGED tstatus[h]
    BY <1>0, <2>1
  <2>5. none \in SUBSET {u \in Slots : Lives[g][u] = "none"}
    OBVIOUS
  <2>6. Drops(none)
    BY <2>3, <2>4
  <2> HIDE DEF Drops, none
  <2> QED
    BY <1>7, <2>5, <2>6
<1>9. ASSUME NEW new \in Replacements, ReplanReplaces(g, new) PROVE Flow!Replace(g, t)
  <2> DEFINE n == TaskCount(g)
             span == n + 1 .. n + Len(new)
             added == {u \in Slots : u \in span}
  <2>1. n \in Nat /\ Tasks(g) = 1 .. n
    BY CountProps, BoundAssumption DEF IInv
  <2>2. \A u \in added : tstatus[g][u] = "absent"
    <3> HIDE DEF n
    <3>1. \A u \in span : u \notin 1 .. n
      BY <2>1, ReplacementProps
    <3> QED
      BY <2>1, <3>1 DEF Tasks
  <2>3. /\ tstatus' = [tstatus EXCEPT ![g] =
                         [u \in Slots |-> IF u = t THEN "skipped"
                                          ELSE IF u \in span THEN "pending" ELSE tstatus[g][u]]]
        /\ deps' = [deps EXCEPT ![g] =
                      [u \in Slots |-> IF u \in span THEN deps[g][t] ELSE deps[g][u]]]
    BY <1>9 DEF ReplanReplaces
  <2> HIDE DEF n, span
  <2>4. /\ \A u \in Slots : tstatus'[g][u] = IF u = t THEN "skipped"
                                             ELSE IF u \in added THEN "pending" ELSE tstatus[g][u]
        /\ \A h \in Goals \ {g} : UNCHANGED tstatus[h]
    BY <1>0, <2>3
  <2>5. [u \in Slots |-> IF u \in span THEN deps[g][t] ELSE deps[g][u]] = Edges(added)
    OBVIOUS
  <2>6. added \in SUBSET {u \in Slots : Lives[g][u] = "none"}
    BY <1>6, <2>2
  <2> HIDE DEF added
  <2>7. Drops(added)
    BY <2>3, <2>4, <2>5
  <2> HIDE DEF Drops
  <2> QED
    BY <1>7, <2>6, <2>7
<1> QED
  BY <1>5, <1>8, <1>9

(* Steps that Workflow does not see, but for a goal that is closed.             *)
LEMMA QuietRefines ==
  ASSUME IInv, UNCHANGED <<tstatus, deps, attempts>>,
         \A h \in Goals, u \in Slots : InHand(h, u)' <=> InHand(h, u),
         NEW g \in Goals,
         \A h \in Goals \ {g} : gstatus'[h] = "done" <=> gstatus[h] = "done",
         gstatus[g] # "done",
         gstatus'[g] = "done" => \A t \in Tasks(g) : tstatus[g][t] \in {"done", "skipped"}
  PROVE  Flow!Close(g) \/ UNCHANGED Flow!workflowVars
<1>1. UNCHANGED <<Lives, deps, attempts>>
  BY NoTask
<1>2. CASE gstatus'[g] # "done"
  <2>1. UNCHANGED Finished
    BY <1>2, SameFinished
  <2> QED
    BY <1>1, <2>1 DEF Flow!workflowVars
<1>3. CASE gstatus'[g] = "done"
  <2>1. Finished' = Finished \cup {g}
    BY <1>3 DEF Finished
  <2>2. \A t \in Slots : Lives[g][t] \in {"none", "done", "skipped"}
    BY <1>3 DEF Lives, Life, Tasks
  <2> QED
    BY <1>1, <2>1, <2>2 DEF Flow!Close
<1> QED
  BY <1>2, <1>3

(* Goals are started and resumed, coroutines come and go, the completion of a   *)
(* goal is checked.                                                             *)
LEMMA CourseRefines ==
  ASSUME IInv, [Next]_vars, NEW g \in Goals,
         \/ StartGoal(g) \/ Stray(g)
         \/ StepEnded(g) \/ StepIdle(g) \/ StepReady(g) \/ StepEnds(g)
         \/ ReplanKeeps(g) \/ ReplanAborts(g)
         \/ (Resume /\ g = consumer.goal)
  PROVE  (g \in Goals \ Finished /\ Flow!Close(g)) \/ UNCHANGED Flow!workflowVars
<1>0. /\ gstatus \in [Goals -> GoalStatuses]
      /\ tstatus \in [Goals -> [Slots -> TaskStatuses]]
      /\ runner \in [Goals -> RunnerStates]
      /\ at \in [Goals -> Slots \cup {0}]
  BY DEF IInv, TypeOK
<1>1. UNCHANGED <<tstatus, deps, attempts>>
  BY DEF StartGoal, Stray, StepEnded, StepIdle, StepReady, StepEnds, ReplanKeeps, ReplanAborts,
         Replanned, Resume, store
<1>2. /\ \A h \in Goals \ {g} : UNCHANGED <<gstatus[h], runner[h], at[h]>>
      /\ UNCHANGED <<runner[g], at[g]>> \/ (runner[g] # "exec" /\ runner'[g] # "exec")
  <2>1. CASE StartGoal(g) \/ Stray(g) \/ (Resume /\ g = consumer.goal)
    BY <1>0, <2>1 DEF StartGoal, Stray, Resume, Wake, store
  <2>2. CASE StepEnded(g) \/ StepIdle(g) \/ StepReady(g) \/ StepEnds(g)
    BY <1>0, <2>2 DEF StepEnded, StepIdle, StepReady, StepEnds, Stepping, store
  <2>3. CASE ReplanKeeps(g) \/ ReplanAborts(g)
    BY <1>0, <2>3 DEF ReplanKeeps, ReplanAborts, Replanned
  <2> QED
    BY <2>1, <2>2, <2>3
<1>3. \A h \in Goals, u \in Slots : InHand(h, u)' <=> InHand(h, u)
  BY <1>2 DEF InHand
<1>4. gstatus[g] # "done"
  <2>1. StartGoal(g) \/ Stray(g) \/ (Resume /\ g = consumer.goal) => gstatus[g] \in {"none", "blocked"}
    BY DEF StartGoal, Stray, FindBlocked, Last, BlockedGoals, Resume, IInv, FreshInv
  <2>2. ASSUME \/ StepEnded(g) \/ StepIdle(g) \/ StepReady(g) \/ StepEnds(g)
               \/ ReplanKeeps(g) \/ ReplanAborts(g)
        PROVE  runner[g] # "off"
    BY <2>2 DEF StepEnded, StepIdle, StepReady, StepEnds, Stepping, ReplanKeeps, ReplanAborts, Replanned
  <2> QED
    BY <2>1, <2>2 DEF IInv, DoneInv
<1>5. gstatus'[g] = "done" => \A t \in Tasks(g) : tstatus[g][t] \in {"done", "skipped"}
  BY <1>4, StepSteers DEF Steers, Verdicts
<1> QED
  BY <1>1, <1>2, <1>3, <1>4, <1>5, QuietRefines DEF Finished

(* A crash loses the tasks at hand.                                             *)
LEMMA CrashRefines ==
  ASSUME IInv, Crash
  PROVE  Flow!Halt
<1>1. /\ UNCHANGED <<tstatus, deps, attempts, gstatus>>
      /\ \A g \in Goals, t \in Slots : ~InHand(g, t)'
  BY DEF Crash, store, InHand
<1>2. \A g \in Goals, t \in Slots :
        Life(g, t)' = IF Lives[g][t] = "doing" THEN "lost" ELSE Lives[g][t]
  <2> SUFFICES ASSUME NEW g \in Goals, NEW t \in Slots
               PROVE  Life(g, t)' = IF Life(g, t) = "doing" THEN "lost" ELSE Life(g, t)
    BY DEF Lives
  <2>1. tstatus[g][t] \in TaskStatuses
    BY DEF IInv, TypeOK
  <2> QED
    BY <1>1, <2>1 DEF Life, TaskStatuses
<1>3. Lives' = [g \in Goals |-> [t \in Slots |->
                  IF Lives[g][t] = "doing" THEN "lost" ELSE Lives[g][t]]]
  BY <1>2 DEF Lives
<1>4. UNCHANGED Finished
  BY <1>1, SameFinished
<1> QED
  BY <1>1, <1>3, <1>4 DEF Flow!Halt

LEMMA StepRefines ==
  ASSUME IInv, ExhaustedInv, [Next]_vars
  PROVE  [Flow!WorkflowNext]_Flow!workflowVars
<1> DEFINE Refined == [Flow!WorkflowNext]_Flow!workflowVars
<1>task. ASSUME NEW g \in Goals \ Finished, NEW t \in Slots,
                Flow!Begin(g, t) \/ Flow!End(g, t) \/ Flow!Stop(g, t) \/ Flow!Decide(g, t)
                  \/ Flow!Replace(g, t)
         PROVE  Refined
  BY <1>task DEF Flow!WorkflowNext
<1>goal. ASSUME NEW g \in Goals,
                (g \in Goals \ Finished /\ Flow!Close(g)) \/ UNCHANGED Flow!workflowVars
         PROVE  Refined
  BY <1>goal DEF Flow!WorkflowNext
<1>same. ASSUME UNCHANGED <<gstatus, tstatus, deps, attempts, runner, at>> PROVE Refined
  <2>1. UNCHANGED <<Lives, Finished>>
    BY <1>same, NoTask, SameFinished DEF InHand
  <2> QED
    BY <1>same, <2>1 DEF Flow!workflowVars
<1>plan. ASSUME NEW plan \in Plans, PlanReady(plan) PROVE Refined
  BY <1>plan, PlanRefines DEF Flow!WorkflowNext
<1>crash. ASSUME Crash PROVE Refined
  BY <1>crash, CrashRefines DEF Flow!WorkflowNext
<1> HIDE DEF Refined
<1>1. ASSUME NEW g \in Goals, User(g) PROVE Refined
  <2>1. CASE StartGoal(g) \/ Stray(g)
    BY <1>goal, <2>1, CourseRefines
  <2>2. ASSUME NEW t \in Slots, Deny(g, t) \/ Confirm(g, t) \/ Supply(g, t) PROVE Refined
    BY <1>task, <2>2, AnswerRefines
  <2> QED
    BY <1>1, <2>1, <2>2 DEF User
<1>2. ASSUME NEW g \in Goals, Run(g) PROVE Refined
  <2>1. CASE \/ StepEnded(g) \/ StepIdle(g) \/ StepReady(g) \/ StepEnds(g)
             \/ ReplanKeeps(g) \/ ReplanAborts(g)
    BY <1>goal, <2>1, CourseRefines
  <2>2. ASSUME NEW t \in Slots, TaskStopped(g, t) \/ TaskStarts(g, t) PROVE Refined
    BY <1>task, <2>2, TaskRefines
  <2>3. CASE TaskDone(g) \/ TaskRetries(g) \/ TaskFails(g)
    BY <1>task, <2>3, EndRefines
  <2>4. CASE ReplanSkips(g) \/ \E new \in Replacements : ReplanReplaces(g, new)
    BY <1>task, <2>4, ReplaceRefines
  <2> QED
    BY <1>2, <2>1, <2>2, <2>3, <2>4 DEF Run
<1>3. ASSUME Consume PROVE Refined
  <2>1. CASE PlanFails
    BY <1>same, <2>1 DEF PlanFails, store
  <2>2. CASE Resume
    <3> PICK g \in Goals : g = consumer.goal
      BY <2>2 DEF Resume, IInv, FreshInv
    <3> QED
      BY <1>goal, <2>2, CourseRefines
  <2> QED
    BY <1>3, <1>plan, <2>1, <2>2 DEF Consume
<1>4. ASSUME UNCHANGED vars PROVE Refined
  BY <1>4, <1>same DEF vars, store, volatile
<1>5. Refined
  BY <1>crash, <1>1, <1>2, <1>3, <1>4 DEF Next
<1> QED
  BY <1>5 DEF Refined

LEMMA InitRefines == Init => ExhaustedInv /\ Flow!WorkflowInit
<1> SUFFICES ASSUME Init PROVE ExhaustedInv /\ Flow!WorkflowInit
  OBVIOUS
<1>1. ExhaustedInv
  BY DEF Init, ExhaustedInv
<1>2. \A g \in Goals, t \in Slots : Life(g, t) = "none"
  BY DEF Init, Life
<1>3. Lives = [g \in Goals |-> [t \in Slots |-> "none"]]
  BY <1>2 DEF Lives
<1>4. Finished = {}
  BY DEF Init, Finished
<1> QED
  BY <1>1, <1>3, <1>4 DEF Init, Flow!WorkflowInit

(* The goal engine (planner/engine.py with its store, approvals, replans, the   *)
(* consumer that routes answers, and crashes) implements Workflow: whatever is  *)
(* interleaved, a task is begun only when what it needs is done, alone in its   *)
(* goal and at most max_attempts times; only one that used them up is replaced, *)
(* by tasks that need what it needed; nothing happens in a goal that is DONE.   *)
THEOREM Refinement == Spec => ImplementsWorkflow
<1>1. Init => ExhaustedInv /\ Flow!WorkflowInit
  BY InitRefines
<1>2. IInv /\ ExhaustedInv /\ [Next]_vars => ExhaustedInv'
  BY ExhaustedStep
<1>3. IInv /\ ExhaustedInv /\ [Next]_vars => [Flow!WorkflowNext]_Flow!workflowVars
  BY StepRefines
<1> QED
  BY <1>1, <1>2, <1>3, Invariance, PTL DEF Spec, ImplementsWorkflow, Flow!WorkflowSpec
=============================================================================

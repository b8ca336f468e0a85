------------------------------- MODULE Workflow -------------------------------
(* What the goal engine promises of the tasks of its goals.  A task is begun    *)
(* only when those it needs are done, one at a time in a goal, and at most      *)
(* Limit times; it fails for want of luck only after the last of them, and only *)
(* then may others take its place, needing what it needed.  One that was being  *)
(* done when the process stopped is lost.  Nothing happens in a closed goal.    *)
EXTENDS Naturals

CONSTANTS Goals, Slots, Limit

VARIABLES life,     (* how far each task of each goal is                        *)
          needs,    (* the tasks it needs                                       *)
          tries,    (* how often it was begun                                   *)
          closed    (* the goals that were reported as done                     *)

workflowVars == <<life, needs, tries, closed>>

WorkflowInit ==
  /\ life = [g \in Goals |-> [t \in Slots |-> "none"]]
  /\ needs = [g \in Goals |-> [t \in Slots |-> {}]]
  /\ tries = [g \in Goals |-> [t \in Slots |-> 0]]
  /\ closed = {}

Becomes(g, t, after) ==
  /\ life' = [life EXCEPT ![g][t] = after]
  /\ UNCHANGED <<needs, closed>>

Met(g, t) == \A d \in needs[g][t] : life[g][d] = "done"

(* A goal gets its tasks: a task needs earlier ones.                            *)
Plan(g) ==
  /\ \A t \in Slots : life[g][t] = "none"
  /\ \E tasks \in SUBSET Slots :
       life' = [life EXCEPT ![g] = [t \in Slots |-> IF t \in tasks THEN "todo" ELSE "none"]]
  /\ \A t \in Slots : needs'[g][t] \subseteq {d \in Slots : d < t}
  /\ needs' = [needs EXCEPT ![g] = needs'[g]]
  /\ UNCHANGED <<tries, closed>>

Begin(g, t) ==
  /\ life[g][t] = "todo" /\ Met(g, t)
  /\ \A u \in Slots : life[g][u] # "doing"
  /\ tries[g][t] < Limit
  /\ Becomes(g, t, "doing")
  /\ tries' = [tries EXCEPT ![g][t] = @ + 1]

End(g, t) ==
  /\ life[g][t] = "doing"
  /\ \/ Becomes(g, t, "done")
     \/ Becomes(g, t, "todo") /\ tries[g][t] < Limit
     \/ Becomes(g, t, "failed") /\ tries[g][t] = Limit
  /\ UNCHANGED tries

(* A task that could begin is refused, or someone is asked for it.              *)
Stop(g, t) ==
  /\ life[g][t] = "todo" /\ Met(g, t)
  /\ Becomes(g, t, "failed") \/ Becomes(g, t, "asked")
  /\ UNCHANGED tries

(* It may begin now, it may not, or the answer is what it was for.              *)
Decide(g, t) ==
  /\ life[g][t] = "asked"
  /\ Becomes(g, t, "todo") \/ Becomes(g, t, "failed") \/ Becomes(g, t, "done")
  /\ UNCHANGED tries

(* A task that failed in its last attempt is dropped, for others or for none.   *)
Replace(g, t) ==
  /\ life[g][t] = "failed" /\ tries[g][t] = Limit
  /\ \E new \in SUBSET {u \in Slots : life[g][u] = "none"} :
       /\ life' = [life EXCEPT ![g] =
                     [u \in Slots |-> IF u = t THEN "skipped"
                                      ELSE IF u \in new THEN "todo" ELSE life[g][u]]]
       /\ needs' = [needs EXCEPT ![g] =
                      [u \in Slots |-> IF u \in new THEN needs[g][t] ELSE needs[g][u]]]
  /\ UNCHANGED <<tries, closed>>

Close(g) ==
  /\ \A t \in Slots : life[g][t] \in {"none", "done", "skipped"}
  /\ closed' = closed \cup {g}
  /\ UNCHANGED <<life, needs, tries>>

(* The process stops.                                                           *)
Halt ==
  /\ life' = [g \in Goals |-> [t \in Slots |->
                IF life[g][t] = "doing" THEN "lost" ELSE life[g][t]]]
  /\ UNCHANGED <<needs, tries, closed>>

WorkflowNext ==
  \/ \E g \in Goals \ closed :
       \/ Plan(g) \/ Close(g)
       \/ \E t \in Slots : Begin(g, t) \/ End(g, t) \/ Stop(g, t) \/ Decide(g, t) \/ Replace(g, t)
  \/ Halt

WorkflowSpec == WorkflowInit /\ [][WorkflowNext]_workflowVars
=============================================================================

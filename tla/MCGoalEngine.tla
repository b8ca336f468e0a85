---------------------------- MODULE MCGoalEngine ----------------------------
(* Small goals of six kinds of tasks.  "agent" delegates to a sub-agent, the    *)
(* only action that needs no confirmation here; "reason" waits for the model;   *)
(* "input" is a WAIT_INPUT, whose action is that of "reason"; "read" is carried *)
(* out at once; "write" waits for the model and has a path; "secret" is a file  *)
(* that a stored rule forbids.                                                  *)
EXTENDS GoalEngine

MCKinds == {"agent", "reason", "input", "read", "write", "secret"}
MCAction == [agent |-> "spawn_agent", reason |-> "memory_query", input |-> "memory_query",
             read |-> "read_file", write |-> "write_file", secret |-> "write_file"]
MCAwaits == {"agent", "reason", "write"}
MCInputs == {"input"}
MCPrefixed == {"write", "secret"}
MCAsks == {"memory_query", "read_file", "write_file"}
MCForbidden == {"secret"}

(* Two goals, each of a channel of its own.                                     *)
MCSession == <<"cli", "telegram">>

Planned(k, D) == [kind |-> k, deps |-> D]

(* Tasks side by side, two of them with dependents; tasks that ask, an input    *)
(* among them.                                                                  *)
MCPlans ==
  {<<Planned("agent", {}), Planned("agent", {}), Planned("agent", {1}), Planned("write", {2})>>,
   <<Planned("read", {}), Planned("input", {})>>}

(* A task that is refused, or one that runs, and may fail and be replaced in    *)
(* its turn, and the former.                                                    *)
MCReplacements == {<<"secret">>, <<"agent", "secret">>}

(* For the disagreements: nothing but a file needs a confirmation, one plan is  *)
(* a chain from a task that asks, one is an input and a task that asks.         *)
MCAsksRead == {"read_file"}
MCChain == {<<Planned("read", {}), Planned("agent", {1})>>}
MCInput == {<<Planned("agent", {}), Planned("input", {}), Planned("agent", {1})>>}
MCSingle == {<<Planned("read", {})>>}
=============================================================================

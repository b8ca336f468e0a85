---------------------------- MODULE MCEventQueue ----------------------------
(* Two inbound messages of the gateway's priority, and one of the scheduler's   *)
(* jobs, retry_dead_letters, which fires again and again at a lower priority.   *)
EXTENDS EventQueue

CONSTANTS msg1, msg2, retryJob

MCEvents == {msg1, msg2, retryJob}
MCPriority == [e \in MCEvents |-> IF e = retryJob THEN 30 ELSE 10]
MCJobs == {retryJob}
=============================================================================

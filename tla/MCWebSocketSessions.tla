------------------------ MODULE MCWebSocketSessions ------------------------
(* Two sessions and two connections: a client that comes back while its old     *)
(* connection is not closed yet, and one that changes to the other session.     *)
EXTENDS WebSocketSessions
=============================================================================

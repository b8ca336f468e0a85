-------------------------- MODULE WebSocketSessions --------------------------
(* The WebSocket server of gateway/websocket.py: sessions that outlive their    *)
(* connections, the replay of their history to a client that comes back, and    *)
(* the routing of replies.                                                      *)
(*                                                                              *)
(* One handler coroutine per connection and one sender, CoreLoop's consumer,    *)
(* run on one event loop and suspend only to write to a socket; an action is    *)
(* the code from one such point to the next.  A session has one channel, so     *)
(* _clients is indexed by the session here.  A payload is its sequence number.  *)
EXTENDS Naturals, Sequences

CONSTANTS MaxSessions,   (* bound: sessions, numbered in order of creation      *)
          MaxConns,      (* bound: connections, numbered as they are accepted   *)
          NoConn,        (* None                                                *)
          HistoryLimit,  (* maxlen of a session's history                       *)
          MaxSends,      (* bound: replies                                      *)
          MaxResumes     (* bound: "resume" messages                            *)

ASSUME SessionAssumption ==
  /\ MaxSessions \in Nat \ {0} /\ MaxConns \in Nat /\ NoConn \notin Nat
  /\ HistoryLimit \in Nat \ {0} /\ MaxSends \in Nat /\ MaxResumes \in Nat

VARIABLES known,     (* _sessions: how many there are                           *)
          owner,     (* session.websocket                                       *)
          clients,   (* _clients                                                *)
          sequence,  (* session.sequence                                        *)
          history,   (* session.history                                         *)
          phase,     (* where the handler of a connection is                    *)
          local,     (* its variable session                                    *)
          target,    (* the session it welcomes the client to                   *)
          resuming,  (* the welcome answers a "resume", inside the try          *)
          up,        (* the socket can be written to                            *)
          replay,    (* its iterator over the history: the position, the        *)
                     (* sequence number at its creation, the socket in use      *)
          got,       (* history: payloads given to the socket while it was up,  *)
                     (* since the client was welcomed                           *)
          sender,    (* where send() is                                         *)
          sends,     (* history: replies so far                                 *)
          resumes    (* history: "resume" messages so far                       *)

books == <<known, owner, clients>>
logs == <<sequence, history>>
handler == <<phase, local, target, resuming, replay>>
vars == <<books, logs, handler, up, got, sender, sends, resumes>>

Phases == {"unused", "welcome", "replay", "reading", "closed"}
Sessions == 1 .. MaxSessions
Conns == 1 .. MaxConns
NoSession == 1      (* of a connection without a handler *)
Fresh == [pos |-> 0, stamp |-> 0, ws |-> NoConn]
Quiet == [mode |-> "idle", session |-> 0, ws |-> NoConn, count |-> 0]

Init ==
  /\ known = 0
  /\ owner = [s \in Sessions |-> NoConn]
  /\ clients = [s \in Sessions |-> NoConn]
  /\ sequence = [s \in Sessions |-> 0]
  /\ history = [s \in Sessions |-> <<>>]
  /\ phase = [c \in Conns |-> "unused"]
  /\ local = [c \in Conns |-> NoSession]
  /\ target = local
  /\ resuming = [c \in Conns |-> FALSE]
  /\ up = [c \in Conns |-> FALSE]
  /\ replay = [c \in Conns |-> Fresh]
  /\ got = [c \in Conns |-> {}]
  /\ sender = Quiet
  /\ sends = 0
  /\ resumes = 0

(* The n-th payload of session s is given to a socket; g has what was before.   *)
Gives(g, ws, s, n) == IF up[ws] THEN [g EXCEPT ![ws] = @ \cup {<<s, n>>}] ELSE g

-----------------------------------------------------------------------------
(* The handler of a connection.                                                 *)

(* The session is the one the path names, or a new one; the connection takes it *)
(* over from any other.                                                         *)
Connect(c, s) ==
  /\ phase[c] = "unused" /\ \A d \in 1 .. c - 1 : phase[d] # "unused"
  /\ s <= known + 1
  /\ known' = IF s <= known THEN known ELSE s
  /\ owner' = [owner EXCEPT ![s] = c]
  /\ clients' = [clients EXCEPT ![s] = c]
  /\ phase' = [phase EXCEPT ![c] = "welcome"]
  /\ local' = [local EXCEPT ![c] = s]
  /\ target' = [target EXCEPT ![c] = s]
  /\ up' = [up EXCEPT ![c] = TRUE]
  /\ UNCHANGED <<logs, resuming, replay, got, sender, sends, resumes>>

(* Fault: a client that resumes a session keeps the channel of its old one.     *)
ResumeKeeps(c, s) ==
  /\ phase[c] = "reading" /\ up[c] /\ resumes < MaxResumes
  /\ s <= known
  /\ resumes' = resumes + 1
  /\ owner' = [owner EXCEPT ![s] = c]
  /\ clients' = [clients EXCEPT ![s] = c]
  /\ phase' = [phase EXCEPT ![c] = "welcome"]
  /\ target' = [target EXCEPT ![c] = s]
  /\ resuming' = [resuming EXCEPT ![c] = TRUE]
  /\ UNCHANGED <<known, logs, local, up, replay, got, sender, sends>>

(* "resume" with a known session: _switch_session gives up the old channel,     *)
(* whoever has it now, and takes the new one.                                   *)
Resume(c, s) ==
  LET old == local[c] IN
  /\ phase[c] = "reading" /\ up[c] /\ resumes < MaxResumes
  /\ s <= known
  /\ resumes' = resumes + 1
  /\ owner' = [t \in Sessions |-> IF t = s THEN c
                                  ELSE IF t = old /\ owner[t] = c THEN NoConn ELSE owner[t]]
  /\ clients' = [clients EXCEPT ![old] = NoConn, ![s] = c]
  /\ phase' = [phase EXCEPT ![c] = "welcome"]
  /\ target' = [target EXCEPT ![c] = s]
  /\ resuming' = [resuming EXCEPT ![c] = TRUE]
  /\ UNCHANGED <<known, logs, local, up, replay, got, sender, sends>>

(* Fault: the finally clause leaves the channel to the closed socket.           *)
EndsKeepsClient(c, cleanup) ==
  LET s == local[c] IN
  /\ phase' = [phase EXCEPT ![c] = "closed"]
  /\ up' = [up EXCEPT ![c] = FALSE]
  /\ owner' = IF cleanup /\ owner[s] = c THEN [owner EXCEPT ![s] = NoConn] ELSE owner
  /\ local' = [local EXCEPT ![c] = NoSession]
  /\ target' = [target EXCEPT ![c] = NoSession]
  /\ resuming' = [resuming EXCEPT ![c] = FALSE]
  /\ replay' = [replay EXCEPT ![c] = Fresh]
  /\ got' = [got EXCEPT ![c] = {}]
  /\ UNCHANGED <<known, clients, logs, sender, sends, resumes>>

(* The handler is through with an exception, and its socket is closed.  What    *)
(* the finally clause gives up is the channel of the variable session, whoever  *)
(* has it now; after an exception in the welcome or the replay of a "resume"    *)
(* that is the old session.  Outside the try statement nothing is given up.     *)
Ends(c, cleanup) ==
  LET s == local[c] IN
  /\ phase' = [phase EXCEPT ![c] = "closed"]
  /\ up' = [up EXCEPT ![c] = FALSE]
  /\ clients' = IF cleanup THEN [clients EXCEPT ![s] = NoConn] ELSE clients
  /\ owner' = IF cleanup /\ owner[s] = c THEN [owner EXCEPT ![s] = NoConn] ELSE owner
  /\ local' = [local EXCEPT ![c] = NoSession]
  /\ target' = [target EXCEPT ![c] = NoSession]
  /\ resuming' = [resuming EXCEPT ![c] = FALSE]
  /\ replay' = [replay EXCEPT ![c] = Fresh]
  /\ got' = [got EXCEPT ![c] = {}]
  /\ UNCHANGED <<known, logs, sender, sends, resumes>>

(* The welcome was written; then the history is replayed, if there is one and   *)
(* the session still has a socket, and its first payload is given to that.      *)
Welcomed(c) ==
  LET s == target[c]
      ws == owner[s]
      again == history[s] # <<>> /\ ws # NoConn
      clean == [got EXCEPT ![c] = {}] IN
  /\ phase[c] = "welcome" /\ up[c]
  /\ IF again
     THEN /\ phase' = [phase EXCEPT ![c] = "replay"]
          /\ replay' = [replay EXCEPT ![c] = [pos |-> 1, stamp |-> sequence[s], ws |-> ws]]
          /\ got' = Gives(clean, ws, s, history[s][1])
          /\ UNCHANGED <<local, resuming>>
     ELSE /\ phase' = [phase EXCEPT ![c] = "reading"]
          /\ local' = [local EXCEPT ![c] = s]
          /\ resuming' = [resuming EXCEPT ![c] = FALSE]
          /\ got' = clean
          /\ UNCHANGED replay
  /\ UNCHANGED <<books, logs, target, up, sender, sends, resumes>>

WelcomeFails(c) ==
  /\ phase[c] = "welcome" /\ ~up[c]
  /\ Ends(c, resuming[c])

(* What the replay finds when its socket took the last payload: the history was  *)
(* appended to since the iterator was created, and its next() raises             *)
(* RuntimeError; or it is at its end; or the session has no socket any more.     *)
Written(c) == phase[c] = "replay" /\ up[replay[c].ws]
Mutated(c) == sequence[target[c]] # replay[c].stamp
Exhausted(c) == replay[c].pos = Len(history[target[c]])
Orphaned(c) == owner[target[c]] = NoConn

(* The next payload is given to the socket that the session has now.            *)
ReplayNext(c) ==
  LET s == target[c]
      next == replay[c].pos + 1 IN
  /\ Written(c) /\ ~Mutated(c) /\ ~Exhausted(c) /\ ~Orphaned(c)
  /\ replay' = [replay EXCEPT ![c].pos = next, ![c].ws = owner[s]]
  /\ got' = Gives(got, owner[s], s, history[s][next])
  /\ UNCHANGED <<books, logs, phase, local, target, resuming, up, sender, sends, resumes>>

(* The handler goes back to reading.                                            *)
ReplayOver(c) ==
  /\ phase' = [phase EXCEPT ![c] = "reading"]
  /\ local' = [local EXCEPT ![c] = target[c]]
  /\ resuming' = [resuming EXCEPT ![c] = FALSE]
  /\ replay' = [replay EXCEPT ![c] = Fresh]
  /\ UNCHANGED <<books, logs, target, up, got, sender, sends, resumes>>

ReplayDone(c) ==
  /\ Written(c) /\ ~Mutated(c) /\ Exhausted(c)
  /\ ReplayOver(c)

(* The write failed, or next() does, or there is no socket to write to.         *)
Broken(c) ==
  /\ phase[c] = "replay"
  /\ ~up[replay[c].ws] \/ Mutated(c) \/ (~Exhausted(c) /\ Orphaned(c))

(* Fault: a replay that fails is given up, and the client goes on.              *)
ReplayFailsQuietly(c) == Broken(c) /\ ReplayOver(c)

ReplayFails(c) == Broken(c) /\ Ends(c, resuming[c])

(* The client, or the network, closes the connection.                           *)
Close(c) ==
  /\ up[c]
  /\ up' = [up EXCEPT ![c] = FALSE]
  /\ UNCHANGED <<books, logs, handler, got, sender, sends, resumes>>

(* "async for raw in websocket" is over.                                        *)
ReadEnds(c) ==
  /\ phase[c] = "reading" /\ ~up[c]
  /\ Ends(c, TRUE)

-----------------------------------------------------------------------------
(* send(): the reply is recorded for a session before it is written.            *)

(* Fault: the history has no maxlen.                                            *)
RecordedUnbounded(s, k) == history[s] \o [i \in 1 .. k |-> sequence[s] + i]

(* The history after k more payloads.                                           *)
Recorded(s, k) ==
  LET all == history[s] \o [i \in 1 .. k |-> sequence[s] + i]
      drop == IF Len(all) > HistoryLimit THEN Len(all) - HistoryLimit ELSE 0 IN
  SubSeq(all, drop + 1, Len(all))

(* The next candidates of the broadcast from the i-th on: all that have no      *)
(* client, and the first that has one.                                          *)
Candidates(i) == {s \in i .. known : \A t \in i .. s - 1 : clients[t] = NoConn}
Reached(i) == \E s \in Candidates(i) : clients[s] # NoConn
First(i) == CHOOSE s \in Candidates(i) : clients[s] # NoConn

(* The broadcast goes on from the i-th candidate, after the k payloads that were *)
(* recorded in the same step; it started with count sessions.                   *)
Broadcast(i, k, count) ==
  LET times == [s \in Sessions |-> k[s] + (IF s \in Candidates(i) THEN 1 ELSE 0)]
      s == First(i) IN
  /\ history' = [t \in Sessions |-> Recorded(t, times[t])]
  /\ sequence' = [t \in Sessions |-> sequence[t] + times[t]]
  /\ IF Reached(i)
     THEN /\ sender' = [mode |-> "broadcast", session |-> s, ws |-> clients[s], count |-> count]
          /\ got' = Gives(got, clients[s], s, sequence[s] + times[s])
     ELSE sender' = Quiet /\ UNCHANGED got

None == [s \in Sessions |-> 0]

(* A reply to a channel that the server knows.  Without a client it is offered  *)
(* to all sessions, this one included.                                          *)
Send(s) ==
  /\ sender = Quiet /\ sends < MaxSends
  /\ s <= known
  /\ sends' = sends + 1
  /\ IF clients[s] # NoConn
     THEN /\ history' = [history EXCEPT ![s] = Recorded(s, 1)]
          /\ sequence' = [sequence EXCEPT ![s] = @ + 1]
          /\ sender' = [mode |-> "direct", session |-> s, ws |-> clients[s], count |-> 0]
          /\ got' = Gives(got, clients[s], s, sequence[s] + 1)
     ELSE Broadcast(1, [None EXCEPT ![s] = 1], known)
  /\ UNCHANGED <<books, handler, up, resumes>>

(* A reply to a channel of an earlier process, or one the client made up.       *)
SendUnknown ==
  /\ sender = Quiet /\ sends < MaxSends
  /\ sends' = sends + 1
  /\ Broadcast(1, None, known)
  /\ UNCHANGED <<books, handler, up, resumes>>

(* The socket took the payload: send() returns True.                            *)
Sent ==
  /\ sender.ws # NoConn /\ up[sender.ws]
  /\ sender' = Quiet
  /\ UNCHANGED <<books, logs, handler, up, got, sends, resumes>>

(* Fault: a reply to a known channel is tried again on the closed socket.       *)
SendFailsRetries ==
  /\ sender.ws # NoConn /\ ~up[sender.ws]
  /\ IF sender.mode = "broadcast" /\ known = sender.count
     THEN Broadcast(sender.session + 1, None, sender.count)
     ELSE UNCHANGED <<sender, logs, got>>
  /\ UNCHANGED <<books, handler, up, sends, resumes>>

(* The socket is closed: a reply to a known channel is given up, a broadcast    *)
(* goes on, unless a session was added while it waited: RuntimeError.           *)
SendFails ==
  /\ sender.ws # NoConn /\ ~up[sender.ws]
  /\ IF sender.mode = "broadcast" /\ known = sender.count
     THEN Broadcast(sender.session + 1, None, sender.count)
     ELSE sender' = Quiet /\ UNCHANGED <<logs, got>>
  /\ UNCHANGED <<books, handler, up, sends, resumes>>

-----------------------------------------------------------------------------
Handle(c) == \/ Welcomed(c) \/ WelcomeFails(c) \/ ReplayNext(c) \/ ReplayDone(c)
             \/ ReplayFails(c) \/ ReadEnds(c)

Client(c) == Close(c) \/ \E s \in Sessions : Connect(c, s) \/ Resume(c, s)

Deliver == Sent \/ SendFails

Next ==
  \/ \E c \in Conns : Client(c) \/ Handle(c)
  \/ \E s \in Sessions : Send(s)
  \/ SendUnknown \/ Deliver

(* A write to a socket returns or raises, and the event loop runs what is ready. *)
(* Only the sender is asked for progress; clients and replies owe nothing.      *)
Spec == Init /\ [][Next]_vars /\ WF_vars(Deliver)

-----------------------------------------------------------------------------
(* Properties.                                                                  *)

TypeOK ==
  /\ known \in 0 .. MaxSessions
  /\ owner \in [Sessions -> Conns \cup {NoConn}]
  /\ clients \in [Sessions -> Conns \cup {NoConn}]
  /\ sequence \in [Sessions -> Nat]
  /\ \A s \in Sessions : history[s] \in Seq(1 .. sequence[s]) /\ Len(history[s]) <= HistoryLimit
  /\ phase \in [Conns -> Phases]
  /\ local \in [Conns -> Sessions] /\ target \in [Conns -> Sessions]
  /\ resuming \in [Conns -> BOOLEAN] /\ up \in [Conns -> BOOLEAN]
  /\ replay \in [Conns -> [pos : 0 .. HistoryLimit, stamp : Nat, ws : Conns \cup {NoConn}]]
  /\ got \in [Conns -> SUBSET (Sessions \X Nat)]
  /\ sender.ws \in Conns \cup {NoConn}
  /\ sends \in 0 .. MaxSends /\ resumes \in 0 .. MaxResumes

(* A client that the server sends the replies of a session to was given, once   *)
(* its replay is over, all the history of that session: nothing falls between   *)
(* the replay and the live replies, whatever connections come and go meanwhile. *)
NoLoss ==
  \A s \in Sessions, c \in Conns :
    clients[s] = c /\ up[c] /\ phase[c] = "reading" =>
      \A i \in 1 .. Len(history[s]) : <<s, history[s][i]>> \in got[c]

(* Replies and replays of a session go to the same socket: what _clients holds  *)
(* is the socket of the session.                                                *)
OneRoute == \A s \in Sessions : clients[s] # NoConn => owner[s] = clients[s]

(* An open connection has the replies of one session only.                      *)
OneSession ==
  \A c \in Conns, s, t \in Sessions :
    up[c] /\ clients[s] = c /\ clients[t] = c => s = t

(* send() returns, so that the consumer of the event queue goes on: a broadcast *)
(* comes to its end among closing sockets and new sessions.                     *)
SendReturns == sender # Quiet ~> sender = Quiet

(* gateway/websocket.py:27, "Tracked client session for reconnect and replay    *)
(* support": the handler of a client that stays finishes the replay.            *)
ReplayFinishes ==
  [][\A c \in Conns :
       phase[c] = "replay" /\ up[c] /\ owner[target[c]] = c => phase'[c] # "closed"]_vars

(* gateway/websocket.py:173, "Send a message to a specific client by channel,   *)
(* or broadcast": the client that has a session, and stays, is the one that     *)
(* replies to that session's channel are sent to.                               *)
Reachable ==
  \A s \in Sessions, c \in Conns :
    owner[s] = c /\ up[c] /\ phase[c] = "reading" => clients[s] = c
=============================================================================

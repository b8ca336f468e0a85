----------------------- MODULE WebSocketSessionsProofs -----------------------
(* For any number of sessions, connections, replies and "resume" messages, and  *)
(* any length of the history: the invariants of the WebSocket server.           *)
EXTENDS WebSocketSessions, SequenceTheorems, TLAPS

-----------------------------------------------------------------------------
(* The inductive invariant.                                                     *)

(* What TypeOK leaves open.                                                     *)
ShapeInv ==
  /\ history \in [Sessions -> Seq(Nat)]
  /\ sender.session \in Nat

(* Only a handler that is not through has an open socket; one that reads is at  *)
(* the session that it last welcomed its client to.                             *)
PhaseInv ==
  \A c \in Conns :
    /\ up[c] => phase[c] \in {"welcome", "replay", "reading"}
    /\ phase[c] = "reading" => local[c] = target[c]

(* The replies that go to a connection are those of that session.               *)
RouteInv ==
  \A s \in Sessions, c \in Conns :
    clients[s] = c => phase[c] # "unused" /\ (phase[c] # "closed" => s = target[c])

(* A replay that was not overtaken by a reply has given its client, while that  *)
(* has the session, all the history up to its position.                         *)
ReplayOf(c) ==
  LET s == target[c]
      r == replay[c] IN
  /\ 1 <= r.pos /\ r.stamp <= sequence[s]
  /\ r.stamp = sequence[s] =>
       /\ r.pos <= Len(history[s])
       /\ clients[s] = c /\ up[c] => \A i \in 1 .. r.pos : <<s, history[s][i]>> \in got[c]
ReplayInv == \A c \in Conns : phase[c] = "replay" => ReplayOf(c)

IInv == TypeOK /\ ShapeInv /\ PhaseInv /\ RouteInv /\ OneRoute /\ ReplayInv /\ NoLoss

LEMMA InitIInv == Init => IInv
<1> SUFFICES ASSUME Init PROVE IInv
  OBVIOUS
<1> USE SessionAssumption DEF Init, Sessions, Conns
<1>1. TypeOK
  BY DEF TypeOK, Phases, NoSession, Fresh, Quiet
<1>2. ShapeInv /\ PhaseInv /\ RouteInv /\ OneRoute
  BY DEF ShapeInv, PhaseInv, RouteInv, OneRoute, Quiet
<1>3. ReplayInv /\ NoLoss
  BY DEF ReplayInv, NoLoss
<1> QED
  BY <1>1, <1>2, <1>3 DEF IInv

-----------------------------------------------------------------------------
LEMMA Values ==
  /\ NoConn \notin Conns /\ NoSession \in Sessions
  /\ Fresh \in [pos : 0 .. HistoryLimit, stamp : Nat, ws : Conns \cup {NoConn}]
BY SessionAssumption DEF Conns, Sessions, NoSession, Fresh

(* What is said of the history, of replies and of the sender stays true while   *)
(* they stay the same.                                                          *)
LEMMA LogsKept ==
  ASSUME TypeOK, ShapeInv, UNCHANGED <<logs, sender, sends>>
  PROVE /\ ShapeInv' /\ (sequence \in [Sessions -> Nat])'
        /\ \A s \in Sessions : history'[s] \in Seq(1 .. sequence'[s]) /\ Len(history'[s]) <= HistoryLimit
        /\ (sender.ws \in Conns \cup {NoConn})' /\ sends' \in 0 .. MaxSends
BY DEF TypeOK, ShapeInv, logs

-----------------------------------------------------------------------------
(* Connections.                                                                 *)

LEMMA ConnectStep ==
  ASSUME IInv, NEW c \in Conns, NEW s \in Sessions, Connect(c, s)
  PROVE IInv'
<1> USE DEF IInv, TypeOK, ShapeInv
<1>1. /\ s <= known + 1 /\ phase[c] = "unused" /\ c # NoConn
      /\ \A t \in Sessions : clients[t] # c
  BY Values DEF Connect, RouteInv
<1>2. TypeOK' /\ ShapeInv'
  <2>1. known' \in 0 .. MaxSessions
    BY SessionAssumption DEF Connect, Sessions
  <2>2. phase' \in [Conns -> Phases] /\ resumes' \in 0 .. MaxResumes
    BY DEF Connect, Phases
  <2> QED
    BY <2>1, <2>2, LogsKept DEF Connect
<1>3. PhaseInv'
  BY DEF Connect, PhaseInv
<1>4. RouteInv'
  BY <1>1 DEF Connect, RouteInv
<1>5. OneRoute'
  BY DEF Connect, OneRoute
<1>6. ReplayInv'
  <2> SUFFICES ASSUME NEW d \in Conns, (phase[d] = "replay")' PROVE ReplayOf(d)'
    BY DEF ReplayInv
  <2>1. d # c /\ phase[d] = "replay" /\ ReplayOf(d)
    BY DEF Connect, ReplayInv
  <2>2. /\ target'[d] = target[d] /\ target[d] \in Sessions /\ up'[d] = up[d]
        /\ clients'[target[d]] = d => clients[target[d]] = d
    BY <2>1 DEF Connect
  <2> QED
    BY <2>1, <2>2 DEF Connect, logs, ReplayOf
<1>7. NoLoss'
  BY <1>1 DEF Connect, logs, NoLoss
<1> QED
  BY <1>2, <1>3, <1>4, <1>5, <1>6, <1>7 DEF IInv

LEMMA ResumeStep ==
  ASSUME IInv, NEW c \in Conns, NEW s \in Sessions, Resume(c, s)
  PROVE IInv'
<1> USE DEF IInv, TypeOK, ShapeInv
<1>1. /\ phase[c] = "reading" /\ local[c] = target[c] /\ local[c] \in Sessions
      /\ NoConn \notin Conns
      /\ \A t \in Sessions \ {local[c]} : clients[t] # c
  BY Values DEF Resume, RouteInv, PhaseInv
<1>2. TypeOK' /\ ShapeInv'
  <2>1. resumes' \in 0 .. MaxResumes
    BY SessionAssumption DEF Resume
  <2>2. phase' \in [Conns -> Phases]
    BY DEF Resume, Phases
  <2>3. owner' \in [Sessions -> Conns \cup {NoConn}] /\ clients' \in [Sessions -> Conns \cup {NoConn}]
    BY <1>1 DEF Resume
  <2> QED
    BY <2>1, <2>2, <2>3, LogsKept DEF Resume
<1>3. PhaseInv'
  BY DEF Resume, PhaseInv
<1>4. RouteInv'
  <2>1. \A t \in Sessions : clients'[t] = c => t = s
    BY <1>1 DEF Resume
  <2>2. \A t \in Sessions, d \in Conns \ {c} : clients'[t] = d => clients[t] = d
    BY <1>1 DEF Resume
  <2>3. phase'[c] = "welcome" /\ target'[c] = s
    BY DEF Resume
  <2>4. \A d \in Conns \ {c} : phase'[d] = phase[d] /\ target'[d] = target[d]
    BY DEF Resume
  <2>5. RouteInv
    OBVIOUS
  <2> HIDE DEF IInv, TypeOK, ShapeInv
  <2> SUFFICES ASSUME NEW t \in Sessions, NEW d \in Conns, clients'[t] = d
               PROVE phase'[d] # "unused" /\ (phase'[d] # "closed" => t = target'[d])
    BY DEF RouteInv
  <2> QED
    BY <2>1, <2>2, <2>3, <2>4, <2>5 DEF RouteInv
<1>5. OneRoute'
  BY <1>1 DEF Resume, OneRoute
<1>6. ReplayInv'
  <2> SUFFICES ASSUME NEW d \in Conns, (phase[d] = "replay")' PROVE ReplayOf(d)'
    BY DEF ReplayInv
  <2>1. d # c /\ phase[d] = "replay" /\ ReplayOf(d)
    BY DEF Resume, ReplayInv
  <2>2. /\ target'[d] = target[d] /\ target[d] \in Sessions /\ up'[d] = up[d]
        /\ clients'[target[d]] = d => clients[target[d]] = d
    BY <1>1, <2>1 DEF Resume
  <2> QED
    BY <2>1, <2>2 DEF Resume, logs, ReplayOf
<1>7. NoLoss'
  BY <1>1 DEF Resume, logs, NoLoss
<1> QED
  BY <1>2, <1>3, <1>4, <1>5, <1>6, <1>7 DEF IInv

LEMMA CloseStep ==
  ASSUME IInv, NEW c \in Conns, Close(c)
  PROVE IInv'
<1> USE DEF IInv, TypeOK, ShapeInv, Close, books, logs, handler
<1>1. TypeOK' /\ ShapeInv'
  BY LogsKept
<1>2. PhaseInv'
  BY DEF PhaseInv
<1>3. RouteInv' /\ OneRoute'
  <2>1. RouteInv /\ OneRoute /\ UNCHANGED <<clients, owner, phase, target>>
    OBVIOUS
  <2> QED
    BY ONLY <2>1 DEF RouteInv, OneRoute
<1>4. \A d \in Conns : up'[d] => up[d]
  OBVIOUS
<1>5. NoLoss'
  <2>1. NoLoss /\ UNCHANGED <<clients, phase, history, got>>
    OBVIOUS
  <2> QED
    BY ONLY <1>4, <2>1 DEF NoLoss
<1>6. ReplayInv'
  BY DEF ReplayInv, ReplayOf
<1> QED
  BY <1>1, <1>2, <1>3, <1>5, <1>6 DEF IInv

LEMMA EndsStep ==
  ASSUME IInv, NEW c \in Conns, NEW cleanup \in BOOLEAN, Ends(c, cleanup)
  PROVE IInv'
<1> USE DEF IInv, TypeOK, ShapeInv
<1>1. NoConn \notin Conns /\ local[c] \in Sessions /\ NoSession \in Sessions
  BY Values
<1>2. /\ clients' \in [Sessions -> Conns \cup {NoConn}]
      /\ \A t \in Sessions : clients'[t] # NoConn => clients'[t] = clients[t]
  BY <1>1 DEF Ends
<1>3. TypeOK' /\ ShapeInv'
  <2>1. phase' \in [Conns -> Phases]
    BY DEF Ends, Phases
  <2>2. replay' \in [Conns -> [pos : 0 .. HistoryLimit, stamp : Nat, ws : Conns \cup {NoConn}]]
    BY Values DEF Ends
  <2>3. owner' \in [Sessions -> Conns \cup {NoConn}]
    BY DEF Ends
  <2>4. got' \in [Conns -> SUBSET (Sessions \X Nat)]
    BY DEF Ends
  <2> QED
    BY <1>1, <1>2, <2>1, <2>2, <2>3, <2>4, LogsKept DEF Ends
<1>4. PhaseInv'
  BY DEF Ends, PhaseInv
<1>5. RouteInv'
  BY <1>1, <1>2 DEF Ends, RouteInv
<1>6. OneRoute'
  BY <1>1 DEF Ends, OneRoute
<1>7. ReplayInv'
  <2> SUFFICES ASSUME NEW d \in Conns, (phase[d] = "replay")' PROVE ReplayOf(d)'
    BY DEF ReplayInv
  <2>1. d # c /\ phase[d] = "replay" /\ ReplayOf(d)
    BY DEF Ends, ReplayInv
  <2>2. /\ target'[d] = target[d] /\ target[d] \in Sessions /\ up'[d] = up[d]
        /\ replay'[d] = replay[d] /\ got'[d] = got[d]
        /\ clients'[target[d]] = d => clients[target[d]] = d
    BY <1>1, <1>2, <2>1 DEF Ends
  <2> QED
    BY <2>1, <2>2 DEF Ends, logs, ReplayOf
<1>8. NoLoss'
  BY <1>1, <1>2 DEF Ends, logs, NoLoss
<1> QED
  BY <1>3, <1>4, <1>5, <1>6, <1>7, <1>8 DEF IInv

-----------------------------------------------------------------------------
(* The replay.                                                                  *)

LEMMA GivesTypes ==
  ASSUME NEW g \in [Conns -> SUBSET (Sessions \X Nat)], NEW ws \in Conns, NEW s \in Sessions, NEW n \in Nat
  PROVE /\ Gives(g, ws, s, n) \in [Conns -> SUBSET (Sessions \X Nat)]
        /\ \A c \in Conns : g[c] \subseteq Gives(g, ws, s, n)[c]
        /\ up[ws] => <<s, n>> \in Gives(g, ws, s, n)[ws]
BY DEF Gives

(* The first payload of the history, when there is one.                         *)
LEMMA WelcomedStep ==
  ASSUME IInv, NEW c \in Conns, Welcomed(c)
  PROVE IInv'
<1> DEFINE s == target[c]
           ws == owner[s]
           again == history[s] # <<>> /\ ws # NoConn
           clean == [got EXCEPT ![c] = {}]
<1>1. /\ s \in Sessions /\ ws \in Conns \cup {NoConn} /\ phase[c] = "welcome"
      /\ clean \in [Conns -> SUBSET (Sessions \X Nat)]
  BY DEF Welcomed, IInv, TypeOK
<1>given. ASSUME again
          PROVE /\ got' \in [Conns -> SUBSET (Sessions \X Nat)]
                /\ \A d \in Conns : clean[d] \subseteq got'[d]
                /\ ws = c /\ up[c] => <<s, history[s][1]>> \in got'[c]
  <2>1. ws \in Conns /\ history[s][1] \in Nat
    BY <1>1, <1>given DEF IInv, ShapeInv
  <2>2. got' = Gives(clean, ws, s, history[s][1])
    BY <1>given DEF Welcomed
  <2> HIDE DEF clean, ws, s
  <2> QED
    BY <1>1, <2>1, <2>2, GivesTypes
<1>2. /\ \A d \in Conns \ {c} : phase'[d] = phase[d] /\ local'[d] = local[d]
                               /\ replay'[d] = replay[d] /\ got[d] \subseteq got'[d]
      /\ got' \in [Conns -> SUBSET (Sessions \X Nat)]
  <2>1. \A d \in Conns \ {c} : clean[d] = got[d]
    BY DEF IInv, TypeOK
  <2>2. CASE again
    BY <1>given, <2>1, <2>2 DEF Welcomed, IInv, TypeOK
  <2>3. CASE ~again
    BY <1>1, <2>3 DEF Welcomed, IInv, TypeOK
  <2> QED
    BY <2>2, <2>3
<1>3. IF again
      THEN /\ phase'[c] = "replay" /\ local'[c] = local[c]
           /\ replay'[c] = [pos |-> 1, stamp |-> sequence[s], ws |-> ws]
           /\ ws = c /\ up[c] => <<s, history[s][1]>> \in got'[c]
      ELSE phase'[c] = "reading" /\ local'[c] = s
  <2>1. CASE again
    BY <1>given, <2>1 DEF Welcomed, IInv, TypeOK
  <2>2. CASE ~again
    BY <2>2 DEF Welcomed, IInv, TypeOK
  <2> QED
    BY <2>1, <2>2
<1>4. UNCHANGED <<books, logs, target, up, sender, sends, resumes>>
  BY DEF Welcomed
<1>5. TypeOK' /\ ShapeInv'
  <2>1. phase' \in [Conns -> Phases] /\ local' \in [Conns -> Sessions] /\ resuming' \in [Conns -> BOOLEAN]
    BY <1>1 DEF Welcomed, IInv, TypeOK, Phases
  <2>2. replay' \in [Conns -> [pos : 0 .. HistoryLimit, stamp : Nat, ws : Conns \cup {NoConn}]]
    <3>1. [pos |-> 1, stamp |-> sequence[s], ws |-> ws]
            \in [pos : 0 .. HistoryLimit, stamp : Nat, ws : Conns \cup {NoConn}]
      BY <1>1, SessionAssumption DEF IInv, TypeOK
    <3>2. replay' = replay \/ replay' = [replay EXCEPT ![c] = [pos |-> 1, stamp |-> sequence[s], ws |-> ws]]
      BY DEF Welcomed
    <3> HIDE DEF s, ws
    <3> QED
      BY <3>1, <3>2 DEF IInv, TypeOK
  <2> QED
    BY <1>2, <1>4, <2>1, <2>2, LogsKept DEF IInv, TypeOK, books
<1>6. PhaseInv'
  BY <1>1, <1>2, <1>3, <1>4 DEF IInv, PhaseInv
<1>7. RouteInv' /\ OneRoute'
  <2>1. OneRoute'
    BY <1>4 DEF IInv, OneRoute, books
  <2>2. phase'[c] \in {"replay", "reading"}
    BY <1>3
  <2> QED
    BY <1>1, <1>2, <1>4, <2>1, <2>2 DEF IInv, RouteInv, books
<1>8. ReplayInv'
  <2> SUFFICES ASSUME NEW d \in Conns, (phase[d] = "replay")' PROVE ReplayOf(d)'
    BY DEF ReplayInv
  <2>1. CASE d = c
    <3>1. again
      BY <1>3, <2>1
    <3>2. clients[s] = c => ws = c
      BY <1>1, Values DEF IInv, OneRoute
    <3>3. sequence[s] \in Nat /\ history[s] \in Seq(Nat) /\ Len(history[s]) >= 1
      BY <1>1, <3>1 DEF IInv, TypeOK, ShapeInv
    <3>4. \A i \in 1 .. 1 : i = 1
      OBVIOUS
    <3>5. /\ replay'[c].pos = 1 /\ replay'[c].stamp = sequence[s]
          /\ ws = c /\ up[c] => <<s, history[s][1]>> \in got'[c]
      BY <1>3, <3>1
    <3> QED
      BY <1>4, <2>1, <3>2, <3>3, <3>4, <3>5 DEF ReplayOf, books, logs
  <2>2. CASE d # c
    BY <1>2, <1>4, <2>2 DEF IInv, ReplayInv, ReplayOf, books, logs
  <2> QED
    BY <2>1, <2>2
<1>9. NoLoss'
  <2> SUFFICES ASSUME NEW t \in Sessions, NEW d \in Conns, clients[t] = d, up[d], phase'[d] = "reading",
                      NEW i \in 1 .. Len(history[t])
               PROVE <<t, history[t][i]>> \in got'[d]
    BY <1>4 DEF NoLoss, books, logs
  <2>1. CASE d = c
    <3>1. t = s /\ ~again
      BY <1>1, <1>3, <2>1 DEF IInv, RouteInv
    <3>2. ws = c
      BY <2>1, <3>1, Values DEF IInv, OneRoute
    <3>3. history[t] = <<>>
      BY <3>1, <3>2, Values
    <3> QED
      BY <3>3
  <2>2. CASE d # c
    BY <1>2, <2>2 DEF IInv, NoLoss
  <2> QED
    BY <2>1, <2>2
<1> QED
  BY <1>5, <1>6, <1>7, <1>8, <1>9 DEF IInv

(* The next payload, to the client that has the session.                        *)
LEMMA ReplayNextStep ==
  ASSUME IInv, NEW c \in Conns, ReplayNext(c)
  PROVE IInv'
<1> DEFINE s == target[c]
           next == replay[c].pos + 1
<1>1. /\ s \in Sessions /\ owner[s] \in Conns /\ phase[c] = "replay" /\ ReplayOf(c)
      /\ replay[c] \in [pos : 0 .. HistoryLimit, stamp : Nat, ws : Conns \cup {NoConn}]
  BY DEF ReplayNext, Written, Orphaned, IInv, TypeOK, ReplayInv
<1>2. /\ next \in 1 .. Len(history[s]) /\ Len(history[s]) <= HistoryLimit /\ Len(history[s]) \in Nat
      /\ next \in 1 .. HistoryLimit /\ history[s][next] \in Nat
  <2>1. history[s] \in Seq(Nat) /\ Len(history[s]) <= HistoryLimit
    BY <1>1 DEF IInv, TypeOK, ShapeInv
  <2>2. replay[c].pos <= Len(history[s]) /\ replay[c].pos # Len(history[s]) /\ 1 <= replay[c].pos
    BY <1>1 DEF ReplayNext, Mutated, Exhausted, ReplayOf
  <2>3. replay[c].pos \in Nat /\ Len(history[s]) \in Nat /\ HistoryLimit \in Nat
    BY <1>1, <2>1, SessionAssumption
  <2>4. next \in 1 .. Len(history[s])
    BY <2>2, <2>3
  <2> HIDE DEF next
  <2>5. next \in 1 .. HistoryLimit
    BY <2>1, <2>3, <2>4
  <2>6. history[s][next] \in Nat
    BY <2>1, <2>4
  <2> QED
    BY <2>1, <2>3, <2>4, <2>5, <2>6
<1>3. /\ got' \in [Conns -> SUBSET (Sessions \X Nat)]
      /\ \A d \in Conns : got[d] \subseteq got'[d]
      /\ owner[s] = c /\ up[c] => <<s, history[s][next]>> \in got'[c]
  <2>1. got' = Gives(got, owner[s], s, history[s][next]) /\ got \in [Conns -> SUBSET (Sessions \X Nat)]
    BY DEF ReplayNext, IInv, TypeOK
  <2> HIDE DEF s, next
  <2> QED
    BY <1>1, <1>2, <2>1, GivesTypes, ZenonT(40)
<1>4. /\ replay' \in [Conns -> [pos : 0 .. HistoryLimit, stamp : Nat, ws : Conns \cup {NoConn}]]
      /\ \A d \in Conns \ {c} : replay'[d] = replay[d]
      /\ replay'[c].pos = next /\ replay'[c].stamp = replay[c].stamp
  <2>1. /\ replay' = [replay EXCEPT ![c] = [replay[c] EXCEPT !.pos = next, !.ws = owner[s]]]
        /\ replay \in [Conns -> [pos : 0 .. HistoryLimit, stamp : Nat, ws : Conns \cup {NoConn}]]
    BY <1>1 DEF ReplayNext, IInv, TypeOK
  <2>2. /\ [replay[c] EXCEPT !.pos = next, !.ws = owner[s]]
              \in [pos : 0 .. HistoryLimit, stamp : Nat, ws : Conns \cup {NoConn}]
        /\ [replay[c] EXCEPT !.pos = next, !.ws = owner[s]].pos = next
        /\ [replay[c] EXCEPT !.pos = next, !.ws = owner[s]].stamp = replay[c].stamp
    <3>1. next \in 0 .. HistoryLimit
      BY <1>2
    <3> HIDE DEF next, s
    <3> QED
      BY <1>1, <3>1
  <2> QED
    BY <2>1, <2>2
<1>5. UNCHANGED <<books, logs, phase, local, target, resuming, up, sender, sends, resumes>>
  BY DEF ReplayNext
<1>6. TypeOK' /\ ShapeInv'
  BY <1>3, <1>4, <1>5, LogsKept DEF IInv, TypeOK, books
<1>7. PhaseInv' /\ RouteInv' /\ OneRoute'
  BY <1>5 DEF IInv, PhaseInv, RouteInv, OneRoute, books
<1>8. ReplayInv'
  <2> SUFFICES ASSUME NEW d \in Conns, phase[d] = "replay" PROVE ReplayOf(d)'
    BY <1>5 DEF ReplayInv
  <2>1. CASE d = c
    <3>1. clients[s] = c => owner[s] = c
      BY <1>1, Values DEF IInv, OneRoute
    <3>2. ASSUME clients[s] = c, up[c], replay[c].stamp = sequence[s], NEW i \in 1 .. next
          PROVE <<s, history[s][i]>> \in got'[c]
      <4>1. i = next \/ i \in 1 .. replay[c].pos
        BY <1>1
      <4> QED
        BY <1>1, <1>3, <3>1, <3>2, <4>1 DEF ReplayOf
    <3> QED
      BY <1>1, <1>2, <1>4, <1>5, <2>1, <3>2 DEF ReplayOf, books, logs
  <2>2. CASE d # c
    BY <1>3, <1>4, <1>5, <2>2 DEF IInv, ReplayInv, ReplayOf, books, logs
  <2> QED
    BY <2>1, <2>2
<1>9. NoLoss'
  BY <1>3, <1>5 DEF IInv, NoLoss, books, logs
<1> QED
  BY <1>6, <1>7, <1>8, <1>9 DEF IInv

(* A replay that comes to its end has given all there is.                       *)
LEMMA ReplayDoneStep ==
  ASSUME IInv, NEW c \in Conns, ReplayDone(c)
  PROVE IInv'
<1> USE DEF ReplayDone, ReplayOver
<1>1. /\ phase[c] = "replay" /\ ReplayOf(c) /\ target[c] \in Sessions
      /\ replay[c].stamp = sequence[target[c]] /\ replay[c].pos = Len(history[target[c]])
  BY DEF Written, Mutated, Exhausted, IInv, TypeOK, ReplayInv
<1>2. /\ \A d \in Conns \ {c} : phase'[d] = phase[d] /\ local'[d] = local[d] /\ replay'[d] = replay[d]
      /\ phase'[c] = "reading" /\ local'[c] = target[c]
      /\ UNCHANGED <<books, logs, target, up, got, sender, sends, resumes>>
  BY DEF IInv, TypeOK
<1>3. TypeOK' /\ ShapeInv'
  <2>1. phase' \in [Conns -> Phases] /\ local' \in [Conns -> Sessions] /\ resuming' \in [Conns -> BOOLEAN]
        /\ replay' \in [Conns -> [pos : 0 .. HistoryLimit, stamp : Nat, ws : Conns \cup {NoConn}]]
    BY <1>1, Values DEF IInv, TypeOK, Phases
  <2> QED
    BY <1>2, <2>1, LogsKept DEF IInv, TypeOK, books
<1> HIDE DEF ReplayDone, ReplayOver
<1>4. PhaseInv' /\ RouteInv' /\ OneRoute'
  BY <1>1, <1>2 DEF IInv, PhaseInv, RouteInv, OneRoute, books
<1>5. ReplayInv'
  BY <1>2 DEF IInv, ReplayInv, ReplayOf, books, logs
<1>6. NoLoss'
  <2> SUFFICES ASSUME NEW t \in Sessions, NEW d \in Conns, clients[t] = d, up[d], phase'[d] = "reading",
                      NEW i \in 1 .. Len(history[t])
               PROVE <<t, history[t][i]>> \in got[d]
    BY <1>2 DEF NoLoss, books, logs
  <2>1. CASE d = c
    <3>1. t = target[c]
      BY <1>1, <2>1 DEF IInv, RouteInv
    <3> QED
      BY <1>1, <2>1, <3>1 DEF ReplayOf
  <2>2. CASE d # c
    BY <1>2, <2>2 DEF IInv, NoLoss
  <2> QED
    BY <2>1, <2>2
<1> QED
  BY <1>3, <1>4, <1>5, <1>6 DEF IInv

-----------------------------------------------------------------------------
(* Replies.                                                                     *)

(* What k more payloads make of the history of a session.                       *)
LEMMA RecordedFacts ==
  ASSUME TypeOK, ShapeInv, NEW s \in Sessions, NEW k \in Nat
  PROVE /\ Recorded(s, k) \in Seq(1 .. sequence[s] + k)
        /\ Len(Recorded(s, k)) <= HistoryLimit
        /\ \A i \in 1 .. Len(Recorded(s, k)) :
             \/ \E j \in 1 .. Len(history[s]) : Recorded(s, k)[i] = history[s][j]
             \/ Recorded(s, k)[i] \in sequence[s] + 1 .. sequence[s] + k
        /\ k = 0 => Recorded(s, k) = history[s]
<1> DEFINE old == history[s]
           n == sequence[s]
           more == [i \in 1 .. k |-> n + i]
           all == old \o more
           S == 1 .. n + k
           drop == IF Len(all) > HistoryLimit THEN Len(all) - HistoryLimit ELSE 0
<1>1. n \in Nat /\ old \in Seq(1 .. n) /\ Len(old) <= HistoryLimit /\ HistoryLimit \in Nat
  BY SessionAssumption DEF TypeOK
<1>2. Recorded(s, k) = SubSeq(all, drop + 1, Len(all))
  BY DEF Recorded
<1> HIDE DEF n, old
<1>3. old \in Seq(S) /\ Len(old) \in Nat
  <2>1. 1 .. n \subseteq S
    BY <1>1
  <2> HIDE DEF S
  <2> QED
    BY <1>1, <2>1, SeqMonotonic, LenProperties
<1>4. more \in Seq(S) /\ Len(more) = k /\ \A i \in 1 .. k : more[i] = n + i
  <2>1. \A i \in 1 .. k : n + i \in S
    BY <1>1
  <2> HIDE DEF S
  <2> QED
    BY <2>1
<1> HIDE DEF S, more
<1>5. /\ all \in Seq(S) /\ Len(all) = Len(old) + k
      /\ \A i \in 1 .. Len(old) + k : all[i] = IF i <= Len(old) THEN old[i] ELSE more[i - Len(old)]
  BY <1>3, <1>4, ConcatProperties
<1>6. /\ drop \in Nat /\ drop <= Len(all) /\ Len(all) - drop <= HistoryLimit /\ Len(all) \in Nat
      /\ k = 0 => drop = 0
  BY <1>1, <1>3, <1>5
<1> HIDE DEF all, drop
<1>7. /\ Recorded(s, k) \in Seq(S)
      /\ Len(Recorded(s, k)) = Len(all) - drop
      /\ \A i \in 1 .. Len(all) - drop : Recorded(s, k)[i] = all[drop + i]
  <2>1. \A i \in drop + 1 .. Len(all) : all[i] \in S
    BY <1>5, <1>6
  <2>2. /\ SubSeq(all, drop + 1, Len(all)) \in Seq(S)
        /\ Len(SubSeq(all, drop + 1, Len(all))) =
             IF drop + 1 <= Len(all) THEN Len(all) - (drop + 1) + 1 ELSE 0
        /\ \A i \in 1 .. Len(all) - (drop + 1) + 1 :
             SubSeq(all, drop + 1, Len(all))[i] = all[drop + 1 + i - 1]
    BY <1>6, <2>1, SubSeqProperties
  <2> QED
    BY <1>2, <1>6, <2>2
<1>8. ASSUME NEW i \in 1 .. Len(Recorded(s, k))
      PROVE \/ \E j \in 1 .. Len(old) : Recorded(s, k)[i] = old[j]
            \/ Recorded(s, k)[i] \in n + 1 .. n + k
  <2> DEFINE at == drop + i
  <2>1. i \in 1 .. Len(all) - drop /\ Len(all) = Len(old) + k /\ drop \in Nat /\ Len(old) \in Nat
    BY <1>3, <1>5, <1>6, <1>7
  <2>2. at \in 1 .. Len(old) + k /\ Recorded(s, k)[i] = all[at]
    BY <1>7, <2>1
  <2> HIDE DEF at
  <2>3. CASE at <= Len(old)
    <3>1. at \in 1 .. Len(old) /\ all[at] = old[at]
      BY <1>5, <2>1, <2>2, <2>3
    <3> QED
      BY <2>2, <3>1
  <2>4. CASE at > Len(old)
    <3>1. at - Len(old) \in 1 .. k /\ ~(at <= Len(old))
      BY <2>1, <2>2, <2>4
    <3>2. all[at] = more[at - Len(old)]
      BY <1>5, <2>2, <3>1
    <3>3. more[at - Len(old)] = n + (at - Len(old))
      BY <1>4, <3>1
    <3> QED
      BY <1>1, <2>2, <3>1, <3>2, <3>3
  <2> QED
    BY <2>1, <2>2, <2>3, <2>4
<1>9. ASSUME k = 0 PROVE Recorded(s, k) = old
  <2>1. drop = 0 /\ Len(all) = Len(old) /\ \A i \in 1 .. Len(old) : all[i] = old[i]
    BY <1>3, <1>5, <1>6, <1>9
  <2> QED
    BY <1>3, <1>7, <2>1, SeqEqual
<1> QED
  BY <1>6, <1>7, <1>8, <1>9 DEF S, n, old

(* A reply: each session gets some payloads more, and one that has a client at  *)
(* most one, which the client is given.                                         *)
Grows(times) ==
  /\ times \in [Sessions -> Nat]
  /\ history' \in [Sessions -> Seq(Nat)] /\ sequence' \in [Sessions -> Nat]
  /\ \A s \in Sessions : history'[s] = Recorded(s, times[s]) /\ sequence'[s] = sequence[s] + times[s]
  /\ got' \in [Conns -> SUBSET (Sessions \X Nat)] /\ \A c \in Conns : got[c] \subseteq got'[c]
  /\ \A s \in Sessions : clients[s] # NoConn /\ times[s] # 0 =>
       times[s] = 1 /\ (up[clients[s]] => <<s, sequence[s] + 1>> \in got'[clients[s]])
  /\ sender'.ws \in Conns \cup {NoConn} /\ sender'.session \in Nat
  /\ UNCHANGED <<books, handler, up>>

LEMMA GrowsStep ==
  ASSUME IInv, NEW times, Grows(times), sends' \in 0 .. MaxSends, UNCHANGED resumes
  PROVE IInv'
<1> USE DEF books, handler
<1>1. TypeOK /\ ShapeInv
  BY DEF IInv
<1>2. TypeOK' /\ ShapeInv'
  <2>1. \A s \in Sessions : history'[s] \in Seq(1 .. sequence'[s]) /\ Len(history'[s]) <= HistoryLimit
    BY <1>1, RecordedFacts DEF Grows
  <2> QED
    BY <1>1, <2>1 DEF Grows, TypeOK, ShapeInv
<1>3. PhaseInv' /\ RouteInv' /\ OneRoute'
  BY DEF Grows, IInv, PhaseInv, RouteInv, OneRoute
<1>4. ReplayInv'
  <2> SUFFICES ASSUME NEW c \in Conns, phase[c] = "replay" PROVE ReplayOf(c)'
    BY DEF Grows, ReplayInv
  <2> DEFINE s == target[c]
  <2>1. /\ ReplayOf(c) /\ s \in Sessions /\ sequence[s] \in Nat /\ times[s] \in Nat
        /\ replay[c].stamp \in Nat
    BY <1>1 DEF IInv, ReplayInv, TypeOK, Grows
  <2>2. sequence'[s] = sequence[s] + times[s] /\ (times[s] = 0 => history'[s] = history[s])
        /\ UNCHANGED <<replay, target, clients, up>> /\ got[c] \subseteq got'[c]
    BY <1>1, <2>1, RecordedFacts DEF Grows
  <2>3. replay[c].stamp = sequence'[s] => times[s] = 0
    BY <2>1, <2>2 DEF ReplayOf
  <2> QED
    BY <2>1, <2>2, <2>3 DEF ReplayOf
<1>5. NoLoss'
  <2> SUFFICES ASSUME NEW s \in Sessions, NEW c \in Conns, clients[s] = c, up[c], phase[c] = "reading",
                      NEW i \in 1 .. Len(history'[s])
               PROVE <<s, history'[s][i]>> \in got'[c]
    BY DEF Grows, NoLoss
  <2>1. clients[s] # NoConn /\ got[c] \subseteq got'[c] /\ times[s] \in Nat /\ sequence[s] \in Nat
    BY <1>1, Values DEF Grows, TypeOK
  <2>2. \/ \E j \in 1 .. Len(history[s]) : history'[s][i] = history[s][j]
        \/ history'[s][i] \in sequence[s] + 1 .. sequence[s] + times[s]
    <3>1. history'[s] = Recorded(s, times[s])
      BY DEF Grows
    <3>2. \A j \in 1 .. Len(Recorded(s, times[s])) :
            \/ \E h \in 1 .. Len(history[s]) : Recorded(s, times[s])[j] = history[s][h]
            \/ Recorded(s, times[s])[j] \in sequence[s] + 1 .. sequence[s] + times[s]
      BY <1>1, <2>1, RecordedFacts
    <3> QED
      BY <3>1, <3>2
  <2>3. CASE \E j \in 1 .. Len(history[s]) : history'[s][i] = history[s][j]
    BY <2>1, <2>3 DEF IInv, NoLoss
  <2>4. CASE history'[s][i] \in sequence[s] + 1 .. sequence[s] + times[s]
    <3>1. times[s] # 0
      BY <2>1, <2>4
    <3>2. times[s] = 1 /\ <<s, sequence[s] + 1>> \in got'[c]
      BY <2>1, <3>1 DEF Grows
    <3> QED
      BY <2>1, <2>4, <3>2
  <2> QED
    BY <2>2, <2>3, <2>4
<1> QED
  BY <1>2, <1>3, <1>4, <1>5 DEF IInv

(* A broadcast stops at the first session that has a client.                    *)
LEMMA BroadcastGrows ==
  ASSUME TypeOK, ShapeInv, NEW i \in Nat \ {0}, NEW k \in [Sessions -> Nat], NEW count,
         \A s \in Sessions : clients[s] # NoConn => k[s] = 0,
         Broadcast(i, k, count), UNCHANGED <<books, handler, up>>
  PROVE \E times : Grows(times)
<1> DEFINE times == [s \in Sessions |-> k[s] + (IF s \in Candidates(i) THEN 1 ELSE 0)]
           s == First(i)
<1>1. times \in [Sessions -> Nat]
  OBVIOUS
<1>2. \A t \in Sessions : history'[t] = Recorded(t, times[t]) /\ sequence'[t] = sequence[t] + times[t]
  BY DEF Broadcast
<1>3. history' \in [Sessions -> Seq(Nat)] /\ sequence' \in [Sessions -> Nat]
  <2>1. \A t \in Sessions : Recorded(t, times[t]) \in Seq(Nat)
    <3> SUFFICES ASSUME NEW t \in Sessions PROVE Recorded(t, times[t]) \in Seq(Nat)
      OBVIOUS
    <3>1. Recorded(t, times[t]) \in Seq(1 .. sequence[t] + times[t]) /\ times[t] \in Nat /\ sequence[t] \in Nat
      BY <1>1, RecordedFacts DEF TypeOK
    <3>2. 1 .. sequence[t] + times[t] \subseteq Nat
      BY <3>1
    <3> QED
      BY <3>1, <3>2, SeqMonotonic
  <2>2. \A t \in Sessions : sequence[t] + times[t] \in Nat
    BY <1>1 DEF TypeOK
  <2>3. history' = [t \in Sessions |-> Recorded(t, times[t])]
        /\ sequence' = [t \in Sessions |-> sequence[t] + times[t]]
    BY DEF Broadcast
  <2> HIDE DEF times
  <2> QED
    BY <2>1, <2>2, <2>3
<1>4. Candidates(i) \subseteq Sessions
  <2>1. known \in 0 .. MaxSessions /\ MaxSessions \in Nat
    BY SessionAssumption DEF TypeOK
  <2>2. Candidates(i) \subseteq i .. known
    BY DEF Candidates
  <2>3. i .. known \subseteq Sessions
    BY <2>1 DEF Sessions
  <2> QED
    BY <2>2, <2>3
<1>5. CASE Reached(i)
  <2>1. s \in Candidates(i) /\ clients[s] # NoConn
    BY <1>5 DEF Reached, First
  <2>2. clients[s] \in Conns /\ s \in Sessions /\ times[s] = 1
    <3>1. s \in Sessions /\ clients \in [Sessions -> Conns \cup {NoConn}] /\ k[s] = 0
      BY <1>4, <2>1 DEF TypeOK
    <3>2. times[s] = 1
      BY <2>1, <3>1
    <3> QED
      BY <2>1, <3>1, <3>2
  <2>3. \A t \in Candidates(i) : clients[t] # NoConn => t = s
    BY <2>1, SMTT(20) DEF Candidates, TypeOK
  <2>4. /\ sender' = [mode |-> "broadcast", session |-> s, ws |-> clients[s], count |-> count]
        /\ got' = Gives(got, clients[s], s, sequence[s] + times[s])
    BY <1>5 DEF Broadcast
  <2>5. /\ got' \in [Conns -> SUBSET (Sessions \X Nat)] /\ \A c \in Conns : got[c] \subseteq got'[c]
        /\ up[clients[s]] => <<s, sequence[s] + 1>> \in got'[clients[s]]
    <3> HIDE DEF s, times
    <3>1. sequence \in [Sessions -> Nat] /\ got \in [Conns -> SUBSET (Sessions \X Nat)]
      BY DEF TypeOK
    <3>2. sequence[s] + 1 \in Nat
      BY ONLY <2>2, <3>1
    <3> QED
      BY <2>2, <2>4, <3>1, <3>2, GivesTypes
  <2>6. \A t \in Sessions : clients[t] # NoConn /\ times[t] # 0 => t = s
    BY <2>3
  <2>7. sender'.ws \in Conns \cup {NoConn} /\ sender'.session \in Nat
    BY <2>2, <2>4 DEF Sessions
  <2> HIDE DEF times, s
  <2> QED
    BY <1>1, <1>2, <1>3, <2>2, <2>5, <2>6, <2>7 DEF Grows
<1>6. CASE ~Reached(i)
  <2>1. sender' = Quiet /\ UNCHANGED got
    BY <1>6 DEF Broadcast
  <2>2. \A t \in Sessions : clients[t] # NoConn => times[t] = 0
    BY <1>6 DEF Reached
  <2> HIDE DEF times
  <2> QED
    BY <1>1, <1>2, <1>3, <2>1, <2>2 DEF Grows, TypeOK, Quiet
<1> QED
  BY <1>5, <1>6

LEMMA NoneCounts == None \in [Sessions -> Nat] /\ \A s \in Sessions : None[s] = 0
BY DEF None

(* A reply to one client.                                                       *)
LEMMA DirectGrows ==
  ASSUME IInv, NEW s \in Sessions, Send(s), clients[s] # NoConn
  PROVE \E times : Grows(times)
<1> DEFINE times == [t \in Sessions |-> IF t = s THEN 1 ELSE 0]
           n == sequence[s] + 1
<1>1. TypeOK /\ ShapeInv /\ clients[s] \in Conns /\ sequence[s] \in Nat
  BY DEF IInv, TypeOK
<1>2. /\ history' = [history EXCEPT ![s] = Recorded(s, 1)]
      /\ sequence' = [sequence EXCEPT ![s] = n]
      /\ sender' = [mode |-> "direct", session |-> s, ws |-> clients[s], count |-> 0]
      /\ got' = Gives(got, clients[s], s, n)
      /\ UNCHANGED <<books, handler, up>>
  BY DEF Send
<1>3. Recorded(s, 1) \in Seq(Nat)
  <2>1. 1 .. sequence[s] + 1 \subseteq Nat
    BY <1>1
  <2> QED
    BY <1>1, <2>1, RecordedFacts, SeqMonotonic
<1>4. \A t \in Sessions : Recorded(t, 0) = history[t]
  BY <1>1, RecordedFacts
<1>5. /\ history' \in [Sessions -> Seq(Nat)] /\ sequence' \in [Sessions -> Nat]
      /\ \A t \in Sessions : history'[t] = Recorded(t, times[t]) /\ sequence'[t] = sequence[t] + times[t]
  <2>1. history \in [Sessions -> Seq(Nat)] /\ sequence \in [Sessions -> Nat] /\ n \in Nat
    BY <1>1, SMTT(20) DEF ShapeInv, TypeOK
  <2>2. history' \in [Sessions -> Seq(Nat)] /\ sequence' \in [Sessions -> Nat]
    BY <1>2, <1>3, <2>1
  <2>3. ASSUME NEW t \in Sessions
        PROVE history'[t] = Recorded(t, times[t]) /\ sequence'[t] = sequence[t] + times[t]
    <3>1. CASE t = s
      BY <1>2, <2>1, <3>1
    <3>2. CASE t # s
      BY <1>2, <1>4, <2>1, <3>2
    <3> QED
      BY <3>1, <3>2
  <2> QED
    BY <2>2, <2>3
<1>6. /\ got' \in [Conns -> SUBSET (Sessions \X Nat)] /\ \A c \in Conns : got[c] \subseteq got'[c]
      /\ up[clients[s]] => <<s, n>> \in got'[clients[s]]
  <2>1. n \in Nat /\ got \in [Conns -> SUBSET (Sessions \X Nat)]
    BY <1>1 DEF TypeOK
  <2> HIDE DEF n
  <2> QED
    BY <1>1, <1>2, <2>1, GivesTypes
<1>7. /\ times \in [Sessions -> Nat] /\ times[s] = 1 /\ \A t \in Sessions : times[t] # 0 => t = s
      /\ sender'.ws \in Conns \cup {NoConn} /\ sender'.session \in Nat
  BY <1>1, <1>2 DEF Sessions
<1> HIDE DEF times
<1>8. \A t \in Sessions : clients[t] # NoConn /\ times[t] # 0 =>
        times[t] = 1 /\ (up[clients[t]] => <<t, sequence[t] + 1>> \in got'[clients[t]])
  BY <1>6, <1>7
<1>9. Grows(times)
  BY <1>2, <1>5, <1>6, <1>7, <1>8 DEF Grows
<1> QED
  BY <1>9

LEMMA SendStep ==
  ASSUME IInv, (\E s \in Sessions : Send(s)) \/ SendUnknown
  PROVE IInv'
<1>1. sends' \in 0 .. MaxSends /\ UNCHANGED resumes
  <2>1. sends < MaxSends /\ sends' = sends + 1 /\ UNCHANGED resumes
    BY DEF Send, SendUnknown
  <2>2. sends \in 0 .. MaxSends /\ MaxSends \in Nat
    BY SessionAssumption DEF IInv, TypeOK
  <2> QED
    BY <2>1, <2>2
<1>2. CASE SendUnknown
  <2>1. Broadcast(1, None, known) /\ UNCHANGED <<books, handler, up>>
    BY <1>2 DEF SendUnknown
  <2>2. \E times : Grows(times)
    BY <2>1, NoneCounts, BroadcastGrows DEF IInv
  <2> QED
    BY <1>1, <2>2, GrowsStep
<1>3. ASSUME NEW s \in Sessions, Send(s) PROVE IInv'
  <2>1. CASE clients[s] # NoConn
    BY <1>1, <1>3, <2>1, DirectGrows, GrowsStep
  <2>2. CASE clients[s] = NoConn
    <3> DEFINE k == [None EXCEPT ![s] = 1]
    <3>1. k \in [Sessions -> Nat] /\ \A t \in Sessions : clients[t] # NoConn => k[t] = 0
      BY <2>2, NoneCounts
    <3>2. Broadcast(1, k, known) /\ UNCHANGED <<books, handler, up>>
      BY <1>3, <2>2 DEF Send
    <3> HIDE DEF k
    <3>3. \E times : Grows(times)
      BY <3>1, <3>2, BroadcastGrows DEF IInv
    <3> QED
      BY <1>1, <3>3, GrowsStep
  <2> QED
    BY <2>1, <2>2
<1> QED
  BY <1>2, <1>3

(* The sender comes to rest.                                                    *)
LEMMA RestStep ==
  ASSUME IInv, sender' = Quiet, UNCHANGED <<books, logs, handler, up, got, sends, resumes>>
  PROVE IInv'
<1> USE DEF books, handler
<1>1. TypeOK' /\ ShapeInv'
  BY DEF IInv, TypeOK, ShapeInv, logs, Quiet
<1>2. PhaseInv' /\ RouteInv' /\ OneRoute' /\ NoLoss'
  BY DEF IInv, PhaseInv, RouteInv, OneRoute, NoLoss, logs
<1>3. ReplayInv'
  BY DEF IInv, ReplayInv, ReplayOf, logs
<1> QED
  BY <1>1, <1>2, <1>3 DEF IInv

LEMMA DeliverStep ==
  ASSUME IInv, Deliver
  PROVE IInv'
<1>1. CASE Sent
  BY <1>1, RestStep DEF Sent
<1>2. CASE SendFails /\ sender.mode = "broadcast" /\ known = sender.count
  <2> DEFINE i == sender.session + 1
  <2>1. Broadcast(i, None, sender.count) /\ UNCHANGED <<books, handler, up, sends, resumes>>
    BY <1>2 DEF SendFails
  <2>2. i \in Nat \ {0} /\ sends' \in 0 .. MaxSends
    BY <2>1 DEF IInv, TypeOK, ShapeInv
  <2> HIDE DEF i
  <2>3. \E times : Grows(times)
    BY <2>1, <2>2, NoneCounts, BroadcastGrows DEF IInv
  <2> QED
    BY <2>1, <2>2, <2>3, GrowsStep
<1>3. CASE SendFails /\ ~(sender.mode = "broadcast" /\ known = sender.count)
  BY <1>3, RestStep DEF SendFails
<1> QED
  BY <1>1, <1>2, <1>3 DEF Deliver

-----------------------------------------------------------------------------
LEMMA StepIInv == IInv /\ [Next]_vars => IInv'
<1> SUFFICES ASSUME IInv, [Next]_vars PROVE IInv'
  OBVIOUS
<1>1. ASSUME NEW c \in Conns, Client(c) PROVE IInv'
  BY <1>1, CloseStep, ConnectStep, ResumeStep DEF Client
<1>2. ASSUME NEW c \in Conns, Handle(c) PROVE IInv'
  <2>1. CASE Welcomed(c) \/ ReplayNext(c) \/ ReplayDone(c)
    BY <2>1, WelcomedStep, ReplayNextStep, ReplayDoneStep
  <2>2. CASE WelcomeFails(c) \/ ReplayFails(c)
    <3>1. Ends(c, resuming[c]) /\ resuming[c] \in BOOLEAN
      BY <2>2 DEF WelcomeFails, ReplayFails, IInv, TypeOK
    <3> QED
      BY <3>1, EndsStep
  <2>3. CASE ReadEnds(c)
    BY <2>3, EndsStep DEF ReadEnds
  <2> QED
    BY <1>2, <2>1, <2>2, <2>3 DEF Handle
<1>3. CASE UNCHANGED vars
  <2>1. TypeOK' /\ ShapeInv' /\ PhaseInv' /\ RouteInv' /\ OneRoute' /\ NoLoss'
    BY <1>3 DEF IInv, vars, books, logs, handler, TypeOK, ShapeInv, PhaseInv, RouteInv, OneRoute, NoLoss
  <2>2. ReplayInv'
    BY <1>3 DEF IInv, vars, books, logs, handler, ReplayInv, ReplayOf
  <2> QED
    BY <2>1, <2>2 DEF IInv
<1> QED
  BY <1>1, <1>2, <1>3, SendStep, DeliverStep DEF Next

(* The inductive invariant holds in every reachable state.                      *)
THEOREM Invariance == Spec => []IInv
BY InitIInv, StepIInv, PTL DEF Spec

(* The sessions, their histories, never longer than the limit, and the handlers *)
(* have their types (gateway/websocket.py, WebSocketSession).                   *)
THEOREM TypeCorrect == Spec => []TypeOK
<1>1. IInv => TypeOK
  BY DEF IInv
<1> QED
  BY <1>1, Invariance, PTL

(* A client whose handler is back to reading has all the history of the session *)
(* whose replies it gets: none falls between the replay and the live replies.   *)
THEOREM NoLossSafe == Spec => []NoLoss
<1>1. IInv => NoLoss
  BY DEF IInv
<1> QED
  BY <1>1, Invariance, PTL

(* What _clients has for a session is the session's own socket.                 *)
THEOREM OneRouteSafe == Spec => []OneRoute
<1>1. IInv => OneRoute
  BY DEF IInv
<1> QED
  BY <1>1, Invariance, PTL

(* An open connection has the replies of at most one session, whatever "resume" *)
(* messages were sent and whatever connections took over.                       *)
THEOREM OneSessionSafe == Spec => []OneSession
<1>1. ASSUME IInv PROVE OneSession
  <2> SUFFICES ASSUME NEW c \in Conns, NEW s \in Sessions, NEW t \in Sessions,
                      up[c], clients[s] = c, clients[t] = c
               PROVE s = t
    BY DEF OneSession
  <2>1. phase[c] # "closed"
    BY <1>1 DEF IInv, PhaseInv
  <2> QED
    BY <1>1, <2>1 DEF IInv, RouteInv
<1> QED
  BY <1>1, Invariance, PTL
=============================================================================

----------------------------- MODULE ServerProofs -----------------------------
(* For every set of messages, prompts and firings, every number of attempts, of *)
(* turns and of ends of the process: the invariants of the server.              *)
EXTENDS Server, FiniteSetTheorems, TLAPS

-----------------------------------------------------------------------------
(* The inductive invariant.                                                     *)

(* The types of what TypeOK leaves open.                                        *)
ShapeInv ==
  /\ tries \in [Events -> Nat] /\ replays \in [Events -> Nat] /\ stops \in 0 .. MaxStops
  /\ turn \in [attempt : 0 .. Turns, stage : {"idle", "calling", "returned", "raised"}, stored : Nat]
  /\ reply \in [of : Asks \cup {NoEvent}, kind : Kinds]
  /\ told \in [Asks -> Seq({"answer", "error"})]
  /\ unsent \subseteq Asks \X Kinds /\ forgotten \subseteq Prompts /\ lost \subseteq Messages

(* What is handled is in the queue, and what was not read yet is not.           *)
PlaceInv ==
  /\ active # NoEvent => place[active] = "queued"
  /\ \A e \in inbox \cup due : place[e] = "nowhere"

(* A try has stored at most as many memories as there were tries before it.     *)
TurnInv ==
  /\ turn.stage = "calling" => turn.attempt # 0 /\ turn.stored < turn.attempt
  /\ turn.stored <= Turns

(* A delivery is left for what is in the queue.                                 *)
TriesInv ==
  \A e \in Events :
    /\ tries[e] <= MaxAttempts + stops
    /\ place[e] = "queued" /\ e # active => tries[e] < MaxAttempts + stops

(* Nothing is handled while a reply is being sent, and an error is on its way   *)
(* only for what is still in the mailbox.                                       *)
PendingInv ==
  /\ reply # NoReply => active = NoEvent /\ reply.kind \in {"answer", "error"}
  /\ reply.kind = "error" => place[reply.of] \in {"queued", "parked"}
  /\ \A e \in Asks : cache[e] = "error" => place[e] \in {"queued", "parked"}

(* Accounted, without counting.                                                 *)
AtSent(e) == reply = [of |-> e, kind |-> "answer"]
AtCached(e) == cache[e] = "answer"
AtTold(e) == Answered(e)
AtDropped(e) == <<e, "answer">> \in unsent
Account(e) ==
  IF place[e] = "finished"
  THEN \/ AtSent(e) /\ ~AtCached(e) /\ ~AtTold(e) /\ ~AtDropped(e)
       \/ ~AtSent(e) /\ AtCached(e) /\ ~AtTold(e) /\ ~AtDropped(e)
       \/ ~AtSent(e) /\ ~AtCached(e) /\ AtTold(e) /\ ~AtDropped(e)
       \/ ~AtSent(e) /\ ~AtCached(e) /\ ~AtTold(e) /\ AtDropped(e)
  ELSE ~AtSent(e) /\ ~AtCached(e) /\ ~AtTold(e) /\ ~AtDropped(e)
AccountInv == \A e \in Asks : Account(e)

(* The answer is the last that the user got.                                    *)
LastInv == \A e \in Asks : \A i \in DOMAIN told[e] : told[e][i] = "answer" => i = Len(told[e])

(* Errors told, and those on their way, against the deliveries that failed: in  *)
(* the queue there is always room for one more.                                 *)
Errors(s) == {i \in DOMAIN s : s[i] = "error"}
Coming(e) == (IF reply = [of |-> e, kind |-> "error"] THEN 1 ELSE 0)
             + (IF cache[e] = "error" THEN 1 ELSE 0)
Failures(e) == Cardinality(Errors(told[e])) + Coming(e)
Room(e) ==
  LET before == MaxAttempts * replays[e] IN
  /\ Failures(e) <= before + MaxAttempts
  /\ place[e] = "nowhere" => Failures(e) = 0
  /\ place[e] = "queued" =>
       /\ Failures(e) < before + MaxAttempts
       /\ Failures(e) <= before + tries[e]
       /\ e = active => Failures(e) < before + tries[e]
ErrorInv == \A e \in Asks : Room(e)

(* A prompt that got as far as the queue is waited for, given up, or was shown  *)
(* something.                                                                   *)
PromptInv ==
  \A e \in Prompts : place[e] # "nowhere" => e = asking \/ e \in forgotten \/ told[e] # <<>>

IInv ==
  /\ TypeOK /\ ShapeInv /\ PlaceInv /\ TurnInv /\ TriesInv
  /\ PendingInv /\ AccountInv /\ LastInv /\ ErrorInv /\ PromptInv

-----------------------------------------------------------------------------
LEMMA InitIInv == Init => IInv
<1> SUFFICES ASSUME Init PROVE IInv
  OBVIOUS
<1>1. \A e \in Asks : Errors(told[e]) = {} /\ Coming(e) = 0 /\ ~Answered(e)
  BY ServerAssumption DEF Init, Errors, Coming, NoReply, Asks, Answered
<1>2. ErrorInv
  <2>1. ASSUME NEW e \in Asks
        PROVE Failures(e) = 0 /\ place[e] = "nowhere" /\ replays[e] = 0 /\ e # active
    <3>1. e \in Events /\ Cardinality({}) = 0
      BY ServerAssumption, FS_EmptySet
    <3>2. place[e] = "nowhere" /\ replays[e] = 0 /\ e # active
      BY <3>1, ServerAssumption DEF Init, MailboxInit
    <3>3. Failures(e) = 0
      BY <1>1, <3>1 DEF Failures
    <3> QED
      BY <3>2, <3>3
  <2> QED
    BY <2>1, ServerAssumption DEF ErrorInv, Room
<1>3. TypeOK /\ ShapeInv
  <2>1. place \in [Events -> Places] /\ cache \in [Events -> Kinds]
    BY DEF Init, MailboxInit, Kinds, Places
  <2>3. turn.attempt \in 0 .. Turns /\ turn.stage = "idle"
    BY ServerAssumption DEF Init, Idle
  <2>4. \A e \in Events : cache[e] = "none"
    BY DEF Init
  <2>5. TypeOK
    BY <2>1, <2>3, <2>4 DEF Init, MailboxInit, TypeOK
  <2>2. told \in [Asks -> Seq({"answer", "error"})]
    BY DEF Init
  <2> QED
    BY <2>5, <2>2, ServerAssumption DEF Init, MailboxInit, ShapeInv, Idle, NoReply, Kinds
<1>4. PlaceInv /\ TurnInv /\ TriesInv /\ PendingInv /\ PromptInv /\ LastInv
  BY ServerAssumption DEF Init, MailboxInit, PlaceInv, TurnInv, TriesInv,
     PendingInv, PromptInv, LastInv, Idle, NoReply, Asks
<1>5. AccountInv
  BY <1>1, ServerAssumption
  DEF Init, MailboxInit, AccountInv, Account, AtSent, AtCached, AtTold, AtDropped, NoReply, Asks
<1> QED
  BY <1>2, <1>3, <1>4, <1>5 DEF IInv

-----------------------------------------------------------------------------
(* How a step may change the mailbox, the replies and what the user got: most   *)
(* do not.                                                                      *)
books == <<mailboxVars, replying, replays, stops>>

LEMMA StepCases ==
  ASSUME TypeOK, [Next]_vars
  PROVE \/ UNCHANGED books
        \/ Stop
        \/ \E e \in Messages : Listen(e)
        \/ \E S \in SUBSET due : Emit(S) /\ UNCHANGED <<active, replying, replays, stops>>
        \/ \E e \in Events : Take(e)
        \/ Retry
        \/ \E empty \in BOOLEAN : Complete(empty)
        \/ Fail \/ Send \/ SendFails
        \/ \E e \in Prompts : Ask(e)
        \/ Show \/ GiveUp
<1> USE DEF books, mailboxVars, working, replying
<1>1. ASSUME NEW m \in {"server", "cli"}, Boot(m) PROVE UNCHANGED books
  BY <1>1 DEF Boot
<1>2. ASSUME NEW e \in Messages, Arrive(e) \/ ListenFails(e) PROVE UNCHANGED books
  BY <1>2 DEF Arrive, ListenFails
<1>3. ASSUME PollingFails \/ Relisten \/ Spin PROVE UNCHANGED books
  BY <1>3 DEF PollingFails, Relisten, Spin
<1>4. ASSUME NEW f \in Firings, FallDue(f) PROVE UNCHANGED books
  BY <1>4 DEF FallDue
<1>5. ASSUME Returns \/ Ingests \/ AttemptFails \/ HandlerFails \/ CompleteFails PROVE UNCHANGED books
  BY <1>5 DEF Returns, Ingests, AttemptFails, HandlerFails, CompleteFails
<1>6. ASSUME UNCHANGED vars PROVE UNCHANGED books
  BY <1>6 DEF vars
<1>7. ASSUME Tick
      PROVE \E S \in SUBSET due : Emit(S) /\ UNCHANGED <<active, replying, replays, stops>>
  BY <1>7 DEF Tick
<1>8. ASSUME NEW S \in SUBSET Firings, TickFails(S)
      PROVE \E R \in SUBSET due : Emit(R) /\ UNCHANGED <<active, replying, replays, stops>>
  BY <1>8 DEF TickFails
<1> QED
  BY <1>1, <1>2, <1>3, <1>4, <1>5, <1>6, <1>7, <1>8 DEF Next, Gateway, Handle

LEMMA TypeStep ==
  ASSUME TypeOK, ShapeInv, PendingInv, [Next]_vars
  PROVE TypeOK'
<1> USE DEF TypeOK, ShapeInv, Idle, NoReply, Kinds, Places,
        mailboxVars, listening, timing, working, replying
<1>1. ASSUME NEW m \in {"server", "cli"}, Boot(m) PROVE TypeOK'
  <2>1. CASE m = "server" /\ connected' = TRUE /\ listener' = "listening"
    BY <1>1, <2>1 DEF Boot
  <2>2. CASE UNCHANGED <<connected, listener>>
    BY <1>1, <2>2 DEF Boot
  <2> QED
    BY <1>1, <2>1, <2>2 DEF Boot
<1>2. ASSUME Stop PROVE TypeOK'
  <2>1. /\ place' \in [Events -> Places] /\ active' = NoEvent
        /\ turn'.attempt \in 0 .. Turns /\ turn'.stage = "idle"
    BY <1>2, ServerAssumption DEF Stop, Return
  <2>2. cache' \in [Events -> Kinds] /\ \A e \in Events : cache'[e] = "none"
    BY <1>2 DEF Stop
  <2>3. /\ mode' = "down" /\ connected' = FALSE /\ inbox' = {} /\ listener' = "none"
        /\ scheduler' = "off" /\ due' = {} /\ reply' = NoReply /\ asking' = NoEvent
    BY <1>2 DEF Stop
  <2> QED
    BY <2>1, <2>2, <2>3
<1>3. ASSUME NEW e \in Messages, Arrive(e) PROVE TypeOK'
  BY <1>3, ServerAssumption, SMTT(20) DEF Arrive
<1>4. ASSUME PollingFails PROVE TypeOK'
  BY <1>4, ServerAssumption DEF PollingFails
<1>5. ASSUME NEW e \in Messages, Listen(e) PROVE TypeOK'
  BY <1>5, ServerAssumption DEF Listen, Accept
<1>6. ASSUME NEW e \in Messages, ListenFails(e) PROVE TypeOK'
  BY <1>6, ServerAssumption DEF ListenFails
<1>7. ASSUME Relisten \/ Spin PROVE TypeOK'
  BY <1>7, ServerAssumption DEF Relisten, Spin
<1>8. ASSUME NEW f \in Firings, FallDue(f) PROVE TypeOK'
  BY <1>8, ServerAssumption DEF FallDue
<1>9. ASSUME Tick PROVE TypeOK'
  BY <1>9, ServerAssumption DEF Tick, Emit
<1>10. ASSUME NEW S \in SUBSET Firings, TickFails(S) PROVE TypeOK'
  BY <1>10, ServerAssumption DEF TickFails, Emit
<1>11. ASSUME NEW e \in Events, Take(e) PROVE TypeOK'
  <2>1. turn' = [attempt |-> 1, stage |-> "calling", stored |-> 0] /\ 1 \in 0 .. Turns
    BY <1>11, ServerAssumption DEF Take
  <2>2. active' \in Events /\ active' # NoEvent /\ UNCHANGED place
    BY <1>11, ServerAssumption DEF Take, Deliver
  <2> QED
    BY <1>11, <2>1, <2>2 DEF Take, Live
<1>12. ASSUME Returns \/ HandlerFails \/ CompleteFails PROVE TypeOK'
  <2>1. turn'.attempt = 0 /\ turn'.stage \in {"returned", "raised"} /\ 0 \in 0 .. Turns
    BY <1>12, ServerAssumption DEF Returns, HandlerFails, CompleteFails, Stage
  <2>2. turn.stage # "idle" /\ UNCHANGED <<mailboxVars, mode, listening, timing, replying>>
    BY <1>12 DEF Returns, HandlerFails, CompleteFails, Stage
  <2> QED
    BY <2>1, <2>2
<1>13. ASSUME Ingests \/ AttemptFails PROVE TypeOK'
  <2>1. turn'.attempt \in 0 .. Turns /\ turn'.stage \in {"calling", "returned", "raised"}
    BY <1>13, ServerAssumption DEF Ingests, AttemptFails, Again
  <2>2. turn.stage # "idle" /\ UNCHANGED <<mailboxVars, mode, listening, timing, replying>>
    BY <1>13 DEF Ingests, AttemptFails
  <2> QED
    BY <2>1, <2>2
<1>14. ASSUME Retry PROVE TypeOK'
  BY <1>14, ServerAssumption DEF Retry, Stage
<1>15. ASSUME NEW empty \in BOOLEAN, Complete(empty) PROVE TypeOK'
  <2>1. place' \in [Events -> Places] /\ active' = NoEvent /\ turn' = Idle
    BY <1>15 DEF Complete, Acknowledge
  <2>2. cache' \in [Events -> Kinds] /\ (mode # "cli" => UNCHANGED cache)
    BY <1>15 DEF Complete, Output
  <2>3. /\ reply' = NoReply \/ (reply'.of \in Asks /\ reply'.kind \in Kinds)
        /\ mode # "server" => reply' = NoReply
    BY <1>15 DEF Complete, Output, Live
  <2> QED
    BY <1>15, <2>1, <2>2, <2>3, ServerAssumption DEF Complete, Output, Live
<1>16. ASSUME Fail PROVE TypeOK'
  <2>1. place' \in [Events -> Places] /\ active' = NoEvent /\ turn' = Idle
    BY <1>16 DEF Fail, Park, Return
  <2>2. cache' \in [Events -> Kinds] /\ (mode # "cli" => UNCHANGED cache)
    BY <1>16 DEF Fail, Output
  <2>3. /\ reply' = NoReply \/ (reply'.of \in Asks /\ reply'.kind \in Kinds)
        /\ mode # "server" => reply' = NoReply
    BY <1>16 DEF Fail, Output, Live
  <2> QED
    BY <1>16, <2>1, <2>2, <2>3, ServerAssumption DEF Fail, Output, Live
<1>17. ASSUME Send PROVE TypeOK'
  BY <1>17, ServerAssumption DEF Send
<1>18. ASSUME SendFails PROVE TypeOK'
  BY <1>18, ServerAssumption DEF SendFails
<1>19. ASSUME NEW e \in Prompts, Ask(e) PROVE TypeOK'
  BY <1>19, ServerAssumption DEF Ask, Accept
<1>20. ASSUME Show PROVE TypeOK'
  BY <1>20, ServerAssumption DEF Show
<1>21. ASSUME GiveUp PROVE TypeOK'
  BY <1>21, ServerAssumption DEF GiveUp
<1>22. ASSUME UNCHANGED vars PROVE TypeOK'
  BY <1>22, ServerAssumption DEF vars
<1> QED
  BY <1>1, <1>2, <1>3, <1>4, <1>5, <1>6, <1>7, <1>8, <1>9, <1>10, <1>11, <1>12, <1>13, <1>14, <1>15, <1>16, <1>17, <1>18, <1>19, <1>20, <1>21, <1>22 DEF Next, Gateway, Handle

LEMMA ShapeStep ==
  ASSUME TypeOK, ShapeInv, PendingInv, [Next]_vars
  PROVE ShapeInv'
<1> USE DEF TypeOK, ShapeInv, Idle, NoReply, Kinds,
        mailboxVars, listening, timing, working, replying
<1>1. ASSUME NEW m \in {"server", "cli"}, Boot(m) PROVE ShapeInv'
  BY <1>1, ServerAssumption DEF Boot
<1>2. ASSUME Stop PROVE ShapeInv'
  <2>1. unsent' \subseteq Asks \X Kinds /\ forgotten' \subseteq Prompts /\ lost' \subseteq Messages
    BY <1>2 DEF Stop
  <2>2. tries' = tries /\ replays' = replays /\ stops' \in 0 .. MaxStops
    BY <1>2, ServerAssumption DEF Stop, Return
  <2>3. turn' = Idle /\ reply' = NoReply /\ told' = told /\ 0 \in 0 .. Turns
    BY <1>2, ServerAssumption DEF Stop
  <2> QED
    BY <2>1, <2>2, <2>3
<1>3. ASSUME NEW e \in Messages, Arrive(e) PROVE ShapeInv'
  BY <1>3, ServerAssumption DEF Arrive
<1>4. ASSUME PollingFails PROVE ShapeInv'
  BY <1>4, ServerAssumption DEF PollingFails
<1>5. ASSUME NEW e \in Messages, Listen(e) PROVE ShapeInv'
  BY <1>5, ServerAssumption DEF Listen, Accept
<1>6. ASSUME NEW e \in Messages, ListenFails(e) PROVE ShapeInv'
  BY <1>6, ServerAssumption DEF ListenFails
<1>7. ASSUME Relisten \/ Spin PROVE ShapeInv'
  BY <1>7, ServerAssumption DEF Relisten, Spin
<1>8. ASSUME NEW f \in Firings, FallDue(f) PROVE ShapeInv'
  BY <1>8, ServerAssumption DEF FallDue
<1>9. ASSUME Tick PROVE ShapeInv'
  BY <1>9, ServerAssumption DEF Tick, Emit
<1>10. ASSUME NEW S \in SUBSET Firings, TickFails(S) PROVE ShapeInv'
  BY <1>10, ServerAssumption DEF TickFails, Emit
<1>11. ASSUME NEW e \in Events, Take(e) PROVE ShapeInv'
  BY <1>11, ServerAssumption, SMTT(20) DEF Take, Deliver
<1>12. ASSUME Returns \/ HandlerFails \/ CompleteFails PROVE ShapeInv'
  BY <1>12, ServerAssumption, SMTT(20) DEF Returns, HandlerFails, CompleteFails, Stage
<1>13. ASSUME Ingests \/ AttemptFails PROVE ShapeInv'
  <2>1. ASSUME NEW n \in Nat
        PROVE Again(n) \in [attempt : 0 .. Turns, stage : {"calling", "raised"}, stored : Nat]
    BY ServerAssumption DEF Again
  <2>2. turn' \in [attempt : 0 .. Turns, stage : {"calling", "returned", "raised"}, stored : Nat]
    <3>1. turn.stored \in Nat /\ turn.stored + 1 \in Nat /\ 0 \in 0 .. Turns
      BY ServerAssumption
    <3>2. \/ turn' = [attempt |-> 0, stage |-> "returned", stored |-> turn.stored + 1]
          \/ turn' = Again(turn.stored)
          \/ turn' = Again(turn.stored + 1)
      BY <1>13 DEF Ingests, AttemptFails
    <3>3. Again(turn.stored) \in [attempt : 0 .. Turns, stage : {"calling", "raised"}, stored : Nat]
      BY <2>1, <3>1
    <3>4. Again(turn.stored + 1) \in [attempt : 0 .. Turns, stage : {"calling", "raised"}, stored : Nat]
      BY <2>1, <3>1
    <3> QED
      BY <3>1, <3>2, <3>3, <3>4
  <2> QED
    BY <1>13, <2>2 DEF Ingests, AttemptFails
<1>14. ASSUME Retry PROVE ShapeInv'
  BY <1>14, ServerAssumption DEF Retry, Stage
<1>15. ASSUME NEW empty \in BOOLEAN, Complete(empty) PROVE ShapeInv'
  BY <1>15, ServerAssumption DEF Complete, Output, Acknowledge
<1>16. ASSUME Fail PROVE ShapeInv'
  BY <1>16, ServerAssumption DEF Fail, Output, Park, Return
<1>17. ASSUME Send PROVE ShapeInv'
  <2>1. reply.of \in Asks /\ reply # NoReply /\ reply.kind \in {"answer", "error"}
    BY <1>17, ServerAssumption DEF Send, PendingInv, Asks
  <2>2. told' \in [Asks -> Seq({"answer", "error"})]
    BY <1>17, <2>1 DEF Send
  <2> QED
    BY <1>17, <2>2 DEF Send
<1>18. ASSUME SendFails PROVE ShapeInv'
  BY <1>18, ServerAssumption DEF SendFails
<1>19. ASSUME NEW e \in Prompts, Ask(e) PROVE ShapeInv'
  BY <1>19, ServerAssumption DEF Ask, Accept
<1>20. ASSUME Show PROVE ShapeInv'
  <2>1. asking \in Asks /\ asking \in Events /\ cache[asking] \in {"answer", "error"}
    BY <1>20, ServerAssumption DEF Show, Asks
  <2>2. told' \in [Asks -> Seq({"answer", "error"})]
    BY <1>20, <2>1 DEF Show
  <2> QED
    BY <1>20, <2>2 DEF Show
<1>21. ASSUME GiveUp PROVE ShapeInv'
  BY <1>21, ServerAssumption DEF GiveUp
<1>22. ASSUME UNCHANGED vars PROVE ShapeInv'
  BY <1>22, ServerAssumption DEF vars
<1> QED
  BY <1>1, <1>2, <1>3, <1>4, <1>5, <1>6, <1>7, <1>8, <1>9, <1>10, <1>11, <1>12, <1>13, <1>14, <1>15, <1>16, <1>17, <1>18, <1>19, <1>20, <1>21, <1>22 DEF Next, Gateway, Handle

(* Only the handling of an event, and the end of the process, touch the turn.   *)
LEMMA TurnCases ==
  ASSUME [Next]_vars
  PROVE \/ UNCHANGED turn
        \/ Stop
        \/ \E e \in Events : Take(e)
        \/ Returns \/ HandlerFails \/ CompleteFails \/ Ingests \/ AttemptFails \/ Retry
        \/ \E empty \in BOOLEAN : Complete(empty)
        \/ Fail
<1> USE DEF working
<1>1. ASSUME NEW m \in {"server", "cli"}, Boot(m) PROVE UNCHANGED turn
  BY <1>1 DEF Boot
<1>2. ASSUME NEW e \in Messages, Arrive(e) \/ Listen(e) \/ ListenFails(e) PROVE UNCHANGED turn
  BY <1>2 DEF Arrive, Listen, ListenFails
<1>3. ASSUME PollingFails \/ Relisten \/ Spin \/ Tick PROVE UNCHANGED turn
  BY <1>3 DEF PollingFails, Relisten, Spin, Tick
<1>4. ASSUME NEW f \in Firings, FallDue(f) PROVE UNCHANGED turn
  BY <1>4 DEF FallDue
<1>5. ASSUME NEW S \in SUBSET Firings, TickFails(S) PROVE UNCHANGED turn
  BY <1>5 DEF TickFails
<1>6. ASSUME NEW e \in Prompts, Ask(e) PROVE UNCHANGED turn
  BY <1>6 DEF Ask
<1>7. ASSUME Send \/ SendFails \/ Show \/ GiveUp PROVE UNCHANGED turn
  BY <1>7 DEF Send, SendFails, Show, GiveUp
<1>8. ASSUME UNCHANGED vars PROVE UNCHANGED turn
  BY <1>8 DEF vars
<1> QED
  BY <1>1, <1>2, <1>3, <1>4, <1>5, <1>6, <1>7, <1>8 DEF Next, Gateway, Handle

LEMMA TurnStep ==
  ASSUME ShapeInv, TurnInv, [Next]_vars
  PROVE TurnInv'
<1> USE ServerAssumption DEF ShapeInv, TurnInv, Idle
<1>1. ASSUME UNCHANGED turn PROVE TurnInv'
  BY <1>1
<1>2. ASSUME Stop PROVE TurnInv'
  BY <1>2 DEF Stop
<1>3. ASSUME NEW e \in Events, Take(e) PROVE TurnInv'
  BY <1>3 DEF Take
<1>4. ASSUME Returns \/ HandlerFails \/ CompleteFails \/ Retry PROVE TurnInv'
  BY <1>4 DEF Returns, HandlerFails, CompleteFails, Retry, Stage
<1>5. ASSUME Ingests PROVE TurnInv'
  BY <1>5 DEF Ingests
<1>6. ASSUME AttemptFails PROVE TurnInv'
  BY <1>6 DEF AttemptFails, Again
<1>7. ASSUME NEW empty \in BOOLEAN, Complete(empty) PROVE TurnInv'
  BY <1>7 DEF Complete
<1>8. ASSUME Fail PROVE TurnInv'
  BY <1>8 DEF Fail
<1> QED
  BY <1>1, <1>2, <1>3, <1>4, <1>5, <1>6, <1>7, <1>8, TurnCases

LEMMA PlaceStep ==
  ASSUME TypeOK, ShapeInv, PlaceInv, [Next]_vars
  PROVE PlaceInv'
<1> USE DEF TypeOK, ShapeInv, PlaceInv, mailboxVars, listening, timing
<1>0. /\ Messages \subseteq Events /\ Prompts \subseteq Events /\ Firings \subseteq Events
      /\ inbox \subseteq Messages /\ due \subseteq Firings /\ NoEvent \notin Events
      /\ Messages \cap Firings = {} /\ Prompts \cap Firings = {} /\ Messages \cap Prompts = {}
  BY ServerAssumption DEF Asks
<1>1. ASSUME NEW m \in {"server", "cli"}, Boot(m) PROVE PlaceInv'
  BY <1>1, <1>0 DEF Boot
<1>2. ASSUME Stop PROVE PlaceInv'
  <2>1. active' = NoEvent /\ inbox' = {} /\ due' = {}
    BY <1>2 DEF Stop, Return
  <2> QED
    BY <2>1
<1>3. ASSUME NEW e \in Messages, Arrive(e) PROVE PlaceInv'
  BY <1>3, <1>0 DEF Arrive
<1>4. ASSUME PollingFails PROVE PlaceInv'
  BY <1>4, <1>0 DEF PollingFails
<1>5. ASSUME NEW e \in Messages, Listen(e) PROVE PlaceInv'
  BY <1>5, <1>0 DEF Listen, Accept
<1>6. ASSUME NEW e \in Messages, ListenFails(e) PROVE PlaceInv'
  BY <1>6, <1>0 DEF ListenFails
<1>7. ASSUME Relisten \/ Spin PROVE PlaceInv'
  BY <1>7, <1>0 DEF Relisten, Spin
<1>8. ASSUME NEW f \in Firings, FallDue(f) PROVE PlaceInv'
  BY <1>8, <1>0 DEF FallDue
<1>9. ASSUME Tick PROVE PlaceInv'
  BY <1>9, <1>0 DEF Tick, Emit
<1>10. ASSUME NEW S \in SUBSET Firings, TickFails(S) PROVE PlaceInv'
  BY <1>10, <1>0 DEF TickFails, Emit
<1>11. ASSUME NEW e \in Events, Take(e) PROVE PlaceInv'
  BY <1>11, <1>0 DEF Take, Deliver
<1>12. ASSUME Returns \/ HandlerFails \/ CompleteFails PROVE PlaceInv'
  BY <1>12, <1>0 DEF Returns, HandlerFails, CompleteFails, Stage
<1>13. ASSUME Ingests \/ AttemptFails PROVE PlaceInv'
  BY <1>13, <1>0 DEF Ingests, AttemptFails, Again
<1>14. ASSUME Retry PROVE PlaceInv'
  BY <1>14, <1>0 DEF Retry, Stage
<1>15. ASSUME NEW empty \in BOOLEAN, Complete(empty) PROVE PlaceInv'
  BY <1>15, <1>0 DEF Complete, Output, Acknowledge
<1>16. ASSUME Fail PROVE PlaceInv'
  BY <1>16, <1>0 DEF Fail, Output, Park, Return
<1>17. ASSUME Send PROVE PlaceInv'
  BY <1>17, <1>0 DEF Send
<1>18. ASSUME SendFails PROVE PlaceInv'
  BY <1>18, <1>0 DEF SendFails
<1>19. ASSUME NEW e \in Prompts, Ask(e) PROVE PlaceInv'
  BY <1>19, <1>0 DEF Ask, Accept
<1>20. ASSUME Show PROVE PlaceInv'
  BY <1>20, <1>0 DEF Show
<1>21. ASSUME GiveUp PROVE PlaceInv'
  BY <1>21, <1>0 DEF GiveUp
<1>22. ASSUME UNCHANGED vars PROVE PlaceInv'
  BY <1>22, <1>0 DEF vars
<1> QED
  BY <1>1, <1>2, <1>3, <1>4, <1>5, <1>6, <1>7, <1>8, <1>9, <1>10, <1>11, <1>12, <1>13, <1>14, <1>15, <1>16, <1>17, <1>18, <1>19, <1>20, <1>21, <1>22 DEF Next, Gateway, Handle

LEMMA TriesStep ==
  ASSUME TypeOK, ShapeInv, PlaceInv, TriesInv, [Next]_vars
  PROVE TriesInv'
<1> USE DEF TypeOK, ShapeInv, PlaceInv, TriesInv, books, mailboxVars, working, replying, listening, timing
<1>0. /\ Asks \subseteq Events /\ Messages \subseteq Asks /\ Prompts \subseteq Asks
      /\ due \subseteq Firings /\ Firings \subseteq Events /\ Asks \cap Firings = {} /\ NoEvent \notin Events
  BY ServerAssumption DEF Asks, TypeOK
<1>1. ASSUME UNCHANGED books PROVE TriesInv'
  BY <1>1, <1>0, ServerAssumption DEF books
<1>2. ASSUME Stop PROVE TriesInv'
  BY <1>2, <1>0, ServerAssumption, SMTT(20) DEF Stop, Return
<1>3. ASSUME NEW e \in Messages, Listen(e) PROVE TriesInv'
  BY <1>3, <1>0, ServerAssumption DEF Listen, Accept
<1>4. ASSUME NEW S \in SUBSET due, Emit(S), UNCHANGED <<active, replying, replays, stops>> PROVE TriesInv'
  BY <1>4, <1>0, ServerAssumption DEF Emit
<1>5. ASSUME NEW e \in Events, Take(e) PROVE TriesInv'
  BY <1>5, <1>0, ServerAssumption, SMTT(20) DEF Take, Deliver
<1>6. ASSUME Retry PROVE TriesInv'
  BY <1>6, <1>0, ServerAssumption DEF Retry
<1>7. ASSUME NEW empty \in BOOLEAN, Complete(empty) PROVE TriesInv'
  BY <1>7, <1>0, ServerAssumption DEF Complete, Output, Acknowledge
<1>8. ASSUME Fail PROVE TriesInv'
  BY <1>8, <1>0, ServerAssumption, SMTT(20) DEF Fail, Output, Park, Return
<1>9. ASSUME Send PROVE TriesInv'
  BY <1>9, <1>0, ServerAssumption DEF Send
<1>10. ASSUME SendFails PROVE TriesInv'
  BY <1>10, <1>0, ServerAssumption DEF SendFails
<1>11. ASSUME NEW e \in Prompts, Ask(e) PROVE TriesInv'
  BY <1>11, <1>0, ServerAssumption DEF Ask, Accept
<1>12. ASSUME Show PROVE TriesInv'
  BY <1>12, <1>0, ServerAssumption DEF Show
<1>13. ASSUME GiveUp PROVE TriesInv'
  BY <1>13, <1>0, ServerAssumption DEF GiveUp
<1> QED
  BY <1>1, <1>2, <1>3, <1>4, <1>5, <1>6, <1>7, <1>8, <1>9, <1>10, <1>11, <1>12, <1>13, StepCases


LEMMA PendingStep ==
  ASSUME TypeOK, ShapeInv, PlaceInv, PendingInv, [Next]_vars
  PROVE PendingInv'
<1> USE DEF TypeOK, ShapeInv, PlaceInv, PendingInv, NoReply, books, mailboxVars, working, replying, listening, timing
<1>0. /\ Asks \subseteq Events /\ Messages \subseteq Asks /\ Prompts \subseteq Asks
      /\ due \subseteq Firings /\ Firings \subseteq Events /\ Asks \cap Firings = {} /\ NoEvent \notin Events
  BY ServerAssumption DEF Asks, TypeOK
<1>1. ASSUME UNCHANGED books PROVE PendingInv'
  BY <1>1, <1>0, ServerAssumption DEF books
<1>2. ASSUME Stop PROVE PendingInv'
  BY <1>2, <1>0, ServerAssumption DEF Stop, Return
<1>3. ASSUME NEW e \in Messages, Listen(e) PROVE PendingInv'
  BY <1>3, <1>0, ServerAssumption DEF Listen, Accept
<1>4. ASSUME NEW S \in SUBSET due, Emit(S), UNCHANGED <<active, replying, replays, stops>> PROVE PendingInv'
  BY <1>4, <1>0, ServerAssumption DEF Emit
<1>5. ASSUME NEW e \in Events, Take(e) PROVE PendingInv'
  BY <1>5, <1>0, ServerAssumption DEF Take, Deliver
<1>6. ASSUME Retry PROVE PendingInv'
  BY <1>6, <1>0, ServerAssumption DEF Retry
<1>7. ASSUME NEW empty \in BOOLEAN, Complete(empty) PROVE PendingInv'
  BY <1>7, <1>0, ServerAssumption DEF Complete, Output, Acknowledge
<1>8. ASSUME Fail PROVE PendingInv'
  BY <1>8, <1>0, ServerAssumption DEF Fail, Output, Park, Return
<1>9. ASSUME Send PROVE PendingInv'
  BY <1>9, <1>0, ServerAssumption DEF Send
<1>10. ASSUME SendFails PROVE PendingInv'
  BY <1>10, <1>0, ServerAssumption DEF SendFails
<1>11. ASSUME NEW e \in Prompts, Ask(e) PROVE PendingInv'
  BY <1>11, <1>0, ServerAssumption DEF Ask, Accept
<1>12. ASSUME Show PROVE PendingInv'
  BY <1>12, <1>0, ServerAssumption DEF Show
<1>13. ASSUME GiveUp PROVE PendingInv'
  BY <1>13, <1>0, ServerAssumption DEF GiveUp
<1> QED
  BY <1>1, <1>2, <1>3, <1>4, <1>5, <1>6, <1>7, <1>8, <1>9, <1>10, <1>11, <1>12, <1>13, StepCases


(* What appending to what the user got changes.                                 *)
LEMMA Appending ==
  ASSUME NEW s \in Seq({"answer", "error"}), NEW k \in {"answer", "error"}
  PROVE /\ Append(s, k) # <<>>
        /\ "answer" \in {Append(s, k)[i] : i \in DOMAIN Append(s, k)}
             <=> k = "answer" \/ "answer" \in {s[i] : i \in DOMAIN s}
        /\ Errors(Append(s, k)) = IF k = "error" THEN Errors(s) \cup {Len(s) + 1} ELSE Errors(s)
        /\ Len(s) + 1 \notin Errors(s)
<1>1. /\ DOMAIN s = 1 .. Len(s) /\ Len(s) \in Nat
      /\ DOMAIN Append(s, k) = 1 .. Len(s) + 1
      /\ Append(s, k)[Len(s) + 1] = k
      /\ \A i \in 1 .. Len(s) : Append(s, k)[i] = s[i]
  OBVIOUS
<1>2. Append(s, k) # <<>>
  OBVIOUS
<1>3. 1 .. Len(s) + 1 = (1 .. Len(s)) \cup {Len(s) + 1} /\ Len(s) + 1 \notin 1 .. Len(s)
  BY <1>1
<1>4. "answer" \in {Append(s, k)[i] : i \in DOMAIN Append(s, k)}
        <=> k = "answer" \/ "answer" \in {s[i] : i \in DOMAIN s}
  BY <1>1, <1>3
<1>5. Errors(Append(s, k)) = IF k = "error" THEN Errors(s) \cup {Len(s) + 1} ELSE Errors(s)
  BY <1>1, <1>3 DEF Errors
<1>6. Len(s) + 1 \notin Errors(s)
  BY <1>1, <1>3 DEF Errors
<1> QED
  BY <1>2, <1>4, <1>5, <1>6

LEMMA PromptStep ==
  ASSUME TypeOK, ShapeInv, PlaceInv, PromptInv, [Next]_vars
  PROVE PromptInv'
<1> USE DEF TypeOK, ShapeInv, PlaceInv, PromptInv, books, mailboxVars, working, replying, listening, timing
<1>0. /\ Asks \subseteq Events /\ Messages \subseteq Asks /\ Prompts \subseteq Asks
      /\ due \subseteq Firings /\ Firings \subseteq Events /\ Asks \cap Firings = {} /\ NoEvent \notin Events
  BY ServerAssumption DEF Asks, TypeOK
<1>1. ASSUME UNCHANGED books PROVE PromptInv'
  BY <1>1, <1>0, ServerAssumption DEF books
<1>2. ASSUME Stop PROVE PromptInv'
  BY <1>2, <1>0, ServerAssumption DEF Stop, Return
<1>3. ASSUME NEW e \in Messages, Listen(e) PROVE PromptInv'
  BY <1>3, <1>0, ServerAssumption DEF Listen, Accept
<1>4. ASSUME NEW S \in SUBSET due, Emit(S), UNCHANGED <<active, replying, replays, stops>> PROVE PromptInv'
  BY <1>4, <1>0, ServerAssumption DEF Emit
<1>5. ASSUME NEW e \in Events, Take(e) PROVE PromptInv'
  BY <1>5, <1>0, ServerAssumption DEF Take, Deliver
<1>6. ASSUME Retry PROVE PromptInv'
  BY <1>6, <1>0, ServerAssumption DEF Retry
<1>7. ASSUME NEW empty \in BOOLEAN, Complete(empty) PROVE PromptInv'
  BY <1>7, <1>0, ServerAssumption DEF Complete, Output, Acknowledge
<1>8. ASSUME Fail PROVE PromptInv'
  BY <1>8, <1>0, ServerAssumption DEF Fail, Output, Park, Return
<1>9. ASSUME Send PROVE PromptInv'
  BY <1>9, <1>0, ServerAssumption DEF Send
<1>10. ASSUME SendFails PROVE PromptInv'
  BY <1>10, <1>0, ServerAssumption DEF SendFails
<1>11. ASSUME NEW e \in Prompts, Ask(e) PROVE PromptInv'
  BY <1>11, <1>0, ServerAssumption DEF Ask, Accept
<1>12. ASSUME Show PROVE PromptInv'
  <2>1. asking \in Asks /\ told[asking] \in Seq({"answer", "error"}) /\ cache[asking] \in {"answer", "error"}
    BY <1>12, <1>0 DEF Show, Kinds
  <2>2. Append(told[asking], cache[asking]) # <<>>
    BY <2>1, Appending
  <2> QED
    BY <1>12, <1>0, <2>1, <2>2 DEF Show
<1>13. ASSUME GiveUp PROVE PromptInv'
  BY <1>13, <1>0, ServerAssumption DEF GiveUp
<1> QED
  BY <1>1, <1>2, <1>3, <1>4, <1>5, <1>6, <1>7, <1>8, <1>9, <1>10, <1>11, <1>12, <1>13, StepCases

(* Most steps leave the answer to e where it is; otherwise e was in hand, was   *)
(* being sent, or was in the cache.                                             *)
Same(e) ==
  /\ (place[e] = "finished")' <=> place[e] = "finished"
  /\ AtSent(e)' <=> AtSent(e)
  /\ AtCached(e)' <=> AtCached(e)
  /\ AtTold(e)' <=> AtTold(e)
  /\ AtDropped(e)' <=> AtDropped(e)

LEMMA AccountStep ==
  ASSUME TypeOK, ShapeInv, PlaceInv, PendingInv, AccountInv, [Next]_vars
  PROVE AccountInv'
<1> SUFFICES ASSUME NEW e \in Asks PROVE Account(e)'
  BY DEF AccountInv
<1>0. /\ e \in Events /\ Asks \subseteq Events /\ Messages \subseteq Asks /\ Prompts \subseteq Asks
      /\ due \subseteq Firings /\ e \notin Firings /\ NoEvent \notin Events /\ e # NoEvent
  BY ServerAssumption DEF Asks, TypeOK
<1>same. Account(e) /\ (Same(e) => Account(e)')
  BY DEF AccountInv, Account, Same
<1> USE DEF AtSent, AtCached, AtTold, AtDropped, Answered, mailboxVars, replying
<1>1. ASSUME UNCHANGED books PROVE Account(e)'
  <2> QED BY <1>1, <1>same DEF books, Same
<1>2. ASSUME Stop PROVE Account(e)'
  <2>1. UNCHANGED <<place, told>>
    BY <1>2 DEF Stop, Return
  <2>2. ~AtSent(e)' /\ ~AtCached(e)' /\ (AtTold(e)' <=> AtTold(e))
    BY <1>0, <1>2, <2>1 DEF Stop, NoReply
  <2>3. AtDropped(e)' <=> AtSent(e) \/ AtCached(e) \/ AtDropped(e)
    BY <1>0, <1>2 DEF Stop
  <2> QED
    BY <2>1, <2>2, <2>3, <1>same DEF Account
<1>3. ASSUME NEW m \in Messages, Listen(m) PROVE Account(e)'
  <2>1. m \in Events /\ place[m] = "nowhere"
    BY <1>3, ServerAssumption DEF Listen, PlaceInv, Asks
  <2> QED
    BY <1>0, <1>3, <1>same, <2>1 DEF Listen, Accept, Same, TypeOK
<1>4. ASSUME NEW S \in SUBSET due, Emit(S), UNCHANGED <<active, replying, replays, stops>> PROVE Account(e)'
  BY <1>0, <1>4, <1>same DEF Emit, Same
<1>5. ASSUME NEW f \in Events, Take(f) PROVE Account(e)'
  BY <1>5, <1>same DEF Take, Deliver, Same
<1>6. ASSUME Retry PROVE Account(e)'
  BY <1>0, <1>6, <1>same DEF Retry, Same
<1>7. ASSUME NEW empty \in BOOLEAN, Complete(empty) PROVE Account(e)'
  <2>1. reply = NoReply /\ active \in Events /\ place[active] = "queued" /\ mode \in {"server", "cli"}
    BY <1>7 DEF Complete, Live, PendingInv, PlaceInv, TypeOK
  <2>2. CASE e # active
    BY <1>0, <1>7, <1>same, <2>1, <2>2 DEF Complete, Acknowledge, Output, Same, NoReply, TypeOK
  <2>3. CASE e = active
    <3>1. ~AtSent(e) /\ ~AtCached(e) /\ ~AtTold(e) /\ ~AtDropped(e)
      BY <1>same, <2>1, <2>3 DEF Account
    <3>2. place'[e] = "finished" /\ UNCHANGED told
      BY <1>0, <1>7, <2>3 DEF Complete, Acknowledge, TypeOK
    <3>3. CASE mode = "cli"
      <4>1. AtCached(e)' /\ UNCHANGED <<reply, unsent>>
        BY <1>0, <1>7, <2>3, <3>3 DEF Complete, Output, TypeOK
      <4> QED
        BY <3>1, <3>2, <4>1 DEF Account
    <3>4. CASE mode = "server" /\ empty
      <4>1. AtDropped(e)' /\ ~AtSent(e)' /\ UNCHANGED cache
        BY <1>0, <1>7, <2>3, <3>4 DEF Complete, Output, NoReply
      <4> QED
        BY <3>1, <3>2, <4>1 DEF Account
    <3>5. CASE mode = "server" /\ ~empty
      <4>1. AtSent(e)' /\ UNCHANGED <<cache, unsent>>
        BY <1>0, <1>7, <2>3, <3>5 DEF Complete, Output
      <4> QED
        BY <3>1, <3>2, <4>1 DEF Account
    <3> QED
      BY <2>1, <3>3, <3>4, <3>5
  <2> QED
    BY <2>2, <2>3
<1>8. ASSUME Fail PROVE Account(e)'
  <2>1. reply = NoReply /\ active \in Events /\ place[active] = "queued"
    BY <1>8 DEF Fail, PendingInv, PlaceInv, TypeOK
  <2>2. UNCHANGED <<told, unsent>> /\ ~AtSent(e)'
    BY <1>0, <1>8, <2>1 DEF Fail, Output, NoReply
  <2>3. (place[e] = "finished")' <=> place[e] = "finished"
    BY <1>0, <1>8, <2>1 DEF Fail, Park, Return, TypeOK
  <2>4. AtCached(e)' => AtCached(e)
    BY <1>0, <1>8, <2>1 DEF Fail, Output, TypeOK
  <2>5. e # active => (AtCached(e)' <=> AtCached(e))
    BY <1>0, <1>8, <2>1 DEF Fail, Output, TypeOK
  <2>6. ~AtSent(e) /\ (e = active => place[e] # "finished")
    BY <1>0, <2>1 DEF NoReply
  <2> QED
    BY <1>same, <2>2, <2>3, <2>4, <2>5, <2>6 DEF Account
<1>9. ASSUME Send PROVE Account(e)'
  <2>1. reply.of \in Asks /\ reply.kind \in {"answer", "error"} /\ told[reply.of] \in Seq({"answer", "error"})
    BY <1>0, <1>9 DEF Send, PendingInv, ShapeInv, NoReply
  <2>2. AtTold(e)' <=> AtSent(e) \/ AtTold(e)
    <3>1. CASE e = reply.of
      <4>1. told'[e] = Append(told[e], reply.kind)
        BY <1>9, <3>1 DEF Send, ShapeInv
      <4>2. AtSent(e) <=> reply.kind = "answer"
        BY <3>1 DEF ShapeInv
      <4> QED
        BY <2>1, <3>1, <4>1, <4>2, Appending, SMTT(20)
    <3>2. CASE e # reply.of
      BY <1>9, <3>2 DEF Send, ShapeInv
    <3> QED
      BY <3>1, <3>2
  <2>3. ~AtSent(e)' /\ UNCHANGED <<place, cache, unsent>>
    BY <1>0, <1>9 DEF Send, NoReply
  <2> QED
    BY <1>same, <2>2, <2>3 DEF Account
<1>10. ASSUME SendFails PROVE Account(e)'
  <2>1. ~AtSent(e)' /\ UNCHANGED <<place, cache, told>>
    BY <1>0, <1>10 DEF SendFails, NoReply
  <2>2. AtDropped(e)' <=> AtSent(e) \/ AtDropped(e)
    BY <1>10 DEF SendFails, ShapeInv
  <2> QED
    BY <1>same, <2>1, <2>2 DEF Account
<1>11. ASSUME NEW p \in Prompts, Ask(p) PROVE Account(e)'
  BY <1>0, <1>11, <1>same DEF Ask, Accept, Same, TypeOK
<1>12. ASSUME Show PROVE Account(e)'
  <2>1. asking \in Asks /\ cache[asking] \in {"answer", "error"} /\ told[asking] \in Seq({"answer", "error"})
    BY <1>0, <1>12, ServerAssumption DEF Show, ShapeInv, TypeOK, Kinds
  <2>2. AtTold(e)' <=> AtTold(e) \/ (e = asking /\ AtCached(e))
    <3>1. CASE e = asking
      <4>1. told'[e] = Append(told[e], cache[e])
        BY <1>12, <3>1 DEF Show, ShapeInv
      <4> QED
        BY <2>1, <3>1, <4>1, Appending
    <3>2. CASE e # asking
      BY <1>12, <3>2 DEF Show, ShapeInv
    <3> QED
      BY <3>1, <3>2
  <2>3. AtCached(e)' <=> AtCached(e) /\ e # asking
    BY <1>0, <1>12 DEF Show, TypeOK
  <2>4. UNCHANGED <<place, reply, unsent>>
    BY <1>12 DEF Show
  <2> QED
    BY <1>same, <2>2, <2>3, <2>4 DEF Account
<1>13. ASSUME GiveUp PROVE Account(e)'
  BY <1>13, <1>same DEF GiveUp, Same
<1> QED
  BY <1>1, <1>2, <1>3, <1>4, <1>5, <1>6, <1>7, <1>8, <1>9, <1>10, <1>11, <1>12, <1>13, StepCases

(* The answer is last if it is appended to what has none.                       *)
LEMMA LastAppend ==
  ASSUME ShapeInv, LastInv, NEW e \in Asks, ~AtTold(e), NEW k \in {"answer", "error"},
         told' = [told EXCEPT ![e] = Append(@, k)]
  PROVE LastInv'
<1> SUFFICES ASSUME NEW f \in Asks, NEW i \in DOMAIN told'[f], told'[f][i] = "answer"
             PROVE i = Len(told'[f])
  BY DEF LastInv
<1>1. CASE f # e
  BY <1>1 DEF ShapeInv, LastInv
<1>2. CASE f = e
  <2>1. told'[e] = Append(told[e], k) /\ told[e] \in Seq({"answer", "error"})
    BY DEF ShapeInv
  <2>2. Len(told'[e]) = Len(told[e]) + 1 /\ \A j \in 1 .. Len(told[e]) : told'[e][j] = told[e][j]
    BY <2>1
  <2>3. \A j \in 1 .. Len(told[e]) : told[e][j] # "answer"
    BY <2>1 DEF AtTold, Answered
  <2>4. i \in 1 .. Len(told[e]) + 1 /\ Len(told[e]) \in Nat
    BY <1>2, <2>1
  <2> QED
    BY <1>2, <2>2, <2>3, <2>4
<1> QED
  BY <1>1, <1>2

LEMMA LastStep ==
  ASSUME TypeOK, ShapeInv, PlaceInv, PendingInv, AccountInv, LastInv, [Next]_vars
  PROVE LastInv'
<1>0. Asks \subseteq Events /\ Messages \subseteq Asks /\ Prompts \subseteq Asks /\ NoEvent \notin Events
  BY ServerAssumption DEF Asks
<1>1. ASSUME UNCHANGED told PROVE LastInv'
  BY <1>1 DEF LastInv
<1>2. ASSUME Send PROVE LastInv'
  <2>1. /\ reply.of \in Asks /\ reply.kind \in {"answer", "error"}
        /\ told' = [told EXCEPT ![reply.of] = Append(@, reply.kind)]
    BY <1>0, <1>2 DEF Send, PendingInv, NoReply
  <2>2. ~AtTold(reply.of)
    BY <1>2, <2>1 DEF Send, PendingInv, ShapeInv, AccountInv, Account, AtSent, NoReply
  <2> QED
    BY <2>1, <2>2, LastAppend
<1>3. ASSUME Show PROVE LastInv'
  <2>1. /\ asking \in Asks /\ cache[asking] \in {"answer", "error"}
        /\ told' = [told EXCEPT ![asking] = Append(@, cache[asking])]
    BY <1>0, <1>3 DEF Show, TypeOK, Kinds
  <2>2. ~AtTold(asking)
    BY <2>1 DEF PendingInv, AccountInv, Account, AtCached
  <2> QED
    BY <2>1, <2>2, LastAppend
<1>4. ASSUME Stop \/ Retry \/ Fail \/ SendFails \/ GiveUp PROVE UNCHANGED told
  BY <1>4 DEF Stop, Retry, Fail, Output, SendFails, GiveUp, replying
<1>5. ASSUME NEW e \in Events, Listen(e) \/ Take(e) \/ Ask(e) PROVE UNCHANGED told
  BY <1>5 DEF Listen, Take, Ask, replying
<1>6. ASSUME NEW empty \in BOOLEAN, Complete(empty) PROVE UNCHANGED told
  BY <1>6 DEF Complete
<1> QED
  BY <1>0, <1>1, <1>2, <1>3, <1>4, <1>5, <1>6, StepCases DEF books, replying

(* The errors among what a user got are finitely many.                          *)
LEMMA ErrorsFinite ==
  ASSUME NEW s \in Seq({"answer", "error"})
  PROVE IsFiniteSet(Errors(s)) /\ Cardinality(Errors(s)) \in Nat
<1>1. IsFiniteSet(1 .. Len(s))
  BY FS_Interval
<1>2. Errors(s) \subseteq 1 .. Len(s)
  BY DEF Errors
<1> QED
  BY <1>1, <1>2, FS_Subset, FS_CardinalityType

(* Telling an error counts it once.                                             *)
LEMMA ErrorTold ==
  ASSUME NEW s \in Seq({"answer", "error"}), NEW k \in {"answer", "error"}
  PROVE Cardinality(Errors(Append(s, k)))
          = Cardinality(Errors(s)) + (IF k = "error" THEN 1 ELSE 0)
<1>1. IsFiniteSet(Errors(s)) /\ Cardinality(Errors(s)) \in Nat
  BY ErrorsFinite
<1>2. CASE k = "error"
  BY <1>1, <1>2, Appending, FS_AddElement
<1>3. CASE k # "error"
  BY <1>1, <1>3, Appending
<1> QED
  BY <1>2, <1>3

LEMMA ErrorStep ==
  ASSUME TypeOK, ShapeInv, ShapeInv', PlaceInv, PendingInv, ErrorInv, [Next]_vars
  PROVE ErrorInv'
<1> SUFFICES ASSUME NEW e \in Asks PROVE Room(e)'
  BY DEF ErrorInv
<1>0. /\ e \in Events /\ Asks \subseteq Events /\ Messages \subseteq Asks /\ Prompts \subseteq Asks
      /\ due \subseteq Firings /\ e \notin Firings /\ NoEvent \notin Events /\ e # NoEvent
  BY ServerAssumption DEF Asks, TypeOK
<1> DEFINE before == MaxAttempts * replays[e]
<1>n. /\ Failures(e) \in Nat /\ Failures(e)' \in Nat /\ tries[e] \in Nat /\ tries'[e] \in Nat
      /\ replays[e] \in Nat /\ MaxAttempts \in Nat \ {0} /\ before \in Nat
  <2>1. told[e] \in Seq({"answer", "error"}) /\ told'[e] \in Seq({"answer", "error"})
    BY DEF ShapeInv
  <2>2. Cardinality(Errors(told[e])) \in Nat /\ Cardinality(Errors(told'[e])) \in Nat
    BY <2>1, ErrorsFinite
  <2>3. Failures(e) \in Nat /\ Failures(e)' \in Nat
    BY <2>2 DEF Failures, Coming, Errors
  <2>4. tries[e] \in Nat /\ tries'[e] \in Nat /\ replays[e] \in Nat /\ MaxAttempts \in Nat \ {0}
    BY <1>0, ServerAssumption DEF ShapeInv
  <2> QED
    BY <2>3, <2>4
<1>c. /\ Cardinality(Errors(told[e])) \in Nat /\ Coming(e) \in Nat /\ Coming(e)' \in Nat
      /\ told[e] \in Seq({"answer", "error"})
      /\ Failures(e) = Cardinality(Errors(told[e])) + Coming(e)
      /\ Failures(e)' = Cardinality(Errors(told'[e])) + Coming(e)'
  <2>1. told[e] \in Seq({"answer", "error"})
    BY DEF ShapeInv
  <2>2. Cardinality(Errors(told[e])) \in Nat
    BY <2>1, ErrorsFinite
  <2>3. Coming(e) \in Nat /\ Coming(e)' \in Nat
    BY DEF Coming
  <2> QED
    BY <2>1, <2>2, <2>3 DEF Failures, Errors
<1>r. Room(e)
  BY DEF ErrorInv
<1>less. ASSUME UNCHANGED <<place, tries, replays>>, Failures(e)' <= Failures(e), active' = e => active = e
         PROVE Room(e)'
  BY <1>n, <1>r, <1>less DEF Room
<1>accept. ASSUME NEW m \in Events, place[m] = "nowhere", m # active,
                  UNCHANGED <<replays, reply, cache, told, active>>,
                  place' = [place EXCEPT ![m] = "queued"], tries' = [tries EXCEPT ![m] = 0]
           PROVE Room(e)'
  <2>1. Failures(e)' = Failures(e)
    BY <1>accept DEF Failures, Coming
  <2>2. CASE e = m
    <3>1. Failures(e)' = 0 /\ place'[e] = "queued" /\ tries'[e] = 0 /\ e # active'
      BY <1>0, <1>r, <1>accept, <2>1, <2>2 DEF Room, TypeOK, ShapeInv
    <3> QED
      BY <1>n, <1>accept, <3>1 DEF Room
  <2>3. CASE e # m
    BY <1>0, <1>n, <1>r, <1>accept, <2>1, <2>3 DEF Room, TypeOK, ShapeInv
  <2> QED
    BY <2>2, <2>3
<1>1. ASSUME UNCHANGED books PROVE Room(e)'
  <2>1. Failures(e)' = Failures(e)
    BY <1>1 DEF Failures, Coming, books, replying
  <2> QED
    BY <1>1, <1>n, <1>less, <2>1 DEF books, mailboxVars
<1>2. ASSUME Stop PROVE Room(e)'
  <2>1. UNCHANGED <<place, tries, replays, told>> /\ active' = NoEvent
    BY <1>2 DEF Stop, Return, mailboxVars
  <2>2. Coming(e)' = 0
    BY <1>0, <1>2 DEF Stop, Coming, NoReply
  <2>3. Failures(e)' <= Failures(e)
    BY <2>1, <2>2, <1>c
  <2> QED
    BY <1>0, <1>less, <2>1, <2>3
<1>3. ASSUME NEW m \in Messages, Listen(m) PROVE Room(e)'
  <2>1. /\ m \in Events /\ place[m] = "nowhere" /\ m # active
        /\ UNCHANGED <<replays, reply, cache, told, active>>
        /\ place' = [place EXCEPT ![m] = "queued"] /\ tries' = [tries EXCEPT ![m] = 0]
    BY <1>0, <1>3 DEF Listen, Accept, PlaceInv, working, replying
  <2> QED
    BY <2>1, <1>accept
<1>4. ASSUME NEW S \in SUBSET due, Emit(S), UNCHANGED <<active, replying, replays, stops>> PROVE Room(e)'
  <2>1. Failures(e)' = Failures(e) /\ UNCHANGED <<active, replays>>
    BY <1>4 DEF Failures, Coming, replying
  <2>2. place'[e] = place[e] /\ tries'[e] = tries[e]
    BY <1>0, <1>4 DEF Emit
  <2> QED
    BY <1>r, <2>1, <2>2 DEF Room
<1>5. ASSUME NEW f \in Events, Take(f) PROVE Room(e)'
  <2>1. Failures(e)' = Failures(e) /\ UNCHANGED <<place, replays>> /\ active' = f
    BY <1>5 DEF Take, Deliver, Failures, Coming, replying
  <2>2. tries'[e] = IF e = f THEN tries[e] + 1 ELSE tries[e]
    BY <1>0, <1>5 DEF Take, Deliver, ShapeInv
  <2> QED
    BY <1>n, <1>r, <2>1, <2>2 DEF Room
<1>6. ASSUME Retry PROVE Room(e)'
  <2>1. Failures(e)' = Failures(e) /\ UNCHANGED active /\ active # e
    BY <1>0, <1>6, ServerAssumption DEF Retry, Failures, Coming, replying
  <2>2. CASE place[e] = "parked"
    <3>1. place'[e] = "queued" /\ tries'[e] = 0 /\ replays'[e] = replays[e] + 1
      BY <1>0, <1>6, <2>2 DEF Retry
    <3>2. MaxAttempts * replays'[e] = before + MaxAttempts
      BY <1>n, <3>1
    <3> QED
      BY <1>n, <1>r, <2>1, <3>1, <3>2 DEF Room
  <2>3. CASE place[e] # "parked"
    <3>1. place'[e] = place[e] /\ tries'[e] = tries[e] /\ replays'[e] = replays[e]
      BY <1>0, <1>6, <2>3 DEF Retry
    <3> QED
      BY <1>r, <2>1, <3>1 DEF Room
  <2> QED
    BY <2>2, <2>3
<1>7. ASSUME NEW empty \in BOOLEAN, Complete(empty) PROVE Room(e)'
  <2>1. reply = NoReply /\ active \in Events /\ active' = NoEvent /\ place[active] = "queued"
        /\ UNCHANGED <<tries, replays, told>>
    BY <1>7 DEF Complete, Acknowledge, PendingInv, PlaceInv, TypeOK
  <2>2. Coming(e)' <= Coming(e)
    BY <1>0, <1>7, <2>1 DEF Complete, Output, Coming, TypeOK, NoReply
  <2>3. Failures(e)' <= Failures(e)
    BY <1>c, <2>1, <2>2
  <2>4. place'[e] = IF e = active THEN "finished" ELSE place[e]
    BY <1>0, <1>7 DEF Complete, Acknowledge, TypeOK
  <2> QED
    BY <1>0, <1>n, <1>r, <2>1, <2>3, <2>4 DEF Room
<1>8. ASSUME Fail PROVE Room(e)'
  <2>1. reply = NoReply /\ active \in Events /\ active' = NoEvent /\ place[active] = "queued"
        /\ UNCHANGED <<tries, replays, told>>
    BY <1>8 DEF Fail, Park, Return, PendingInv, PlaceInv, TypeOK
  <2>2. CASE e # active
    <3>1. Coming(e)' <= Coming(e)
      BY <1>0, <1>8, <2>1, <2>2 DEF Fail, Output, Coming, TypeOK, NoReply
    <3>2. place'[e] = place[e]
      BY <1>0, <1>8, <2>2 DEF Fail, Park, Return, TypeOK
    <3>3. Failures(e)' <= Failures(e)
      BY <1>c, <2>1, <3>1
    <3> QED
      BY <1>0, <1>n, <1>r, <2>1, <3>2, <3>3 DEF Room
  <2>3. CASE e = active
    <3>1. Coming(e)' <= Coming(e) + 1
      BY <1>0, <1>8, <2>1, <2>3 DEF Fail, Output, Coming, TypeOK, NoReply, Live
    <3>2. Failures(e)' <= Failures(e) + 1
      BY <1>c, <1>n, <2>1, <3>1
    <3>3. CASE tries[e] >= MaxAttempts
      <4>1. place'[e] = "parked"
        BY <1>0, <1>8, <2>3, <3>3 DEF Fail, Park, TypeOK
      <4> QED
        BY <1>n, <1>r, <2>1, <2>3, <3>2, <4>1 DEF Room
    <3>4. CASE ~(tries[e] >= MaxAttempts)
      <4>1. UNCHANGED place
        BY <1>8, <2>3, <3>4 DEF Fail, Return
      <4> QED
        BY <1>0, <1>n, <1>r, <2>1, <2>3, <3>2, <3>4, <4>1 DEF Room
    <3> QED
      BY <3>3, <3>4
  <2> QED
    BY <2>2, <2>3
<1>9. ASSUME Send PROVE Room(e)'
  <2>1. UNCHANGED <<place, tries, active, replays>>
    BY <1>9 DEF Send, mailboxVars, working
  <2>2. Failures(e)' = Failures(e)
    <3>1. CASE e = reply.of
      <4>1. reply.kind \in {"answer", "error"} /\ told'[e] = Append(told[e], reply.kind)
        BY <1>0, <1>9, <3>1 DEF Send, PendingInv, ShapeInv, NoReply
      <4>2. reply = [of |-> e, kind |-> "error"] <=> reply.kind = "error"
        BY <3>1 DEF ShapeInv
      <4>3. reply' # [of |-> e, kind |-> "error"] /\ UNCHANGED cache
        BY <1>9 DEF Send, NoReply
      <4>4. Coming(e) = Coming(e)' + (IF reply.kind = "error" THEN 1 ELSE 0) /\ Coming(e)' \in Nat
        BY <4>2, <4>3 DEF Coming
      <4>5. Cardinality(Errors(told'[e]))
              = Cardinality(Errors(told[e])) + (IF reply.kind = "error" THEN 1 ELSE 0)
        BY <1>c, <4>1, ErrorTold
      <4> QED
        BY <1>c, <4>4, <4>5
    <3>2. CASE e # reply.of
      <4>1. UNCHANGED cache /\ told'[e] = told[e]
        BY <1>9, <3>2 DEF Send, ShapeInv
      <4>2. reply # [of |-> e, kind |-> "error"] /\ reply' # [of |-> e, kind |-> "error"]
        BY <1>0, <1>9, <3>2 DEF Send, NoReply
      <4>3. Coming(e)' = Coming(e)
        BY <4>1, <4>2 DEF Coming
      <4> QED
        BY <1>c, <4>1, <4>3
    <3> QED
      BY <3>1, <3>2
  <2> QED
    BY <1>n, <1>less, <2>1, <2>2
<1>10. ASSUME SendFails PROVE Room(e)'
  <2>1. Coming(e)' <= Coming(e) /\ UNCHANGED <<place, tries, active, replays, told>>
    BY <1>0, <1>10 DEF SendFails, Coming, NoReply, mailboxVars, working
  <2> QED
    BY <1>c, <1>n, <1>less, <2>1
<1>11. ASSUME NEW p \in Prompts, Ask(p) PROVE Room(e)'
  <2>1. /\ p \in Events /\ place[p] = "nowhere" /\ p # active
        /\ UNCHANGED <<replays, reply, cache, told, active>>
        /\ place' = [place EXCEPT ![p] = "queued"] /\ tries' = [tries EXCEPT ![p] = 0]
    BY <1>0, <1>11 DEF Ask, Accept, PlaceInv, working
  <2> QED
    BY <2>1, <1>accept
<1>12. ASSUME Show PROVE Room(e)'
  <2>1. UNCHANGED <<place, tries, active, replays, reply>>
    BY <1>12 DEF Show, mailboxVars, working
  <2>2. Failures(e)' = Failures(e)
    <3>1. CASE e = asking
      <4>1. cache[e] \in {"answer", "error"} /\ told'[e] = Append(told[e], cache[e])
        BY <1>0, <1>12, <3>1 DEF Show, TypeOK, ShapeInv, Kinds
      <4>2. cache'[e] = "none"
        BY <1>0, <1>12, <3>1 DEF Show, TypeOK
      <4>3. Coming(e) = Coming(e)' + (IF cache[e] = "error" THEN 1 ELSE 0) /\ Coming(e)' \in Nat
        BY <2>1, <4>2 DEF Coming
      <4>4. Cardinality(Errors(told'[e]))
              = Cardinality(Errors(told[e])) + (IF cache[e] = "error" THEN 1 ELSE 0)
        BY <1>c, <4>1, ErrorTold
      <4> QED
        BY <1>c, <4>3, <4>4
    <3>2. CASE e # asking
      BY <1>0, <1>12, <2>1, <3>2 DEF Show, Failures, Coming, ShapeInv, TypeOK
    <3> QED
      BY <3>1, <3>2
  <2> QED
    BY <1>n, <1>less, <2>1, <2>2
<1>13. ASSUME GiveUp PROVE Room(e)'
  <2>1. Failures(e)' = Failures(e) /\ UNCHANGED <<place, tries, active, replays>>
    BY <1>13 DEF GiveUp, Failures, Coming, mailboxVars, working
  <2> QED
    BY <1>n, <1>less, <2>1
<1> QED
  BY <1>1, <1>2, <1>3, <1>4, <1>5, <1>6, <1>7, <1>8, <1>9, <1>10, <1>11, <1>12, <1>13, StepCases

-----------------------------------------------------------------------------
(* The inductive invariant holds.                                               *)
THEOREM Invariance == Spec => []IInv
<1>1. IInv /\ [Next]_vars => IInv'
  <2> SUFFICES ASSUME IInv, [Next]_vars PROVE IInv'
    OBVIOUS
  <2> USE DEF IInv
  <2>1. TypeOK' /\ ShapeInv'
    BY TypeStep, ShapeStep
  <2>2. PlaceInv' /\ TurnInv' /\ TriesInv' /\ PendingInv'
    BY PlaceStep, TurnStep, TriesStep, PendingStep
  <2>3. AccountInv' /\ LastInv' /\ PromptInv'
    BY AccountStep, LastStep, PromptStep
  <2>4. ErrorInv'
    BY <2>1, ErrorStep
  <2> QED
    BY <2>1, <2>2, <2>3, <2>4
<1> QED
  BY InitIInv, <1>1, PTL DEF Spec

(* Nothing of a process outlives it, and a turn belongs to the active event.    *)
THEOREM TypeCorrect == Spec => []TypeOK
<1>1. IInv => TypeOK
  BY DEF IInv
<1> QED
  BY Invariance, <1>1, PTL

(* An answer is at one place exactly when its question is answered.             *)
THEOREM AnswersAccounted == Spec => []Accounted
<1>1. IInv => Accounted
  <2> SUFFICES ASSUME IInv, NEW e \in Asks
               PROVE Cardinality({x \in {"sent", "cached", "told", "dropped"} :
                        \/ x = "sent" /\ AtSent(e)
                        \/ x = "cached" /\ AtCached(e)
                        \/ x = "told" /\ AtTold(e)
                        \/ x = "dropped" /\ AtDropped(e)})
                      = (IF place[e] = "finished" THEN 1 ELSE 0)
    BY DEF Accounted, AtSent, AtCached, AtTold, AtDropped
  <2> DEFINE Spots == {x \in {"sent", "cached", "told", "dropped"} :
                        \/ x = "sent" /\ AtSent(e)
                        \/ x = "cached" /\ AtCached(e)
                        \/ x = "told" /\ AtTold(e)
                        \/ x = "dropped" /\ AtDropped(e)}
  <2>1. CASE place[e] = "finished"
    <3>1. Spots \in {{"sent"}, {"cached"}, {"told"}, {"dropped"}}
      BY <2>1 DEF IInv, AccountInv, Account
    <3>2. \A x : Cardinality({x}) = 1
      BY FS_Singleton
    <3> QED
      BY <2>1, <3>1, <3>2
  <2>2. CASE place[e] # "finished"
    <3>1. Spots = {}
      BY <2>2 DEF IInv, AccountInv, Account
    <3> QED
      BY <2>2, <3>1, FS_EmptySet
  <2> QED
    BY <2>1, <2>2
<1> QED
  BY Invariance, <1>1, PTL

(* Deliveries, stored memories and told errors are bounded, and nothing comes   *)
(* after the answer.                                                            *)
THEOREM RepeatsBounded == Spec => []Repeats
<1>1. IInv => Repeats
  <2> SUFFICES ASSUME IInv PROVE Repeats
    OBVIOUS
  <2>1. turn.stored <= Turns
    BY DEF IInv, TurnInv
  <2>2. ASSUME NEW e \in Asks
        PROVE /\ tries[e] <= MaxAttempts + stops
              /\ Cardinality({i \in DOMAIN told[e] : told[e][i] = "error"})
                   <= MaxAttempts * (1 + replays[e])
              /\ \A i \in DOMAIN told[e] : told[e][i] = "answer" => i = Len(told[e])
    <3>1. e \in Events
      BY ServerAssumption
    <3>2. Cardinality(Errors(told[e])) \in Nat /\ Coming(e) \in Nat
      BY ErrorsFinite DEF IInv, ShapeInv, Coming
    <3>3. Cardinality(Errors(told[e])) + Coming(e) <= MaxAttempts * replays[e] + MaxAttempts
      BY DEF IInv, ErrorInv, Room, Failures
    <3>4. /\ MaxAttempts * replays[e] + MaxAttempts = MaxAttempts * (1 + replays[e])
          /\ MaxAttempts * replays[e] \in Nat /\ MaxAttempts \in Nat
      BY <3>1, ServerAssumption DEF IInv, ShapeInv
    <3>5. Cardinality(Errors(told[e])) <= MaxAttempts * (1 + replays[e])
      BY <3>2, <3>3, <3>4
    <3> QED
      BY <3>1, <3>5 DEF IInv, TriesInv, LastInv, Errors
  <2> QED
    BY <2>1, <2>2 DEF Repeats
<1> QED
  BY Invariance, <1>1, PTL

(* Results stay in the CLI's cache only for prompts that nobody waits for.      *)
THEOREM LeftoverSafe == Spec => []Leftover
<1>1. IInv => Leftover
  <2> SUFFICES ASSUME IInv, NEW e \in Prompts, cache[e] # "none", e # asking
               PROVE e \in forgotten \/ (told[e] # <<>> /\ ~Answered(e))
    BY DEF Leftover
  <2>1. e \in Asks /\ e \in Events
    BY ServerAssumption DEF Asks
  <2>2. cache[e] \in {"answer", "error"}
    BY <2>1 DEF IInv, TypeOK, Kinds
  <2>3. place[e] # "nowhere" /\ ~Answered(e)
    BY <2>1, <2>2 DEF IInv, PendingInv, AccountInv, Account, AtCached, AtTold
  <2> QED
    BY <2>3 DEF IInv, PromptInv
<1> QED
  BY Invariance, <1>1, PTL

-----------------------------------------------------------------------------
(* The dialogue.                                                                *)

(* What was lost never got to the queue, and does not come back.                *)
LostInv ==
  /\ inbox \cap lost = {}
  /\ \A e \in lost : place[e] = "nowhere"

(* What becomes of a question depends on these.                                 *)
Unmoved(e) ==
  /\ told'[e] = told[e]
  /\ (<<e, "answer">> \in unsent') <=> (<<e, "answer">> \in unsent)
  /\ place'[e] = place[e] \/ {place[e], place'[e]} \subseteq {"queued", "parked"}
  /\ e \in lost' <=> e \in lost

(* Most steps move no question on.                                              *)
LEMMA Movers ==
  ASSUME IInv, [Next]_vars
  PROVE \/ UNCHANGED lost /\ \A e \in Asks : Unmoved(e)
        \/ Stop
        \/ \E m \in Messages : Listen(m) \/ ListenFails(m)
        \/ \E empty \in BOOLEAN : Complete(empty) /\ active \in Asks
        \/ Send \/ SendFails
        \/ \E p \in Prompts : Ask(p)
        \/ Show
<1> DEFINE Quiet == UNCHANGED lost /\ \A e \in Asks : Unmoved(e)
<1>0. ASSUME NEW e \in Asks PROVE e \in Events /\ e \notin Firings /\ e # NoEvent
  BY ServerAssumption
<1> USE DEF mailboxVars, listening, working, replying
<1>1. ASSUME UNCHANGED <<mailboxVars, replying, lost>> PROVE Quiet
  BY <1>1 DEF Unmoved
<1>2. ASSUME NEW m \in {"server", "cli"}, Boot(m) PROVE Quiet
  BY <1>1, <1>2 DEF Boot
<1>3. ASSUME NEW e \in Messages, Arrive(e) PROVE Quiet
  BY <1>1, <1>3 DEF Arrive
<1>4. ASSUME PollingFails \/ Relisten \/ Spin PROVE Quiet
  BY <1>1, <1>4 DEF PollingFails, Relisten, Spin
<1>5. ASSUME NEW f \in Firings, FallDue(f) PROVE Quiet
  BY <1>1, <1>5 DEF FallDue
<1>6. ASSUME Returns \/ Ingests \/ AttemptFails \/ HandlerFails \/ CompleteFails PROVE Quiet
  BY <1>1, <1>6 DEF Returns, Ingests, AttemptFails, HandlerFails, CompleteFails
<1>7. ASSUME UNCHANGED vars PROVE Quiet
  BY <1>1, <1>7 DEF vars
<1>8. ASSUME NEW S \in SUBSET Firings, Emit(S), UNCHANGED <<lost, replying>> PROVE Quiet
  BY <1>0, <1>8 DEF Emit, Unmoved
<1>9. ASSUME Tick PROVE Quiet
  BY <1>8, <1>9 DEF Tick, IInv, TypeOK
<1>10. ASSUME NEW S \in SUBSET Firings, TickFails(S) PROVE Quiet
  BY <1>8, <1>10 DEF TickFails
<1>11. ASSUME NEW e \in Events, Take(e) PROVE Quiet
  BY <1>11 DEF Take, Deliver, Unmoved
<1>12. ASSUME Retry PROVE Quiet
  BY <1>0, <1>12 DEF Retry, Unmoved
<1>13. ASSUME Fail PROVE Quiet
  <2>1. place \in [Events -> Places] /\ place[active] = "queued"
    BY <1>13 DEF Fail, IInv, TypeOK, PlaceInv
  <2>2. UNCHANGED <<lost, told, unsent>>
    BY <1>13 DEF Fail, Output
  <2>3. ASSUME NEW e \in Asks
        PROVE place'[e] = place[e] \/ {place[e], place'[e]} \subseteq {"queued", "parked"}
    BY <1>0, <1>13, <2>1 DEF Fail, Park, Return
  <2> QED
    BY <2>2, <2>3 DEF Unmoved
<1>14. ASSUME NEW empty \in BOOLEAN, Complete(empty), active \notin Asks PROVE Quiet
  <2>1. UNCHANGED <<lost, told, unsent>>
    BY <1>14 DEF Complete, Output
  <2>2. ASSUME NEW e \in Asks PROVE place'[e] = place[e]
    BY <1>0, <1>14 DEF Complete, Acknowledge, IInv, TypeOK
  <2> QED
    BY <2>1, <2>2 DEF Unmoved
<1>15. ASSUME GiveUp PROVE Quiet
  BY <1>15 DEF GiveUp, Unmoved
<1> QED
  BY <1>2, <1>3, <1>4, <1>5, <1>6, <1>7, <1>9, <1>10, <1>11, <1>12, <1>13, <1>14, <1>15
  DEF Next, Gateway, Handle

LEMMA LostStep ==
  ASSUME IInv, LostInv, [Next]_vars
  PROVE LostInv'
<1> USE DEF mailboxVars, listening, working, replying
<1>0. /\ Messages \subseteq Asks /\ Prompts \subseteq Asks /\ Asks \subseteq Events
      /\ Messages \cap Prompts = {} /\ lost \subseteq Messages /\ inbox \subseteq Messages
      /\ place \in [Events -> Places]
  BY ServerAssumption DEF Asks, IInv, TypeOK, ShapeInv
<1>1. inbox' \cap lost' = {}
  <2>1. \/ UNCHANGED <<inbox, lost>>
        \/ Stop
        \/ \E e \in Messages : Arrive(e) \/ Listen(e) \/ ListenFails(e)
    <3>1. ASSUME NEW m \in {"server", "cli"}, Boot(m) PROVE UNCHANGED <<inbox, lost>>
      BY <3>1 DEF Boot
    <3>2. ASSUME PollingFails \/ Relisten \/ Spin PROVE UNCHANGED <<inbox, lost>>
      BY <3>2 DEF PollingFails, Relisten, Spin
    <3>3. ASSUME NEW f \in Firings, FallDue(f) PROVE UNCHANGED <<inbox, lost>>
      BY <3>3 DEF FallDue
    <3>4. ASSUME NEW S \in SUBSET Firings, Tick \/ TickFails(S) PROVE UNCHANGED <<inbox, lost>>
      BY <3>4 DEF Tick, TickFails
    <3>5. ASSUME NEW e \in Events, Take(e) PROVE UNCHANGED <<inbox, lost>>
      BY <3>5 DEF Take
    <3>6. ASSUME Returns \/ Ingests \/ AttemptFails \/ HandlerFails \/ CompleteFails \/ Retry \/ Fail
          PROVE UNCHANGED <<inbox, lost>>
      BY <3>6 DEF Returns, Ingests, AttemptFails, HandlerFails, CompleteFails, Retry, Fail
    <3>7. ASSUME NEW empty \in BOOLEAN, Complete(empty) PROVE UNCHANGED <<inbox, lost>>
      BY <3>7 DEF Complete
    <3>8. ASSUME NEW e \in Prompts, Send \/ SendFails \/ Ask(e) \/ Show \/ GiveUp
          PROVE UNCHANGED <<inbox, lost>>
      BY <3>8 DEF Send, SendFails, Ask, Show, GiveUp
    <3>9. ASSUME Send \/ SendFails \/ Show \/ GiveUp \/ Tick PROVE UNCHANGED <<inbox, lost>>
      BY <3>9 DEF Send, SendFails, Show, GiveUp, Tick
    <3>10. ASSUME UNCHANGED vars PROVE UNCHANGED <<inbox, lost>>
      BY <3>10 DEF vars
    <3> QED
      BY <3>1, <3>2, <3>3, <3>4, <3>5, <3>6, <3>7, <3>8, <3>9, <3>10 DEF Next, Gateway, Handle
  <2>2. ASSUME Stop PROVE inbox' \cap lost' = {}
    BY <2>2 DEF Stop
  <2>3. ASSUME NEW e \in Messages, Arrive(e) \/ Listen(e) \/ ListenFails(e)
        PROVE inbox' \cap lost' = {}
    BY <2>3 DEF Arrive, Listen, ListenFails, LostInv
  <2> QED
    BY <2>1, <2>2, <2>3 DEF LostInv
<1>2. ASSUME NEW e \in lost' PROVE place'[e] = "nowhere"
  <2>1. CASE UNCHANGED lost /\ \A q \in Asks : Unmoved(q)
    BY <1>0, <2>1 DEF Unmoved, LostInv
  <2>2. CASE Stop
    BY <2>2 DEF Stop, Return, LostInv, IInv, PlaceInv
  <2>3. ASSUME NEW m \in Messages, Listen(m) PROVE place'[e] = "nowhere"
    BY <1>0, <2>3 DEF Listen, Accept, LostInv
  <2>4. ASSUME NEW m \in Messages, ListenFails(m) PROVE place'[e] = "nowhere"
    BY <2>4 DEF ListenFails, LostInv, IInv, PlaceInv
  <2>5. ASSUME NEW empty \in BOOLEAN, Complete(empty) PROVE place'[e] = "nowhere"
    BY <1>0, <2>5 DEF Complete, Acknowledge, LostInv, IInv, PlaceInv
  <2>6. CASE Send \/ SendFails \/ Show
    BY <2>6 DEF Send, SendFails, Show, LostInv
  <2>7. ASSUME NEW p \in Prompts, Ask(p) PROVE place'[e] = "nowhere"
    BY <1>0, <2>7 DEF Ask, Accept, LostInv
  <2> QED
    BY <2>1, <2>2, <2>3, <2>4, <2>5, <2>6, <2>7, Movers
<1> QED
  BY <1>1, <1>2 DEF LostInv

(* A question stays where it is unless one of these changes.                    *)
LEMMA Stays ==
  ASSUME NEW e \in Asks, Unmoved(e)
  PROVE stage'[e] = stage[e] /\ errors'[e] = errors[e]
BY DEF Unmoved, stage, errors, Answered

(* One question moves on, and the others stay.                                  *)
LEMMA Moving ==
  ASSUME NEW m \in Asks, NEW from, NEW to, \A e \in Asks \ {m} : Unmoved(e),
         stage[m] = from, stage'[m] = to, errors'[m] = errors[m]
  PROVE Talk!Moves(m, from, to)
<1>1. stage' = [stage EXCEPT ![m] = to]
  <2>1. \A e \in Asks : stage'[e] = IF e = m THEN to ELSE stage[e]
    BY Stays
  <2> QED
    BY <2>1 DEF stage
<1>2. errors' = errors
  <2>1. \A e \in Asks : errors'[e] = errors[e]
    BY Stays
  <2> QED
    BY <2>1 DEF errors
<1> QED
  BY <1>1, <1>2 DEF Talk!Moves

(* Something is told: an answer that was there, or an error while there is none. *)
LEMMA Telling ==
  ASSUME IInv, NEW m \in Asks, NEW k \in {"answer", "error"},
         told' = [told EXCEPT ![m] = Append(@, k)], UNCHANGED <<place, unsent, lost>>,
         k = "answer" => place[m] = "finished" /\ ~AtTold(m) /\ ~AtDropped(m),
         k = "error" => place[m] \in {"queued", "parked"}
  PROVE Talk!DialogueNext
<1>1. told[m] \in Seq({"answer", "error"}) /\ told'[m] = Append(told[m], k)
  BY DEF IInv, ShapeInv
<1>2. \A e \in Asks \ {m} : Unmoved(e)
  BY DEF Unmoved, IInv, ShapeInv
<1>3. errors[m] = Cardinality(Errors(told[m])) /\ errors'[m] = Cardinality(Errors(told'[m]))
  BY DEF errors, Errors
<1>4. errors'[m] = errors[m] + (IF k = "error" THEN 1 ELSE 0) /\ errors[m] \in Nat
  BY <1>1, <1>3, ErrorTold, ErrorsFinite
<1>5. Answered(m)' <=> Answered(m) \/ k = "answer"
  BY <1>1, Appending DEF Answered
<1>6. CASE k = "answer"
  <2>1. stage[m] = "answered" /\ stage'[m] = "told"
    BY <1>5, <1>6 DEF stage, AtTold, AtDropped
  <2>2. Talk!Moves(m, "answered", "told")
    BY <1>2, <1>4, <1>6, <2>1, Moving
  <2> QED
    BY <2>2 DEF Talk!DialogueNext, Talk!Tell
<1>7. CASE k = "error"
  <2>1. stage[m] = "open" /\ stage'[m] = "open"
    BY <1>5, <1>7 DEF stage, IInv, AccountInv, Account, AtTold, AtDropped
  <2>2. stage' = stage
    BY <1>2, <2>1, Stays DEF stage
  <2>3. errors' = [errors EXCEPT ![m] = @ + 1]
    BY <1>2, <1>4, <1>7, Stays DEF errors
  <2> QED
    BY <2>1, <2>2, <2>3 DEF Talk!DialogueNext, Talk!Excuse
<1> QED
  BY <1>6, <1>7

LEMMA StepRefines ==
  ASSUME IInv, IInv', LostInv, LostInv', [Next]_vars
  PROVE [Talk!DialogueNext]_(Talk!dialogueVars)
<1> USE DEF mailboxVars, listening, working, replying, AtSent, AtCached, AtTold, AtDropped
<1>0. /\ Messages \subseteq Asks /\ Prompts \subseteq Asks /\ Asks \subseteq Events
      /\ Messages \cap Prompts = {} /\ lost \subseteq Messages /\ inbox \subseteq Messages
      /\ place \in [Events -> Places]
      /\ \A e \in Asks : Account(e) /\ e # NoEvent
  BY ServerAssumption DEF Asks, IInv, TypeOK, ShapeInv, AccountInv
<1>new. ASSUME NEW m \in Asks, place[m] = "nowhere", m \notin lost PROVE stage[m] = "new"
  BY <1>0, <1>new DEF stage, Account
<1>open. ASSUME NEW m \in Asks, stage[m] = "new", place[m] = "nowhere", m \notin lost,
                place' = [place EXCEPT ![m] = "queued"], UNCHANGED <<told, unsent, lost>>
         PROVE Talk!DialogueNext
  <2>1. \A e \in Asks \ {m} : Unmoved(e)
    BY <1>open DEF Unmoved
  <2>2. stage'[m] = "open" /\ errors'[m] = errors[m]
    <3>1. place'[m] = "queued" /\ ~Answered(m) /\ <<m, "answer">> \notin unsent
      BY <1>0, <1>open DEF Account
    <3> QED
      BY <1>open, <3>1 DEF stage, errors, Answered
  <2>3. Talk!Moves(m, "new", "open")
    BY <1>open, <2>1, <2>2, Moving
  <2> QED
    BY <2>3 DEF Talk!DialogueNext, Talk!Open
<1>1. CASE UNCHANGED lost /\ \A e \in Asks : Unmoved(e)
  <2>1. UNCHANGED <<stage, errors>>
    BY <1>1, Stays DEF stage, errors
  <2> QED
    BY <2>1 DEF Talk!dialogueVars
<1>2. CASE Stop
  <2> DEFINE untold == {e \in Asks : stage[e] = "answered"}
  <2>1. /\ UNCHANGED <<place, told>> /\ lost' = lost \cup inbox
        /\ \A e \in Asks : AtDropped(e)' <=> AtSent(e) \/ AtCached(e) \/ AtDropped(e)
    BY <1>0, <1>2 DEF Stop, Return
  <2>2. \A e \in inbox : stage[e] = "new"
    BY <1>0, <1>new DEF LostInv, IInv, PlaceInv
  <2>3. ASSUME NEW e \in Asks
        PROVE stage'[e] = IF e \in inbox THEN "missed"
                          ELSE IF e \in untold THEN "dropped" ELSE stage[e]
    <3>1. Answered(e)' <=> Answered(e)
      BY <2>1 DEF Answered
    <3>2. e \in inbox => place[e] = "nowhere"
      BY DEF IInv, PlaceInv
    <3> QED
      BY <1>0, <2>1, <3>1, <3>2 DEF stage, Account
  <2>4. errors' = errors
    BY <2>1 DEF errors
  <2>5. stage' = [e \in Asks |-> IF e \in inbox THEN "missed"
                                 ELSE IF e \in untold THEN "dropped" ELSE stage[e]]
    BY <2>3 DEF stage
  <2>6. inbox \in SUBSET Asks /\ untold \in SUBSET Asks /\ \A e \in untold : stage[e] = "answered"
    BY <1>0
  <2> HIDE DEF untold
  <2>7. Talk!GiveUp(inbox, untold)
    BY <2>2, <2>4, <2>5, <2>6 DEF Talk!GiveUp
  <2> QED
    BY <2>6, <2>7 DEF Talk!DialogueNext
<1>3. ASSUME NEW m \in Messages, Listen(m) PROVE Talk!DialogueNext
  <2>1. place[m] = "nowhere" /\ m \notin lost
    BY <1>3 DEF Listen, LostInv, IInv, PlaceInv
  <2>2. place' = [place EXCEPT ![m] = "queued"] /\ UNCHANGED <<told, unsent, lost>>
    BY <1>3 DEF Listen, Accept
  <2> QED
    BY <1>0, <1>new, <1>open, <2>1, <2>2
<1>4. ASSUME NEW m \in Messages, ListenFails(m) PROVE Talk!DialogueNext
  <2>1. place[m] = "nowhere" /\ m \notin lost /\ m \in Asks
    BY <1>0, <1>4 DEF ListenFails, LostInv, IInv, PlaceInv
  <2>2. stage[m] = "new"
    BY <1>new, <2>1
  <2>3. UNCHANGED <<place, told, unsent>> /\ lost' = lost \cup {m}
    BY <1>4 DEF ListenFails
  <2>4. ASSUME NEW e \in Asks PROVE stage'[e] = IF e \in {m} THEN "missed" ELSE stage[e]
    BY <1>0, <2>1, <2>3 DEF stage, Account, Answered
  <2>5. stage' = [e \in Asks |-> IF e \in {m} THEN "missed" ELSE IF e \in {} THEN "dropped" ELSE stage[e]]
    BY <2>4 DEF stage
  <2>6. errors' = errors
    BY <2>3 DEF errors
  <2>7. Talk!GiveUp({m}, {})
    BY <2>2, <2>5, <2>6 DEF Talk!GiveUp
  <2> QED
    BY <2>1, <2>7 DEF Talk!DialogueNext
<1>5. ASSUME NEW empty \in BOOLEAN, Complete(empty), active \in Asks PROVE Talk!DialogueNext
  <2>1. place[active] = "queued" /\ active \in Events
    BY <1>0, <1>5 DEF Complete, IInv, PlaceInv
  <2>2. place' = [place EXCEPT ![active] = "finished"] /\ UNCHANGED <<told, lost>>
    BY <1>5 DEF Complete, Acknowledge
  <2>3. unsent' = unsent \/ unsent' = unsent \cup {<<active, "answer">>}
    BY <1>5 DEF Complete, Output
  <2>4. \A e \in Asks \ {active} : Unmoved(e)
    BY <2>2, <2>3 DEF Unmoved
  <2>5. stage[active] = "open" /\ errors'[active] = errors[active]
    BY <1>0, <1>5, <2>1, <2>2 DEF stage, errors, Account
  <2>6. stage'[active] \in {"answered", "dropped"}
    <3> PICK m \in Asks : m = active
      BY <1>5
    <3>1. place'[m] = "finished" /\ ~Answered(m)'
      BY <1>0, <1>5, <2>1, <2>2 DEF Account, Answered
    <3>2. stage'[m] \in {"answered", "dropped"}
      BY <3>1 DEF stage
    <3> QED
      BY <3>2
  <2>7. Talk!Moves(active, "open", "answered") \/ Talk!Moves(active, "open", "dropped")
    BY <1>5, <2>4, <2>5, <2>6, Moving
  <2> QED
    BY <1>5, <2>7 DEF Talk!DialogueNext, Talk!Answer
<1>6. CASE Send
  <2>1. reply.of \in Asks /\ reply.kind \in {"answer", "error"} /\ reply = [of |-> reply.of, kind |-> reply.kind]
    BY <1>0, <1>6 DEF Send, IInv, PendingInv, ShapeInv, NoReply
  <2>2. told' = [told EXCEPT ![reply.of] = Append(@, reply.kind)] /\ UNCHANGED <<place, unsent, lost>>
    BY <1>6 DEF Send
  <2>3. reply.kind = "answer" => place[reply.of] = "finished" /\ ~AtTold(reply.of) /\ ~AtDropped(reply.of)
    BY <1>0, <2>1 DEF Account
  <2>4. reply.kind = "error" => place[reply.of] \in {"queued", "parked"}
    BY DEF IInv, PendingInv
  <2> QED
    BY <2>1, <2>2, <2>3, <2>4, Telling
<1>7. CASE SendFails
  <2>1. reply.of \in Asks /\ reply.kind \in {"answer", "error"} /\ reply = [of |-> reply.of, kind |-> reply.kind]
    BY <1>0, <1>7 DEF SendFails, IInv, TypeOK, PendingInv, ShapeInv, NoReply
  <2>2. unsent' = unsent \cup {<<reply.of, reply.kind>>} /\ UNCHANGED <<place, told, lost>>
    BY <1>7 DEF SendFails
  <2>3. CASE reply.kind = "error"
    <3>1. \A e \in Asks : Unmoved(e)
      BY <2>2, <2>3 DEF Unmoved
    <3>2. UNCHANGED <<stage, errors>>
      BY <3>1, Stays DEF stage, errors
    <3> QED
      BY <3>2 DEF Talk!dialogueVars
  <2>4. CASE reply.kind = "answer"
    <3> DEFINE m == reply.of
    <3>1. stage[m] = "answered"
      BY <1>0, <2>1, <2>4 DEF stage, Account
    <3>2. stage'[m] = "dropped"
      BY <1>0, <2>1, <2>2, <2>4 DEF stage, Account, Answered
    <3>3. \A e \in Asks \ {m} : Unmoved(e)
      BY <2>1, <2>2 DEF Unmoved
    <3>4. stage' = [e \in Asks |-> IF e \in {} THEN "missed" ELSE IF e \in {m} THEN "dropped" ELSE stage[e]]
      <4>1. \A e \in Asks : stage'[e] = IF e \in {m} THEN "dropped" ELSE stage[e]
        BY <3>2, <3>3, Stays
      <4> QED
        BY <4>1 DEF stage
    <3>5. errors' = errors
      BY <2>2 DEF errors
    <3>6. Talk!GiveUp({}, {m})
      BY <3>1, <3>4, <3>5 DEF Talk!GiveUp
    <3> QED
      BY <2>1, <3>6 DEF Talk!DialogueNext
  <2> QED
    BY <2>1, <2>3, <2>4
<1>8. ASSUME NEW p \in Prompts, Ask(p) PROVE Talk!DialogueNext
  <2>1. place[p] = "nowhere" /\ p \notin lost /\ p \in Asks
    BY <1>0, <1>8 DEF Ask
  <2>2. place' = [place EXCEPT ![p] = "queued"] /\ UNCHANGED <<told, unsent, lost>>
    BY <1>8 DEF Ask, Accept
  <2> QED
    BY <1>new, <1>open, <2>1, <2>2
<1>9. CASE Show
  <2>1. asking \in Asks /\ cache[asking] \in {"answer", "error"}
    BY <1>0, <1>9 DEF Show, IInv, TypeOK, Kinds
  <2>2. told' = [told EXCEPT ![asking] = Append(@, cache[asking])] /\ UNCHANGED <<place, unsent, lost>>
    BY <1>9 DEF Show
  <2>3. cache[asking] = "answer" => place[asking] = "finished" /\ ~AtTold(asking) /\ ~AtDropped(asking)
    BY <1>0, <2>1 DEF Account
  <2>4. cache[asking] = "error" => place[asking] \in {"queued", "parked"}
    BY <2>1 DEF IInv, PendingInv
  <2> QED
    BY <2>1, <2>2, <2>3, <2>4, Telling
<1> QED
  BY <1>1, <1>2, <1>3, <1>4, <1>5, <1>6, <1>7, <1>8, <1>9, Movers

LEMMA InitRefines == Init => LostInv /\ Talk!DialogueInit
<1> SUFFICES ASSUME Init PROVE LostInv /\ Talk!DialogueInit
  OBVIOUS
<1>1. ASSUME NEW e \in Asks PROVE stage[e] = "new"
  BY <1>1, ServerAssumption DEF Init, MailboxInit, stage, Answered
<1>2. ASSUME NEW e \in Asks PROVE errors[e] = 0
  <2>1. {i \in DOMAIN told[e] : told[e][i] = "error"} = {}
    BY DEF Init
  <2> QED
    BY <2>1, FS_EmptySet DEF errors
<1>3. stage = [e \in Asks |-> "new"] /\ errors = [e \in Asks |-> 0]
  BY <1>1, <1>2 DEF stage, errors
<1> QED
  BY <1>3 DEF Init, LostInv, Talk!DialogueInit

(* The process, its ends and restarts included, is a partner in a dialogue:     *)
(* whatever is lost or repeated on the way, a question is answered once at      *)
(* most, and the answer is the last word.                                       *)
THEOREM Refinement == Spec => ImplementsDialogue
<1>1. Init => LostInv /\ Talk!DialogueInit
  BY InitRefines
<1>2. IInv /\ LostInv /\ [Next]_vars => LostInv'
  BY LostStep
<1>3. IInv /\ IInv' /\ LostInv /\ LostInv' /\ [Next]_vars
        => [Talk!DialogueNext]_(Talk!dialogueVars)
  BY StepRefines
<1> QED
  BY <1>1, <1>2, <1>3, Invariance, PTL DEF Spec, ImplementsDialogue, Talk!DialogueSpec
=============================================================================

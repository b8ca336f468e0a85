-------------------------------- MODULE Server --------------------------------
(* The process around the event queue: a platform's adapter and the gateway's   *)
(* listener (zoomac/gateway), the scheduler, the loop that handles one event    *)
(* after the other with the conversation runner (zoomac/core), and what becomes *)
(* of the reply, in the server mode and in the CLI.  The queue is the mailbox   *)
(* that EventQueue implements.                                                  *)
(*                                                                              *)
(* All but the mailbox is in the memory of the process.                         *)
EXTENDS Mailbox, Sequences, FiniteSets

CONSTANTS Messages,   (* what users send over the platform                      *)
          Prompts,    (* what the user types in the CLI                         *)
          Firings,    (* one for each time a job falls due                      *)
          Retries,    (* those of the job retry_dead_letters                    *)
          Turns,      (* max_retries + 1, of the runner                         *)
          MaxStops    (* bound: ends of the process                             *)

Asks == Messages \cup Prompts

ASSUME ServerAssumption ==
  /\ Events = Asks \cup Firings /\ NoEvent \notin Events
  /\ Messages \cap Prompts = {} /\ Asks \cap Firings = {}
  /\ Retries \subseteq Firings
  /\ {MaxAttempts, Turns} \subseteq Nat \ {0} /\ MaxStops \in Nat

VARIABLES
  mode,       (* "down", "server" or "cli"                                      *)
  connected,  (* the adapter's _connected                                       *)
  inbox,      (* its _message_queue                                             *)
  listener,   (* the gateway's task for it                                      *)
  scheduler,  (* the scheduler's task                                           *)
  due,        (* firings whose time has come                                    *)
  turn,       (* how far the handling of the active event is: whether the model *)
              (* is called, in which attempt, or a result or an error is there, *)
              (* and how often its memory was stored                            *)
  reply,      (* server: what is being sent                                     *)
  cache,      (* CLI: _last_results                                             *)
  asking,     (* CLI: the prompt that is waited for                             *)
  told,       (* history: what the user got for each                            *)
  unsent,     (* history: <<e, kind>>: such a reply was dropped                 *)
  forgotten,  (* history: prompts that are not waited for any more              *)
  lost,       (* history: messages that never got to the queue                  *)
  replays,    (* history: how often it came back from the dead letters          *)
  stops       (* history: how often the process ended                           *)

listening == <<connected, inbox, listener, lost>>
timing == <<scheduler, due>>
working == <<turn, replays>>
replying == <<reply, cache, asking, told, unsent, forgotten>>
vars == <<mailboxVars, mode, listening, timing, working, replying, stops>>

NoReply == [of |-> NoEvent, kind |-> "none"]
Kinds == {"none", "answer", "error"}
Idle == [attempt |-> 0, stage |-> "idle", stored |-> 0]

(* A listener that never waits stops the event loop.                            *)
Frozen == listener = "spinning"
Live == mode # "down" /\ ~Frozen

Init ==
  /\ MailboxInit
  /\ mode = "down"
  /\ connected = FALSE /\ inbox = {} /\ listener = "none" /\ lost = {}
  /\ scheduler = "off" /\ due = {}
  /\ turn = Idle
  /\ replays = [e \in Events |-> 0]
  /\ reply = NoReply /\ cache = [e \in Events |-> "none"] /\ asking = NoEvent
  /\ told = [e \in Asks |-> <<>>] /\ unsent = {} /\ forgotten = {}
  /\ stops = 0

-----------------------------------------------------------------------------
(* The process starts: run_server() or run_cli().  The adapter's connect() may  *)
(* raise, and there is no listener then.  recover_stale() finds the event that  *)
(* was in hand.                                                                 *)
Boot(m) ==
  /\ mode = "down"
  /\ mode' = m
  /\ \/ m = "server" /\ connected' = TRUE /\ listener' = "listening"
     \/ UNCHANGED <<connected, listener>>
  /\ scheduler' = "running"
  /\ UNCHANGED <<mailboxVars, inbox, lost, due, working, replying, stops>>

(* Fault: answers in the adapter's memory are taken for stored.                 *)
StopKeepsReply ==
  /\ mode # "down" /\ stops < MaxStops /\ stops' = stops + 1
  /\ mode' = "down"
  /\ IF active = NoEvent THEN UNCHANGED mailboxVars ELSE Return(active)
  /\ connected' = FALSE /\ inbox' = {} /\ listener' = "none" /\ lost' = lost \cup inbox
  /\ scheduler' = "off" /\ due' = {}
  /\ turn' = Idle /\ cache' = [e \in Events |-> "none"] /\ asking' = NoEvent
  /\ unsent' = unsent \cup {<<e, cache[e]>> : e \in {f \in Asks : cache[f] # "none"}}
  /\ forgotten' = forgotten \cup ({asking} \ {NoEvent})
  /\ UNCHANGED <<told, replays, reply>>

(* It ends, wherever it is: it is killed, its user quits, or an exception gets  *)
(* out of the loop.                                                             *)
Stop ==
  /\ mode # "down" /\ stops < MaxStops /\ stops' = stops + 1
  /\ mode' = "down"
  /\ IF active = NoEvent THEN UNCHANGED mailboxVars ELSE Return(active)
  /\ connected' = FALSE /\ inbox' = {} /\ listener' = "none" /\ lost' = lost \cup inbox
  /\ scheduler' = "off" /\ due' = {}
  /\ turn' = Idle
  /\ reply' = NoReply /\ cache' = [e \in Events |-> "none"] /\ asking' = NoEvent
  /\ unsent' = unsent \cup {r \in Asks \X {"answer", "error"} :
                             cache[r[1]] = r[2] \/ reply = [of |-> r[1], kind |-> r[2]]}
  /\ forgotten' = forgotten \cup ({asking} \ {NoEvent})
  /\ UNCHANGED <<told, replays>>

-----------------------------------------------------------------------------
(* The adapter and its listener.                                                *)

Arrive(e) ==
  /\ Live /\ connected
  /\ place[e] = "nowhere" /\ e \notin inbox \cup lost
  /\ inbox' = inbox \cup {e}
  /\ UNCHANGED <<mailboxVars, mode, connected, listener, lost, timing, working, replying, stops>>

(* start_polling() raises.                                                      *)
PollingFails ==
  /\ Live /\ connected
  /\ connected' = FALSE
  /\ UNCHANGED <<mailboxVars, mode, inbox, listener, lost, timing, working, replying, stops>>

(* listen() yields a message, also one it was given after the connection was    *)
(* lost, and _listen_loop pushes it.                                            *)
Listen(e) ==
  /\ Live /\ listener = "listening"
  /\ e \in inbox /\ inbox' = inbox \ {e}
  /\ Accept(e)
  /\ UNCHANGED <<mode, connected, listener, lost, timing, working, replying, stops>>

(* The push raises: the message is gone, and the listener waits.                *)
ListenFails(e) ==
  /\ Live /\ listener = "listening"
  /\ e \in inbox /\ inbox' = inbox \ {e}
  /\ lost' = lost \cup {e}
  /\ listener' = "backoff"
  /\ UNCHANGED <<mailboxVars, mode, connected, timing, working, replying, stops>>

(* It listens again, after at most 60 seconds.                                  *)
Relisten ==
  /\ Live /\ listener = "backoff"
  /\ listener' = "listening"
  /\ UNCHANGED <<mailboxVars, mode, connected, inbox, lost, timing, working, replying, stops>>

(* Without a connection listen() returns at once, and is called again at once.  *)
Spin ==
  /\ Live /\ listener = "listening" /\ ~connected
  /\ listener' = "spinning"
  /\ UNCHANGED <<mailboxVars, mode, connected, inbox, lost, timing, working, replying, stops>>

-----------------------------------------------------------------------------
(* The scheduler.                                                               *)

FallDue(f) ==
  /\ mode # "down"
  /\ place[f] = "nowhere" /\ f \notin due
  /\ due' = due \cup {f}
  /\ UNCHANGED <<mailboxVars, mode, listening, scheduler, working, replying, stops>>

Emit(S) ==
  /\ place' = [e \in Events |-> IF e \in S THEN "queued" ELSE place[e]]
  /\ tries' = [e \in Events |-> IF e \in S THEN 0 ELSE tries[e]]
  /\ due' = due \ S

(* Fault: a job that is late is put off to its next time.                       *)
TickPutsOff ==
  /\ Live /\ scheduler = "running" /\ due # {}
  /\ due' = {}
  /\ UNCHANGED <<mailboxVars, mode, listening, scheduler, working, replying, stops>>

(* tick(), every second.                                                        *)
Tick ==
  /\ Live /\ scheduler = "running" /\ due # {}
  /\ Emit(due)
  /\ UNCHANGED <<active, mode, listening, scheduler, working, replying, stops>>

(* A push raises, out of _run_loop, which is over: the jobs before it in the    *)
(* table were pushed.                                                           *)
TickFails(S) ==
  /\ Live /\ scheduler = "running"
  /\ S \subseteq due /\ S # due
  /\ Emit(S)
  /\ scheduler' = "failed"
  /\ UNCHANGED <<active, mode, listening, working, replying, stops>>

-----------------------------------------------------------------------------
(* The loop: process_queue() and run_server(), or _process_background().        *)

Rank(e) == IF e \in Messages THEN 10 ELSE IF e \in Prompts THEN 20 ELSE 30

(* Fault: the next event is taken while a reply is being sent.                  *)
TakeEarly(e) ==
  /\ Live
  /\ \A f \in Events : place[f] = "queued" => Rank(e) <= Rank(f)
  /\ Deliver(e)
  /\ turn' = [attempt |-> 1, stage |-> "calling", stored |-> 0]
  /\ UNCHANGED <<mode, listening, timing, replays, replying, stops>>

(* The server sends a reply before it takes the next event.                     *)
Take(e) ==
  /\ Live /\ reply = NoReply
  /\ \A f \in Events : place[f] = "queued" => Rank(e) <= Rank(f)
  /\ Deliver(e)
  /\ turn' = [attempt |-> 1, stage |-> "calling", stored |-> 0]
  /\ UNCHANGED <<mode, listening, timing, replays, replying, stops>>

Stage(from, to) ==
  /\ Live /\ turn.stage = from
  /\ turn' = [attempt |-> 0, stage |-> to, stored |-> turn.stored]

(* run_message() has an answer; or a command, a goal, a job needed no model.    *)
Returns ==
  /\ active \notin Retries /\ Stage("calling", "returned")
  /\ UNCHANGED <<mailboxVars, mode, listening, timing, replays, replying, stops>>

(* The answer comes with a memory, which is stored first.                       *)
Ingests ==
  /\ Live /\ active \in Asks /\ turn.stage = "calling"
  /\ turn' = [attempt |-> 0, stage |-> "returned", stored |-> turn.stored + 1]
  /\ UNCHANGED <<mailboxVars, mode, listening, timing, replays, replying, stops>>

Again(stored) ==
  IF turn.attempt < Turns
  THEN [attempt |-> turn.attempt + 1, stage |-> "calling", stored |-> stored]
  ELSE [attempt |-> 0, stage |-> "raised", stored |-> stored]

(* The model's call raises, or ingest_structured() does after it stored the     *)
(* memory: the runner tries again.                                              *)
AttemptFails ==
  /\ Live /\ active \in Asks /\ turn.stage = "calling"
  /\ turn' \in {Again(turn.stored), Again(turn.stored + 1)}
  /\ UNCHANGED <<mailboxVars, mode, listening, timing, replays, replying, stops>>

(* Outside the runner: nothing tries again.                                     *)
HandlerFails ==
  /\ turn.attempt = 1 /\ Stage("calling", "raised")
  /\ UNCHANGED <<mailboxVars, mode, listening, timing, replays, replying, stops>>

(* replay_all_dead_letters().                                                   *)
Retry ==
  LET parked == {e \in Events : place[e] = "parked"} IN
  /\ active \in Retries /\ Stage("calling", "returned")
  /\ place' = [e \in Events |-> IF e \in parked THEN "queued" ELSE place[e]]
  /\ tries' = [e \in Events |-> IF e \in parked THEN 0 ELSE tries[e]]
  /\ replays' = [e \in Events |-> IF e \in parked THEN replays[e] + 1 ELSE replays[e]]
  /\ UNCHANGED <<active, mode, listening, timing, replying, stops>>

(* What came out is sent by the server, unless it is empty or nobody asked, and *)
(* kept by the CLI in any case.                                                 *)
Output(kind, empty) ==
  IF mode = "cli" THEN /\ cache' = [cache EXCEPT ![active] = kind]
                       /\ UNCHANGED <<reply, unsent>>
  ELSE /\ reply' = IF active \in Asks /\ ~empty THEN [of |-> active, kind |-> kind] ELSE NoReply
       /\ unsent' = IF active \in Asks /\ empty THEN unsent \cup {<<active, kind>>} ELSE unsent
       /\ UNCHANGED cache

(* complete(), and then the result.                                             *)
Complete(empty) ==
  /\ active # NoEvent
  /\ Live /\ turn.stage = "returned" /\ turn' = Idle
  /\ Acknowledge(active)
  /\ Output("answer", empty)
  /\ UNCHANGED <<mode, listening, timing, replays, asking, told, forgotten, stops>>

(* complete() raises, and so the event fails.                                   *)
CompleteFails ==
  /\ Stage("returned", "raised")
  /\ UNCHANGED <<mailboxVars, mode, listening, timing, replays, replying, stops>>

(* Fault: one delivery more than MAX_ATTEMPTS.                                  *)
FailOffByOne ==
  /\ active # NoEvent
  /\ Live /\ turn.stage = "raised" /\ turn' = Idle
  /\ IF tries[active] > MaxAttempts THEN Park(active) ELSE Return(active)
  /\ Output("error", FALSE)
  /\ UNCHANGED <<mode, listening, timing, replays, asking, told, forgotten, stops>>

(* Fault: no error is told.                                                     *)
FailSilently ==
  /\ active # NoEvent
  /\ Live /\ turn.stage = "raised" /\ turn' = Idle
  /\ IF tries[active] >= MaxAttempts THEN Park(active) ELSE Return(active)
  /\ UNCHANGED <<mode, listening, timing, replays, replying, stops>>

(* fail(), and then the error, of each delivery.                                *)
Fail ==
  /\ active # NoEvent
  /\ Live /\ turn.stage = "raised" /\ turn' = Idle
  /\ IF tries[active] >= MaxAttempts THEN Park(active) ELSE Return(active)
  /\ Output("error", FALSE)
  /\ UNCHANGED <<mode, listening, timing, replays, asking, told, forgotten, stops>>

-----------------------------------------------------------------------------
(* Replies.                                                                     *)

(* The adapter is found by the event's source.                                  *)
Send ==
  /\ Live /\ reply.of \in Messages
  /\ told' = [told EXCEPT ![reply.of] = Append(@, reply.kind)]
  /\ reply' = NoReply
  /\ UNCHANGED <<mailboxVars, mode, listening, timing, working, cache, asking, unsent, forgotten, stops>>

(* Fault: a reply that could not be sent is tried again.                        *)
SendFailsKeeps ==
  /\ Live /\ reply # NoReply
  /\ unsent' = unsent \cup {<<reply.of, reply.kind>>}
  /\ UNCHANGED <<mailboxVars, mode, listening, timing, working, reply, cache, asking, told, forgotten, stops>>

(* It fails, or there is no adapter: a prompt that an earlier process left.     *)
SendFails ==
  /\ Live /\ reply # NoReply
  /\ reply' = NoReply
  /\ unsent' = unsent \cup {<<reply.of, reply.kind>>}
  /\ UNCHANGED <<mailboxVars, mode, listening, timing, working, cache, asking, told, forgotten, stops>>

Ask(e) ==
  /\ Live /\ mode = "cli" /\ asking = NoEvent
  /\ place[e] = "nowhere"
  /\ Accept(e)
  /\ asking' = e
  /\ UNCHANGED <<mode, listening, timing, working, reply, cache, told, unsent, forgotten, stops>>

(* Fault: the result is read, and stays where it is.                            *)
ShowKeeps ==
  /\ Live /\ asking # NoEvent /\ cache[asking] # "none"
  /\ told' = [told EXCEPT ![asking] = Append(@, cache[asking])]
  /\ asking' = NoEvent
  /\ UNCHANGED <<mailboxVars, mode, listening, timing, working, reply, cache, unsent, forgotten, stops>>

(* _wait_for_response() finds the result, of whatever attempt.                  *)
Show ==
  /\ Live /\ asking # NoEvent /\ cache[asking] # "none"
  /\ told' = [told EXCEPT ![asking] = Append(@, cache[asking])]
  /\ cache' = [cache EXCEPT ![asking] = "none"]
  /\ asking' = NoEvent
  /\ UNCHANGED <<mailboxVars, mode, listening, timing, working, reply, unsent, forgotten, stops>>

(* After 120 seconds it looks no more, whether or not the result is there now.  *)
GiveUp ==
  /\ Live /\ asking # NoEvent
  /\ forgotten' = forgotten \cup {asking}
  /\ asking' = NoEvent
  /\ UNCHANGED <<mailboxVars, mode, listening, timing, working, reply, cache, told, unsent, stops>>

-----------------------------------------------------------------------------
Handle ==
  \/ \E e \in Events : Take(e)
  \/ Returns \/ Ingests \/ AttemptFails \/ HandlerFails \/ Retry
  \/ (\E empty \in BOOLEAN : Complete(empty)) \/ CompleteFails \/ Fail
  \/ Send \/ SendFails

Gateway == (\E e \in Messages : Listen(e) \/ ListenFails(e)) \/ Relisten \/ Spin

Next ==
  \/ \E m \in {"server", "cli"} : Boot(m)
  \/ Stop
  \/ \E e \in Messages : Arrive(e)
  \/ PollingFails
  \/ Gateway
  \/ \E f \in Firings : FallDue(f)
  \/ Tick
  \/ \E S \in SUBSET Firings : TickFails(S)
  \/ Handle
  \/ \E e \in Prompts : Ask(e)
  \/ Show \/ GiveUp

(* The event loop gets on with each of its tasks, the model's calls and sends   *)
(* end, and waits have a timeout.  Nobody has to start the process.             *)
Fairness == WF_vars(Handle) /\ WF_vars(Gateway) /\ WF_vars(Tick) /\ WF_vars(Show \/ GiveUp)

Spec == Init /\ [][Next]_vars /\ Fairness

-----------------------------------------------------------------------------
(* Nothing of a process outlives it, and a turn belongs to the active event.    *)
TypeOK ==
  /\ place \in [Events -> Places] /\ active \in Events \cup {NoEvent}
  /\ mode \in {"down", "server", "cli"}
  /\ connected \in BOOLEAN /\ inbox \subseteq Messages
  /\ listener \in {"none", "listening", "backoff", "spinning"}
  /\ scheduler \in {"off", "running", "failed"} /\ due \subseteq Firings
  /\ turn.attempt \in 0 .. Turns /\ turn.stage \in {"idle", "calling", "returned", "raised"}
  /\ turn.stage = "idle" <=> active = NoEvent
  /\ reply = NoReply \/ (reply.of \in Asks /\ reply.kind \in Kinds)
  /\ cache \in [Events -> Kinds] /\ asking \in Prompts \cup {NoEvent}
  /\ mode # "cli" => asking = NoEvent /\ \A e \in Events : cache[e] = "none"
  /\ mode # "server" => ~connected /\ inbox = {} /\ listener = "none" /\ reply = NoReply
  /\ mode = "down" => active = NoEvent /\ due = {} /\ scheduler = "off"

(* The answer to a question is computed once, with its event removed from the   *)
(* queue, and is then at one place: on its way, in the CLI's cache, with the    *)
(* user, or dropped, because it was empty, its sending failed or the process    *)
(* ended.                                                                       *)
Answered(e) == "answer" \in {told[e][i] : i \in DOMAIN told[e]}
Accounted ==
  \A e \in Asks :
    Cardinality({x \in {"sent", "cached", "told", "dropped"} :
                   \/ x = "sent" /\ reply = [of |-> e, kind |-> "answer"]
                   \/ x = "cached" /\ cache[e] = "answer"
                   \/ x = "told" /\ Answered(e)
                   \/ x = "dropped" /\ <<e, "answer">> \in unsent})
      = (IF place[e] = "finished" THEN 1 ELSE 0)

(* How often a question is worked on is bounded: it is delivered MAX_ATTEMPTS   *)
(* times, and once more for a delivery that the end of a process cut off; a     *)
(* delivery stores its memory at most once for each try of the runner and tells *)
(* at most one error, and nothing comes after the answer.                       *)
Repeats ==
  /\ turn.stored <= Turns
  /\ \A e \in Asks :
       /\ tries[e] <= MaxAttempts + stops
       /\ Cardinality({i \in DOMAIN told[e] : told[e][i] = "error"})
            <= MaxAttempts * (1 + replays[e])
       /\ \A i \in DOMAIN told[e] : told[e][i] = "answer" => i = Len(told[e])

(* A result stays in the CLI's cache only if nobody waits for it: it is no      *)
(* prompt, its prompt was given up or left by an earlier process, or an earlier *)
(* attempt's error was shown for it.                                            *)
Leftover ==
  \A e \in Prompts :
    cache[e] # "none" /\ e # asking =>
      \/ e \in forgotten
      \/ told[e] # <<>> /\ ~Answered(e)

(* A message in the queue of a server gets a reply, if only an error, unless    *)
(* its reply is dropped, the process ends or its event loop does not go on;     *)
(* a prompt does not wait for ever.                                             *)
Replied ==
  /\ \A e \in Messages :
       place[e] = "queued" /\ mode = "server"
         ~> told[e] # <<>> \/ (\E kind \in Kinds : <<e, kind>> \in unsent) \/ mode # "server" \/ Frozen
  /\ asking # NoEvent ~> asking = NoEvent

(* A job that is due is handed to the queue, unless the process ends, its event *)
(* loop does not go on, or a write of the scheduler failed before.              *)
Fires == \A f \in Firings :
  f \in due ~> place[f] # "nowhere" \/ mode = "down" \/ scheduler = "failed" \/ Frozen

-----------------------------------------------------------------------------
(* What Dialogue sees: an answer that is on its way or in the CLI's cache was   *)
(* neither told nor dropped.                                                    *)
stage ==
  [e \in Asks |-> IF Answered(e) THEN "told"
                  ELSE IF <<e, "answer">> \in unsent THEN "dropped"
                  ELSE IF place[e] = "finished" THEN "answered"
                  ELSE IF place[e] # "nowhere" THEN "open"
                  ELSE IF e \in lost THEN "missed" ELSE "new"]
errors == [e \in Asks |-> Cardinality({i \in DOMAIN told[e] : told[e][i] = "error"})]

Talk == INSTANCE Dialogue WITH Questions <- Asks, stage <- stage, errors <- errors

(* Through the retries of the runner and the queue, dead letters and their      *)
(* replay, failing sends and restarts in either mode, core/loop.py and main.py  *)
(* treat a question as Dialogue promises: one answer, told once or given up,    *)
(* and nothing after it.                                                        *)
ImplementsDialogue == Talk!DialogueSpec
=============================================================================

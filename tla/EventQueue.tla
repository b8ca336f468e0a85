----------------------------- MODULE EventQueue -----------------------------
(* The SQLite event queue of zoomac/core/queue.py with its one consumer, the    *)
(* loop of CoreLoop.process_queue / _process_background in zoomac/core/loop.py. *)
(*                                                                              *)
(* The two tables survive a crash; the consumer's position does not.  An event  *)
(* is a row's identifier: payloads are never read by the queue.  pop_async runs *)
(* pop() on an executor thread while the event loop keeps running, so its       *)
(* SELECT and its UPDATE are separate steps that pushes may fall between.       *)
EXTENDS Naturals

CONSTANTS Events,        (* identifiers of the rows                             *)
          NoEvent,       (* the consumer holds no event                         *)
          Priority,      (* EventPriority of each event: the least goes first   *)
          Recurring,     (* scheduler firings: a fresh row for each, modelled   *)
                         (* by re-using the identifier of a finished firing     *)
          Replays,       (* events whose handler calls replay_all_dead_letters  *)
          MaxAttempts,   (* EventQueue.MAX_ATTEMPTS                             *)
          MaxCrashes,    (* bound: crashes and restarts of the process          *)
          ThreadChecked  (* sqlite3 refuses a connection on a thread other than *)
                         (* the one that opened it (check_same_thread)          *)

ASSUME QueueAssumption ==
  /\ NoEvent \notin Events
  /\ Priority \in [Events -> Nat]
  /\ Recurring \subseteq Events
  /\ Replays \subseteq Events
  /\ MaxAttempts \in Nat \ {0}
  /\ MaxCrashes \in Nat
  /\ ThreadChecked \in BOOLEAN

VARIABLES status,    (* event_queue.status, "none" when there is no such row   *)
          attempts,  (* the attempts column of the table that holds the row    *)
          dead,      (* rows of dead_letter_queue                              *)
          older,     (* <<e, f>>: the timestamp of e is before that of f       *)
          notify,    (* the asyncio.Event _notify                              *)
          pc,        (* where the consumer is                                  *)
          cur,       (* the event selected, and then handled, by the consumer  *)
          done,      (* history: events that were handled and removed          *)
          late,      (* history: events pushed since the consumer's last SELECT *)
          crashes    (* history: crashes so far                                *)

tables == <<status, attempts, dead, older, done>>
vars == <<status, attempts, dead, older, notify, pc, cur, done, late, crashes>>

Statuses == {"none", "pending", "processing"}
PCs == {"down", "starting", "select", "claim", "clear", "waiting", "handling", "raised"}

InQueue == {e \in Events : status[e] # "none"}
Stored == InQueue \cup dead

Init ==
  /\ status = [e \in Events |-> "none"]
  /\ attempts = [e \in Events |-> 0]
  /\ dead = {}
  /\ older = {}
  /\ notify = FALSE
  /\ pc = "down"
  /\ cur = NoEvent
  /\ done = {}
  /\ late = {}
  /\ crashes = 0

-----------------------------------------------------------------------------
(* Producers: the gateway, the scheduler and the CLI, all on the event loop.   *)

(* push(): INSERT with status 'pending' and attempts 0, then _notify.set().     *)
Push(e) ==
  /\ pc # "down"
  /\ e \notin Stored
  /\ e \in done => e \in Recurring
  /\ status' = [status EXCEPT ![e] = "pending"]
  /\ attempts' = [attempts EXCEPT ![e] = 0]
  /\ older' = older \cup {<<f, e>> : f \in Stored}
  /\ notify' = TRUE
  /\ done' = done \ {e}
  /\ late' = late \cup {e}
  /\ UNCHANGED <<dead, pc, cur, crashes>>

-----------------------------------------------------------------------------
(* The consumer.                                                               *)

(* A new process: its notification is unset, its tables are what was on disk.  *)
Boot ==
  /\ pc = "down"
  /\ pc' = "starting"
  /\ UNCHANGED <<status, attempts, dead, older, notify, cur, done, late, crashes>>

(* Fault: recovery is skipped, rows stay 'processing'.                         *)
RecoverStaleSkipped ==
  /\ pc = "starting"
  /\ pc' = "select"
  /\ UNCHANGED <<status, attempts, dead, older, notify, cur, done, late, crashes>>

(* Fault: recovery writes a status that pop() does not look for.               *)
RecoverStaleWrongStatus ==
  /\ pc = "starting"
  /\ status' = [e \in Events |-> IF status[e] = "processing" THEN "stale" ELSE status[e]]
  /\ pc' = "select"
  /\ UNCHANGED <<attempts, dead, older, notify, cur, done, late, crashes>>

(* recover_stale(), the first thing process_queue does.                        *)
RecoverStale ==
  /\ pc = "starting"
  /\ status' = [e \in Events |-> IF status[e] = "processing" THEN "pending" ELSE status[e]]
  /\ notify' = (notify \/ \E e \in Events : status[e] = "processing")
  /\ pc' = "select"
  /\ UNCHANGED <<attempts, dead, older, cur, done, late, crashes>>

(* Fault: ORDER BY timestamp only.                                              *)
BestByAge(e) ==
  /\ status[e] = "pending"
  /\ \A f \in Events \ {e} : status[f] = "pending" => <<e, f>> \in older

(* ORDER BY priority ASC, timestamp ASC LIMIT 1 over the pending rows.         *)
Best(e) ==
  /\ status[e] = "pending"
  /\ \A f \in Events \ {e} :
       status[f] = "pending" =>
         \/ Priority[e] < Priority[f]
         \/ Priority[e] = Priority[f] /\ <<e, f>> \in older

(* The SELECT of pop(), on the executor thread.  Where sqlite3 checks threads   *)
(* it raises ProgrammingError instead, out of process_queue, which is over.     *)
PopSelect ==
  /\ pc = "select"
  /\ IF ThreadChecked
     THEN pc' = "raised" /\ cur' = NoEvent
     ELSE IF \E e \in Events : status[e] = "pending"
     THEN pc' = "claim" /\ \E e \in Events : Best(e) /\ cur' = e
     ELSE pc' = "clear" /\ cur' = NoEvent
  /\ late' = {}
  /\ UNCHANGED <<status, attempts, dead, older, notify, done, crashes>>

(* The UPDATE of pop(): status 'processing', attempts + 1.                     *)
PopClaim ==
  /\ pc = "claim"
  /\ status' = [status EXCEPT ![cur] = "processing"]
  /\ attempts' = [attempts EXCEPT ![cur] = @ + 1]
  /\ pc' = "handling"
  /\ UNCHANGED <<dead, older, notify, cur, done, late, crashes>>

(* pop() found nothing: back on the event loop, pop_async clears the            *)
(* notification, a push that came in between included.                          *)
ClearNotify ==
  /\ pc = "clear"
  /\ notify' = FALSE
  /\ pc' = "waiting"
  /\ UNCHANGED <<status, attempts, dead, older, cur, done, late, crashes>>

Notified ==
  /\ pc = "waiting"
  /\ notify
  /\ pc' = "select"
  /\ UNCHANGED <<status, attempts, dead, older, notify, cur, done, late, crashes>>

(* Fault: wait() without a timeout, so that the cleared notification is lost.   *)
PollOnlyNotified ==
  /\ pc = "waiting" /\ notify
  /\ pc' = "select"
  /\ UNCHANGED <<status, attempts, dead, older, notify, cur, done, late, crashes>>

(* wait_for(_notify.wait(), timeout=1.0) gives up and pop_async polls again.   *)
PollTimeout ==
  /\ pc = "waiting"
  /\ pc' = "select"
  /\ UNCHANGED <<status, attempts, dead, older, notify, cur, done, late, crashes>>

(* Fault: replay_dead_letter() inserts without deleting the dead letter.        *)
ReplayKeepsLetter(e) ==
  /\ pc = "handling" /\ cur \in Replays
  /\ e \in dead /\ status[e] = "none"
  /\ status' = [status EXCEPT ![e] = "pending"]
  /\ attempts' = [attempts EXCEPT ![e] = 0]
  /\ notify' = TRUE
  /\ UNCHANGED <<dead, older, pc, cur, done, late, crashes>>

(* replay_dead_letter(), one transaction for each: the dead letter is pending   *)
(* again with attempts 0 and its old timestamp.                                 *)
Replay(e) ==
  /\ pc = "handling" /\ cur \in Replays
  /\ e \in dead
  /\ status' = [status EXCEPT ![e] = "pending"]
  /\ attempts' = [attempts EXCEPT ![e] = 0]
  /\ dead' = dead \ {e}
  /\ notify' = TRUE
  /\ UNCHANGED <<older, pc, cur, done, late, crashes>>

(* handle_event() returned: complete() deletes the row.  Where the handler is   *)
(* replay_all_dead_letters(), all were replayed: its limit of 1000 is above      *)
(* |Events|.                                                                    *)
HandleOk ==
  /\ pc = "handling"
  /\ cur \in Replays => dead = {}
  /\ status' = [status EXCEPT ![cur] = "none"]
  /\ done' = done \cup {cur}
  /\ pc' = "select"
  /\ cur' = NoEvent
  /\ older' = {p \in older : p[1] # cur /\ p[2] # cur}
  /\ UNCHANGED <<attempts, dead, notify, late, crashes>>

(* Fault: attempts > MAX_ATTEMPTS.                                              *)
HandleErrorOffByOne ==
  /\ pc = "handling"
  /\ IF attempts[cur] > MaxAttempts
     THEN /\ status' = [status EXCEPT ![cur] = "none"]
          /\ dead' = dead \cup {cur}
     ELSE /\ status' = [status EXCEPT ![cur] = "pending"]
          /\ UNCHANGED dead
  /\ pc' = "select"
  /\ cur' = NoEvent
  /\ UNCHANGED <<attempts, older, notify, done, late, crashes>>

(* Fault: the exhausted row is deleted and not inserted into the dead letters.  *)
HandleErrorDrops ==
  /\ pc = "handling"
  /\ status' = [status EXCEPT ![cur] = IF attempts[cur] >= MaxAttempts
                                       THEN "none" ELSE "pending"]
  /\ pc' = "select"
  /\ cur' = NoEvent
  /\ UNCHANGED <<attempts, dead, older, notify, done, late, crashes>>

(* handle_event() raised: fail() re-queues the row or, after MAX_ATTEMPTS        *)
(* deliveries, moves it to the dead letters in the same transaction.             *)
HandleError ==
  /\ pc = "handling"
  /\ IF attempts[cur] >= MaxAttempts
     THEN /\ status' = [status EXCEPT ![cur] = "none"]
          /\ dead' = dead \cup {cur}
     ELSE /\ status' = [status EXCEPT ![cur] = "pending"]
          /\ UNCHANGED dead
  /\ pc' = "select"
  /\ cur' = NoEvent
  /\ UNCHANGED <<attempts, older, notify, done, late, crashes>>

(* The process dies, or is cancelled, anywhere; only the tables remain.         *)
Crash ==
  /\ pc # "down"
  /\ crashes < MaxCrashes
  /\ crashes' = crashes + 1
  /\ pc' = "down"
  /\ cur' = NoEvent
  /\ notify' = FALSE
  /\ late' = {}
  /\ UNCHANGED tables

Consume == Boot \/ RecoverStale \/ PopSelect \/ PopClaim \/ ClearNotify \/ Notified
             \/ PollTimeout \/ (\E e \in Events : Replay(e)) \/ HandleOk \/ HandleError

Next == (\E e \in Events : Push(e)) \/ Consume \/ Crash

(* The event loop never stops scheduling the consumer, a handler returns, a     *)
(* poll times out and a stopped process is started again.  Producers owe        *)
(* nothing: a push may never come.                                              *)
Spec == Init /\ [][Next]_vars /\ WF_vars(Consume)

-----------------------------------------------------------------------------
(* Properties.                                                                  *)

TypeOK ==
  /\ status \in [Events -> Statuses]
  /\ attempts \in [Events -> Nat]
  /\ dead \in SUBSET Events
  /\ older \in SUBSET (Events \X Events)
  /\ notify \in BOOLEAN
  /\ pc \in PCs
  /\ cur \in Events \cup {NoEvent}
  /\ done \in SUBSET Events
  /\ late \in SUBSET Events
  /\ crashes \in 0 .. MaxCrashes

(* A row is in one table at most, so that neither fail() nor                    *)
(* replay_dead_letter() can hit an existing primary key, and an event that was  *)
(* completed is in neither: nothing brings it back.                             *)
OneTable ==
  /\ InQueue \cap dead = {}
  /\ Stored \cap done = {}

(* A row is 'processing' only while the consumer handles that very event, or    *)
(* between a crash and the recovery: two deliveries never overlap and no row is *)
(* left behind as 'processing' by a consumer that went on.                      *)
OneDelivery ==
  /\ pc = "handling" => status[cur] = "processing"
  /\ \A e \in Events : status[e] = "processing" =>
       \/ pc = "handling" /\ e = cur
       \/ pc \in {"down", "starting"}
  /\ \A e, f \in Events : status[e] = "processing" /\ status[f] = "processing" => e = f

(* fail() counts deliveries, and a crash spends one without asking fail(): an   *)
(* event is delivered at most MAX_ATTEMPTS times plus once per crash before it  *)
(* is finished or dead, and it is dead only after MAX_ATTEMPTS deliveries.      *)
AttemptsBounded ==
  \A e \in Events :
    /\ attempts[e] <= MaxAttempts + crashes
    /\ e \in dead => attempts[e] >= MaxAttempts

(* Events are claimed by priority, then by age.  A claim passes over an event   *)
(* that should go first only if that event came after the SELECT.               *)
ClaimOrder ==
  [][\A e \in Events, f \in Events \ late :
       /\ status[e] = "pending" /\ status'[e] = "processing"
       /\ status[f] = "pending" /\ e # f
       => \/ Priority[e] < Priority[f]
          \/ Priority[e] = Priority[f] /\ <<e, f>> \in older]_vars

(* Every pending event is delivered in the end, retries, dead letters that come *)
(* back, crashes and recurring jobs notwithstanding.                            *)
Delivered ==
  \A e \in Events : status[e] = "pending" ~> status[e] = "processing"

(* The queue implements the mailbox.                                            *)
place == [e \in Events |-> IF status[e] # "none" THEN "queued"
                           ELSE IF e \in dead THEN "parked"
                           ELSE IF e \in done THEN "finished" ELSE "nowhere"]
tries == attempts
active == IF pc = "handling" THEN cur ELSE NoEvent

Box == INSTANCE Mailbox WITH place <- place, tries <- tries, active <- active

ImplementsMailbox == Box!MailboxSpec

=============================================================================

# Formal models of Zoomac

TLA+ models of Zoomac, a personal agent: an asyncio process (`src/src/zoomac`) that
takes events from a durable queue, runs goals with a planner and approvals, and
serves chat clients, and a VS Code extension (`src/vscode-extension`) with an agent
of its own. The modules are checked with TLC on small instances; the theorems are
proved with TLAPS for every value of the constants.

## 1. Inventory

| component | state it keeps | operations | interacts with | hard behaviour | correct when |
|---|---|---|---|---|---|
| Event queue (`core/queue.py`) | SQLite tables `event_queue`, `dead_letter_queue`; an asyncio.Event | push, pop, complete, fail, recover, replay | pushed to by gateway, scheduler, CLI; popped by the core loop | SELECT/UPDATE on another thread, lost notification, crash between claim and completion, retries | nothing accepted is lost, doubled or handled twice at once; order; delivery |
| Core loop (`core/loop.py`) | running goal coroutines, CLI result cache | handle events, start goals, route answers, reply | all of the server | one consumer beside background coroutines; replies after completion; timeouts of the CLI | an answer reaches the goal that asked; a reply reaches whoever asked |
| Goal engine (`planner/engine.py`, `executor.py`, `store.py`) | SQLite tables of goals, tasks, task events | plan, step, run, complete, replan | model, approvals, sub-agents, core loop | store read before an await and written after it; crash; retries; replanning of a running batch | dependencies first; DONE means done; retries end; nothing is forgotten |
| Goal approval (`planner/approval.py`) | statuses of blocked tasks | evaluate a task, take an answer | autonomy, goal engine | answers while a batch runs | no action without consent; a consent has effect |
| Autonomy (`autonomy/*`) | rules, decision log | evaluate, grant, deny | goal approval | overlapping rules and defaults | deny before allow before policy |
| Gateway (`gateway/gateway.py`, `adapter.py`, `telegram.py`) | adapters and their listen tasks | start, stop, listen, send | queue, core loop | reconnect with backoff | a listener survives its errors |
| WebSocket server (`gateway/websocket.py`) | sessions with histories, channel to socket | connect, resume, replay, send, broadcast | gateway, clients | reconnects overlap, replay against live replies | no gap in a history; replies reach the client |
| Sub-agents (`agents/*`) | records and tasks | spawn, run, time out | goal engine | limit counted late, cancellation | the limit holds; every record ends |
| Scheduler (`scheduler/*`) | next run of each job | tick | queue | a push that fails | jobs go on firing |
| Conversation runner, brain (`core/runner.py`, `brain/*`) | turns | run with retry, tool loop | model, memory, tools | retry repeats side effects | bounded; one effect per turn |
| Tools, sandbox, skills, credentials, configuration | files, containers, vault | I/O | brain, goal engine | cleanup after a timeout | |
| Extension: local agent (`backend/localAgentBackend.ts`) | conversation, pending confirmations and prompts, the cancel flag | send, cancel, confirm, compact | panel, model, memory bridge, MCP | a second message during a turn, cancel against an answer | one loop at a time; every tool call has a result |
| Extension: remote backend, panel (`websocketBackend.ts`, `chatPanel.ts`, `sessionStore.ts`) | socket, timer, saved sessions | start, stop, reconnect, save | WebSocket server | stop against reconnect; read-modify-write of the index | stopped stays stopped; no session is lost |
| Extension: memory bridge, MCP client | pending requests by id | call, answer, time out, exit | daemon processes | late answers, exit with requests pending | every request is settled once |
| MemGate (`scripts/memgate/*`) | memories, facts, topics in SQLite | ingest, retrieve, consolidate | memory bridge | superseded and consolidated facts; a kill or an exception between two writes | a fact that was replaced is not current |

`PROJECT.json` lists each of them with its status, and under `hazards` what is hard
to test, each at its line, with the properties that watch it.

## 2. Plan

Built, each with its theorems: **EventQueue** (with the abstract **Mailbox**),
**GoalEngine** (with **Workflow**), **WebSocketSessions**, **Server** (the process around
the queue, composed with Mailbox; with **Dialogue**), **TaskRuns** (composed of
**Approval** and **SandboxPolicy**), and **MemGate**. The proofs of a module M are in
MProofs, those of MemGate's searches in RetrievalProofs; its instance is MCM.

```
Mailbox <--refines-- EventQueue          Approval  SandboxPolicy
   |                                         \        /
 Server --refines--> Dialogue                 TaskRuns

GoalEngine --refines--> Workflow     WebSocketSessions     MemGate
```

Left, in this order:

1. **LocalAgent**: the extension's tool loop, cancel, confirmations and a second
   message during a turn; properties: one loop at a time, every `tool_use` followed
   by its `tool_result` (compaction included), a cancelled loop stops. Proof: the
   pairing invariant.
2. **MemoryBridge**: requests with ids, the 15 s timeout, late answers, the exit of
   the daemon; the same shape fits the MCP client. Abstract specification: a call
   that is settled exactly once; refinement proved.
3. **ExtensionBackends**: reconnect against stop, the session index.

## 3. The models

### Mailbox and EventQueue

`Mailbox` is what the queue promises: an accepted event stays until a delivery of it
is acknowledged; it is parked only after `MaxAttempts` deliveries; a parked event can
be put back. `EventQueue` is the code: an event is the id of a row, `status` and
`dead` are the two tables, `pc` and `cur` the consumer, `notify` the asyncio.Event.

| action | code |
|---|---|
| `Push` | `EventQueue.push` |
| `RecoverStale` | `recover_stale`, first thing in `process_queue` |
| `PopSelect`, `PopClaim` | the SELECT and the UPDATE of `pop`, on an executor thread: pushes fall between |
| `ClearNotify`, `Notified`, `PollTimeout` | the rest of `pop_async` |
| `Replay` | one `replay_dead_letter` of the `retry_dead_letters` job |
| `HandleOk`, `HandleError` | `complete`, `fail` |
| `Crash`, `Boot` | the process dies, and is started again |

`older` stands for the timestamps; `done`, `late` and `crashes` are history
variables. The refinement maps a row to queued, parked, finished or nowhere, and the
consumer in `handling` to the event in the handler's hands.

In the code as it is, `pop` runs on a thread other than the one that opened the
connection, and sqlite3's default `check_same_thread` raises. The constant
`ThreadChecked` has both worlds: the passing run has the check off, so that it
says what the queue's logic guarantees; `event_queue_threads` has it on and shows
that nothing is delivered. A firing of a recurring job reuses its identifier once
the earlier one is finished. `replay_all_dead_letters` has no suspension point, so
the pushes the model lets fall between two `Replay` steps are more than the code has.

### Workflow and GoalEngine

`Workflow` is what the engine promises of tasks: one is begun only when those it needs
are done, alone in its goal and at most `Limit` times; it is given up only after the
last attempt, and only then may others take its place, needing what it needed; nothing
happens in a goal that was closed. `GoalEngine` is the code.

Goals and their tasks with the coroutines that run them, the consumer that starts
goals and routes answers, and the store, which survives crashes. All of it runs on
one event loop: `loop` names the coroutine that runs between two suspension points,
and only planning, some kinds of tasks, and replanning give it away. `runner` is
where the coroutine of a goal is, `batch` the ready tasks of its step (loaded once),
`at` the task in hand, `consumer` where `handle_event` is.

| action | code |
|---|---|
| `StartGoal`, `PlanReady`, `PlanFails` | `_start_goal`, `create_plan`, `approve_goal` |
| `Deny`, `Confirm`, `Supply`, `Stray`, `Resume` | `handle_user_input` and the coroutine `handle_event` creates |
| `StepEnded`, `StepIdle`, `StepReady`, `StepEnds` | the early returns, the start and the end of `step`, with `run_goal`'s decision |
| `TaskStopped`, `TaskStarts` | the verdict of `evaluate_task`, and RUNNING |
| `TaskDone`, `TaskRetries`, `TaskFails` | the outcomes of `execute_task` |
| `ReplanKeeps`, `ReplanAborts`, `ReplanSkips`, `ReplanReplaces` | `replan` |
| `Crash` | coroutines are gone; `recover_running` is never called |

A task's kind joins its type and its instruction. What the goal engine can see in
CoreLoop: no sandbox and no gateway (those kinds return a text at once), a vault that
is never filled, so a credential request always blocks.

Abstractions. Some writes that the code commits one by one are one step: those of a
plan (a crash in their middle leaves a goal in PLANNING or DRAFT that nothing runs),
those of a replacement, and a grant with the task it resumes. A confirmed or supplied
task and the goal's EXECUTING are two steps, with a crash in between. Goals that the
scheduler's jobs create are left out. Task events, summaries and errors are left out.
A plan grows by `MaxTasks` at most: this bound is the model's, the code asks the model
for a replacement whenever a task has failed for good. `RunnerEnds` does not hide that: it
says that a coroutine ends or goes on replacing for ever.

The refinement (`Life`): a RUNNING task is being done while its coroutine is in `exec`
with it, otherwise it was lost in a crash; a goal that is DONE is closed. Planning,
approval, the batch and the coroutine are details Workflow does not have, so most steps
of a coroutine map to none.

What the model makes visible, besides the findings: nothing in the code bounds how often
a failed task is replaced by one that fails in its turn; a failing plan leaves its goal in
PLANNING; dependents of a task that was skipped or replaced stay PENDING; `abort`
writes FAILED, but the rest of the batch still runs and the completion check may write
BLOCKED over it; tasks that were RUNNING at a crash stay so; every message in a channel
with a BLOCKED goal is taken as its answer.

### WebSocketSessions

One handler per connection and one sender; an action is the code from one write to a
socket to the next. `owner` is `session.websocket`, `clients` the table `_clients`,
`local` the variable `session` of a handler, `replay` its iterator over the history
with the sequence number at its creation (a deque that was appended to raises at the
next step of an iterator). `got` is a history variable: what the socket was given.

| action | code |
|---|---|
| `Connect`, `Welcomed`, `WelcomeFails` | `_resolve_session` and the start of `_handle_client`, outside its try |
| `Resume` | `_switch_session`, inside the try |
| `ReplayNext`, `ReplayDone`, `ReplayFails` | `_replay_session_history` |
| `ReadEnds`, `Ends` | the end of the read loop, the finally clause |
| `Send`, `SendUnknown`, `Sent`, `SendFails` | `send`: to the channel's client, or the broadcast |
| `Close` | the connection goes down; its handler learns of it later |

A write to a socket that is down fails in a later step, so other handlers may run in
between. Invalid JSON and inbound messages do not change sessions and are left out,
`disconnect` too.

### Dialogue and Server

`Dialogue` is what the process promises to whoever asks it something: a question is
answered once at most, its answer is told once or given up for good, it is the last
word (errors come only before it), and a question that was missed is never answered.

The queue is the one that EventQueue implements: `Server` extends Mailbox, and stands
for the world without sqlite3's thread check. A turn is the handling of the active event.
The CLI and the server have the same database, one after the other: what one leaves in
the queue the next process takes.

| action | code |
|---|---|
| `Boot` | `run_server` or `run_cli`: the gateway and the scheduler start, `recover_stale` |
| `Stop` | the process is killed or quits, or an exception leaves its loop (a push that fails under `Ask` too) |
| `Arrive`, `PollingFails` | `TelegramAdapter`: a handler puts a message into its queue; polling raises |
| `Listen`, `ListenFails`, `Relisten`, `Spin` | `listen`, and the gateway's `_listen_loop` with its backoff |
| `FallDue`, `Tick`, `TickFails` | `Scheduler.tick` and `_run_loop` |
| `Take` | `process_queue` gets the next event |
| `Returns`, `Ingests`, `AttemptFails`, `HandlerFails` | the handlers and `ConversationRunner.run_message` |
| `Retry` | `replay_all_dead_letters` |
| `Complete`, `CompleteFails`, `Fail` | the end of an iteration of `process_queue`, with what `run_server` or `_process_background` makes of the result |
| `Send`, `SendFails` | the adapter's `send`, from `run_server` |
| `Ask`, `Show`, `GiveUp` | the CLI's push and `_wait_for_response` |

The refinement (`stage`, `errors`): a prompt or a message is open when it is in the queue,
answered when its reply is on its way or in the CLI's cache, told when it has reached the
user or the platform. A push that fails or a process that ends misses a message nobody
has accepted; a send that fails, or the end of the process, gives up an answer. The retries of the
runner, the dead letters and their replay are details Dialogue does not have.

Abstractions. Between events of one rank the order is open (EventQueue's ClaimOrder has
it). A job that fires reuses its identifier in the code; here each firing has one, used
once. A goal, a command or a job is a turn that returns or raises. `main.py` registers
the WebSocket adapter and not Telegram's; the gateway treats both alike, and it is
Telegram's inbox that is modelled, because WebSocketSessions has the other one.

What the model makes visible: after polling has failed, `listen` of an adapter that is
not connected returns at once and `_listen_loop` calls it again without a pause, so that
the event loop does nothing else (`Spin`), although `docs/design/12-resilience.md` has
the gateway reconnect with backoff; a failed push loses the message; an adapter whose
`connect` failed is not tried again; the scheduler is over after one failed push; the CLI
shows an error although a later delivery may bring the answer; a platform's message
handled under the CLI, or a prompt handled under the server, is answered to nobody; the
results of jobs stay in the CLI's cache.

### Approval, SandboxPolicy and TaskRuns

`Approval` is a pure function: the cascade of the classifier (skill, platform, action
type, default), which rules match, and their precedence (deny, allow, risk).
`SandboxPolicy` is another: intent and decision to profile and mounts. `TaskRuns` has
goals that ask, run what they may, and wait for it.

| action | code |
|---|---|
| `AddRule` | the five operations of the pipeline that store a rule |
| `Start` | the engine's evaluation, then `run_in_executor` or the check of `max_agents` in `run_subagent` |
| `Register`, `Create`, `CreateFails`, `SetId`, `Exits`, `WaitRaises`, `Remove`, `RemoveFails`, `Untrack` | `_execute_sync`, one call to Docker or write to `_containers` at a time |
| `Cleanup`, `CleanOne` | `cleanup`, on another thread, between any of those; each removal may fail |
| `Begin`, `Concludes`, `Fails`, `Join`, `Cancel` | `_run_record` and `run_subagent`, with the events on the bus |

A rule, request or path is what the comparisons see of it: `Starts` says which text
starts with which. The log of decisions, limits, logs and extra mounts are left out.
CoreLoop gives the goal engine no sandbox, so the containers are those of an engine that
has one, as the executor is written for; `cleanup` has no caller in the repository.

What the model makes visible: a removal that raises is swallowed, although
`sandbox/docker.py:239` says "Always clean up", and the record is dropped, so that nothing
remembers the container (`stray`; NoneLeft excepts those, and only when the thread's own
removal failed: a failing one of `cleanup` is made up for by the thread); two goals may
pass the check of `max_agents` before either
record says it is running; a cancelled sub-agent's record stays RUNNING and takes a slot
for good (Slots excepts it); a writing command with network access gets the profile
`full`, which has no mount of the project.

### MemGate

One process has the store open; each statement is committed on its own and the process
can be killed after any. An ingestion may also raise anywhere: the daemon answers with the
error and goes on with the same engine. `script` is what the call in hand has yet to write;
`failures` and `missed` are history variables: the ingestions that raised, and those of
them in which a checkpoint was due.

| action | code |
|---|---|
| `Open`, `Close`, `Crash` | the engine's start from `model_state`, `close` with its checkpoint, a kill |
| `Ingest` | the gate, the topic model and the insertion of `ingest` or `ingest_structured` |
| `IngestFails`, `Raise` | an exception before the row is inserted (counted or not, topics extracted or not), or later; `memgate_daemon.py` catches it |
| `Mark`, `AddFact`, `Retire`, `Mention`, `Link` | the writes that follow: superseded memories, facts and those they replace, entities, relationships |
| `Checkpoint`, `Consolidate`, `Summarise` | the end of an ingestion, `consolidate` |
| `Search`, `RelatedMemories` | `Retriever.retrieve` with its tiers and `_dedup_with_recency`; `store`'s query for two entities |

An embedding is reduced to whether two texts reach the similarity threshold, a score to a
member of a small set, a ranking to any order. `Dedup` is the loop of
`_dedup_with_recency` as a recursive function over its passes (`Pass`: one row of the
ranking against the similar ones after it that are not gone yet); an answer is its rows
without their order. What is extracted from a text (facts,
names, dates) belongs to the payload. Names are written after the facts, where the
code has them between facts and relationships. The log of decisions, the dates of events
and the views that only list are left out. So are a commit that fails while its statement
stays in the open transaction, and an exception in the start or the end of the engine or in
the middle of the topic model.

What the model makes visible: after an ingestion that raised, its marks, its facts and its
checkpoint are never made up for, and the next checkpoint is due ten ingestions later, so
that a kill before it repeats up to twice as much of a long cold start; numbers of clusters start at 0 again after a restart, while
stored rows and summaries keep the old ones; a flagged update without update language
supersedes no memory, though `engine.py:357` says it does.

## 4. The runs

| run | shows | bounds |
|---|---|---|
| `event_queue` | type and table invariants, no overlapping delivery, bounded attempts, the order of claims, delivery, refinement of Mailbox; no deadlock | two messages, one recurring job that replays dead letters, 3 attempts, 2 crashes: an event can be exhausted, parked, replayed, and crash in each position |
| `event_queue_threads` | finding: with the thread check nothing is delivered | the same |
| `goal_engine` | dependencies, consent, DONE, notice of what is left, finality, no lost task, the end of coroutines unless tasks are replaced for ever, refinement of Workflow | two goals in channels of their own, two plans (tasks side by side, two of them with dependents, one that asks and waits for the model; an input and a task that asks), 2 attempts, two replacements (a task that is refused, or one that runs and may be replaced in its turn, and that task after it), plans of up to five tasks, one crash: one goal runs while the other waits for an answer, is denied, or replans; a crash falls between an answer and the coroutine it would have started |
| `goal_confirm`, `goal_answer`, `goal_input` | findings, below | one goal each, of one plan that shows it |
| `websocket` | no gap, agreeing routes, one session per client, `send` returns | two sessions, two connections, histories of 2, three replies, two resumes: a history overflows, a reconnect overlaps, a broadcast goes from one session to the next |
| `websocket_replay`, `websocket_reach` | findings, below | the same |
| `server` | each answer at one place, bounded repetitions, what may stay in the cache, replies, firings, refinement of Dialogue | a message, a prompt and a firing of `retry_dead_letters`, 2 deliveries, 2 tries of the runner, one end of the process: all can be exhausted, parked and replayed; the prompt of one process is found by the next, in either mode |
| `task_runs` | nothing against a rule, the effect of a rule, mounts, no slot left and no container but one whose removal failed, everything ends | two goals of two sessions, a command that its skill's override makes risky, a risky push, a sub-agent; four rules to choose from (both modes, all but the path scope, with and without an action type), two of them stored, two runs, one agent: two rules overlap on one request, both goals pass the check, a cleanup meets a container in every stage, and any removal may fail |
| `memgate` | succession, searches, the last word on a fact, the cold start | three texts, the one in the middle similar to both others, one kill, one ingestion that raises, cold start of 3, checkpoint and consolidation at every second ingestion, answers of 2. Four memories of any kind (three once there was a kill or an exception), up to six of one text (the constraint `Few`): a chain of three, a duplicate text, a fact with and without a previous value, a kill and an exception between any two writes, and a cold start that a kill cuts off behind a checkpoint that was made or missed |

Fairness. EventQueue: the consumer's next step (`WF(Consume)`): the event loop does not
stop, a handler returns, a stopped process is started again. Pushes owe nothing.
GoalEngine: strong fairness of each coroutine, because asyncio runs what is ready in the
order in which it became ready, so others that take the loop again and again cannot keep
one from it; `WF(Consume)` for the consumer; users, and crashes, owe nothing. The model
returns or raises (its client has a timeout). WebSocketSessions: only the sender's step,
since a write to a socket returns or raises. Server: the handling of events, the
listener, the scheduler and the CLI's wait each go on, since model calls and sends end
and waits have a timeout; nobody has to start the process, so what is promised is
promised while it runs. TaskRuns: every run goes on (`WF(Step(n))`), because a thread
and a task do, and both waits have a timeout; users and cleanups owe nothing. MemGate
has no liveness property: a call runs to its end, raises or is killed. CHECK_DEADLOCK is off
where everything may be at rest for good: all goals ended, all connections used, the
bounds of messages, runs or rows reached.

Definitions headed "Fault" are mistakes the code could have made; `PROJECT.json` lists
under `mutants`, for every property, the one that TLC must catch it with. No action of a
specification uses them.

Findings, each the violation run of a sentence in the repository:

- `event_queue_threads`: "Process events from the queue continuously."
  (`core/loop.py:206`): the first pop raises out of `process_queue`.
- `goal_confirm`: "executes when the user confirms" (`docs/design/07-autonomy.md:66`): a
  plain "yes" is not recorded, so the task is blocked again at its next step.
- `goal_answer`: the options offered at `planner/approval.py:182`: a task that depends on a
  blocked one is PENDING and never attempted, so the completion check writes nothing, the
  coroutine stops with the goal EXECUTING, and the answer is not routed to it.
- `goal_input`: "needs to pause for user input or credentials" (`planner/executor.py:15`):
  `step` handles TaskBlocked as a failure and writes PENDING or FAILED.
- `websocket_replay`: "reconnect and replay support" (`gateway/websocket.py:27`): a reply
  during the replay ends the handler with RuntimeError.
- `websocket_reach`: "Send a message to a specific client by channel"
  (`gateway/websocket.py:173`): the cleanup of the old connection removes the new one.

## 5. The proofs

`EventQueueProofs`, for every set of events, priorities, number of attempts and crashes,
with or without the thread check, from `QueueAssumption` only: TypeOK, OneTable,
OneDelivery, AttemptsBounded, the action property ClaimOrder, and that EventQueue
implements Mailbox. AttemptsBounded is not inductive: what may still be claimed has to be
one attempt short of the bound (`AttemptsInv`). ClaimOrder needs that the selected row is
still best among the rows that were there at the SELECT (`ClaimInv`).

`GoalEngineProofs`, for every set of kinds, plans, replacements and sessions, from
`BoundAssumption`, `KindAssumption` and `PlanAssumption`: TypeOK, DepsDone, Consent,
GoalDone, and the action property Ended. The inductive invariant adds: a goal without a
plan has no task and no coroutine, and the consumer is busy only with a goal in the
matching status (`FreshInv`); tasks are numbered without gaps (`ShapeInv`); a task that may
still be started is one attempt short of the bound (`AttemptsInv`); what is left of a batch
is still ready (`BatchInv`: the list read before the awaits does not go stale, because an
answer only touches BLOCKED tasks and a replan only the failed one); a coroutine in `exec`
has its task RUNNING, one in `replan` has it FAILED (`AtInv`); nothing runs for a goal that
is DONE (`DoneInv`). Its lemmas first say how any step
may move a task (`StepMoves`), a coroutine or a verdict (`StepSteers`), so that each
invariant is a few cases and not one per action.

Noticed needs that a goal which is BLOCKED rests: its coroutine is off or was just
created, and one that is EXECUTING without a coroutine has something unfinished
(`NoticedInv`). Recorded follows from what a step does at each place of a coroutine.

That GoalEngine implements Workflow uses all of this: a task that is begun is still ready
(`BatchInv`) and no other is being done, since a coroutine in `batch` has none at hand; one
whose coroutine is gone is lost only by a crash (`StepHandles`). It needs one invariant
more: the model is asked to replan only for a task that has used up its attempts
(`ExhaustedInv`), so a task that a rule or a user refused is never replaced.

`WebSocketSessionsProofs`, for every set of sessions and connections and every length of
a history: TypeOK, NoLoss, OneRoute, OneSession. The replies that go to a connection are
those of the session it last was welcomed to (`RouteInv`); a replay that no reply
has overtaken has given its client the history up to its position (`ReplayInv`), which is
why the end of a replay leaves no gap.

`ServerProofs`, for every set of messages, prompts and firings, any number of deliveries,
tries and restarts: TypeOK, Accounted, Repeats, Leftover. Accounted is first restated
without counting (`AccountInv`); an answer is not doubled because no event is taken while
a reply is pending (`PendingInv`); the bound on errors relates those told and those on
their way to the deliveries that failed (`ErrorInv`).

That Server implements Dialogue is proved question by question: most steps move none
(`Movers`), and the stage depends on little (`Stays`). The other invariants say nothing of
messages that were missed, so one is added: what was lost never got to the queue, is not
in the inbox either, and does not come back (`LostInv`).

`TaskRunsProofs`, for every configuration of levels, set of rules, requests and intents:
TypeOK, Lawful, Slots, NoneLeft, Elevated, and the action property RuleEffect. A
sub-agent's story goes with its stage (`StoryInv`), a container's existence with its
thread's, or with the failure of the thread to remove it (`PlaceInv`); the outcome of `Evaluate` is characterised once, by lemmas, for
Lawful, Elevated and RuleEffect.

`MemGateProofs`, for every set of payloads, similarity, and all intervals and bounds:
TypeOK, Succession, LastWord, ColdOnce. What is left of a call is part of the invariant:
a row still to be marked is older than, and similar to, the last row, which was stored
(`MarksInv`); a fact still to be retired is outdated already (`FactsInv`); a checkpoint about to be made
is the one due now (`DueInv`). All three hold wherever the call stops, so they survive kills
and exceptions. For ColdOnce, what is saved lags behind the count by the checkpoints missed
since the last one, the one about to be made, and less than `CheckpointEvery` ingestions
(`Behind`); what was let in without the gate is at most what was counted and what the kills
made the engine forget, where a missed checkpoint is charged once: to the kill that it made
dearer, or to none yet (`UngatedInv`).

`RetrievalProofs`, for every ranking and similarity, on the same assumptions: Answers.
Induction over data is out of the prover's reach as a theorem to cite, but a least
counterexample is not: natural numbers are well-founded, so a statement about the passes
of a loop that fails has a first pass at which it fails (`Least`). `DedupIsLoop` gets from
this the function that the recursive definition defines, `LoopPasses` what holds after
each pass (`Passed`: no two of the rows it has been through are similar unless one is
gone, and the newest is there), `FoundFacts` what the tiers find. An answer stands until
the next call, and nothing it relies on is written meanwhile (`StandsInv`).

Only model-checked: liveness (Delivered, RunnerEnds, SendReturns, Replied, Fires, Ends),
which is out of the prover's reach, as ENABLED is.

Not modelled, with the reasons in `PROJECT.json`: credentials and tools (I/O, and a vault
that is never filled), skills, memory integration and configuration (wiring without state
of their own), the extension's model providers (formats of HTTP APIs), and, as the plan's
next steps, the extension's local agent, backends and panel, memory bridge and MCP client.

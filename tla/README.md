# Jarvis: a verification development

TLA+ specifications of the parts of Jarvis (a local AI assistant, `src/app`) whose
correctness depends on order, concurrency and failure; the TLC configurations that
check them; and TLAPS proofs about them. Line references are to `src/`.

Run a check with `tlc -config X.cfg M` and a proof with `tlapm M.tla` in this directory.

## 1. The system

Jarvis answers a request by asking a local language model, which may ask for tools;
a tool that changes something needs the user's approval first. The main thread runs the
terminal loop or Qt; agent requests, voice, approvals, tool executions, inference
and background memory writes run on threads of their own and meet in the objects below.

| Component | State | Operations | Meets |
|---|---|---|---|
| Approval runtime, `approval/` | rows of `pending_actions` | create, approve, reject, get, expire, cancel_all_pending, consume_approved_action | tool executor (creates, consumes), prompts and views (decide), application (cancels) |
| Approval center, `gui/approval/` | one worker thread, lists on screen | resolve_action, the worker's `run` | approval runtime, and its table directly |
| Tool executor, `tools/executor.py` | thread pool, cancellation flag, the tools' approval slot | execute, cancel_execution, shutdown | approval runtime, tools |
| Desktop tools, `tools/builtin/desktop.py`, `services/desktop/` | slot per tool, window registry | execute, get_approval_metadata, the foreground guard | tool executor, approval runtime |
| Inference scheduler, `ai/scheduler.py` | heap of jobs, lifecycle, one worker, metrics | start, submit, execute, shutdown | LLM manager, memory extraction and resolution |
| LLM manager, `ai/manager.py`, `ai/providers/` | active provider and its client | generate, generate_stream, reload_provider | scheduler; reloads in the caller's thread |
| Memory, `memory/` | rows, coordinator's pool and pending futures | submit, flush, shutdown; extract, resolve, write | scheduler (below the foreground) |
| Agent, `agent/` | conversation, one active plan | process_request, process_request_stream, resumption | planning, tool executor, approval runtime |
| Task planning, `planning/` | steps and their statuses | create, validate, execute, resume, finalise | agent, tool executor |
| Hierarchical planner, `planner/` | task graph, stored plans | execute, pause, resume, cancel, recover | tool executor |
| Voice, `voice/` | runtime, session and playback state | listen, process, speak, barge-in, stop | agent, approvals |
| Conversation, `conversation/` | sessions, numbered messages | add_message, close_session, context window | agent |
| Plugins, `plugins/` | plugins by state, listeners | load, enable, disable, reload, shutdown | tool registry, event bus |
| Application, `core/` | container | initialize, run, shutdown | all of them, in an order that matters |
| User interfaces, `ui/`, `gui/` | Qt views and workers | send, approve, toggle voice, close | agent, approvals, application |
| Knowledge, vision, observability, services | indexes, counters, the operating system | | agent, tools |

What is hard, and what makes each component correct:

* *Approvals.* Every manager method is expire, read, write: three SQL statements on three
  connections. Only `atomic_consume` tests and sets. Correct means: an execution has an
  approval of its own, an approval is spent once, a rejection is final, also with expiry
  in between, errors, restarts and a shutdown that rejects what it listed a moment ago.
* *Scheduler.* A worker and any number of clients; correct means that nothing accepted is
  lost, urgent classes go first and in order, an operation that raises does not end the
  worker, shutdown drains and ends, the metrics add up.
* *Tool executor.* A call outlives its timeout as a task; correct means that a launch is
  covered by its own approval, that nothing leaks from one call to the next, that shutdown
  starts nothing, that a hung tool does not hang its callers, and that a confirmed tool
  acts where its user meant.
* *LLM manager and memory.* Retries and streaming pass the scheduler by; a background
  memory job needs the scheduler, so the application must stop things in the right order.
* *Agent and planning.* One slot for a suspended plan and many ways to leave it: a second
  request, a revision, an exception. Correct means that the plan resumed is the plan that
  was suspended, and every step is executed at most once.
* *Hierarchical planner.* Recovery that resets its own bound; flags set from outside while
  the executor writes them; node ids shared by stored plans.
* *Knowledge.* An index in memory beside two tables, filled and emptied by tool calls that
  outlive their timeouts; correct means that a removed document stays away.
* *Chat workspace.* Workers answer in any order into sessions that are switched meanwhile,
  and without an agent a worker acts on the desktop itself; correct means that the history
  is saved unless a write fails, an answer stands beside its prompt, and nothing is lost that was not alluded to.
* *Files and names.* Every check of a path or a window precedes its effect by a moment;
  correct means that an operation changes what it names and nothing beside it.
* *Voice.* A detector driven frame by frame; correct means that an utterance is one and that
  every turn returns to where it began.
* *Conversation and plugins.* Sequence numbers under concurrent writers; a load order that
  respects dependencies; nothing registered by a plugin that is gone.

`PROJECT.json` lists these as components and, line by line, as hazards.

## 2. What is modelled

State machines, each checked by a run of its own:

| Module | Models | Kind |
|---|---|---|
| `ApprovalManager` | `approval/manager.py` on `approval/repository.py` | detailed |
| `ApprovalContract` | what one action's row may do | abstract |
| `ApprovalCenter` | `gui/approval/worker.py`, `controller.py` on top of `ApprovalManager` | composition |
| `InferenceScheduler` | `ai/scheduler.py` | detailed |
| `PriorityService` | one queue per class, one request at a time | abstract |
| `ToolExecutor` | `tools/executor.py` with the desktop tools' guard, on `ApprovalContract` | composition |
| `AgentSession` | `agent/controller.py`, `agent/runner.py`, `planning/`, the approval loops of `core/application.py` and `ui/` | composition |
| `PlanExecutor` | `planner/executor.py`, `graph.py`, `recovery.py`, `repository.py`, `manager.py` | detailed |
| `ModelAccess` | `ai/manager.py`, `ai/providers/ollama.py`, the scheduler as its callers see it | detailed |
| `MemoryCoordinator` | `memory/coordinator.py`, `write_service.py`, the shutdown order, on `ModelAccess` | composition |
| `ChatController` | `gui/chat/controller.py`, `models.py`, the life of a `ChatWorker` | detailed |
| `KnowledgeStore` | `knowledge/ingestion.py`, `index.py`, `repository.py`, `manager.py` | detailed |

Sequential code, as functions, which TLC compares with a reference definition or searches
for the inputs that break it, in an `ASSUME` of an MC module:

| Module | Models | In |
|---|---|---|
| `Chunker` | packing segments into chunks, `knowledge/chunker.py` | `MCKnowledge` |
| `PluginLifecycle` | `plugins/loader.py`, `lifecycle.py`, `manager.py`, `events.py` | `MCKnowledge` |
| `ContextWindow` | `conversation/policy.py` | `MCAgent` |
| `VoiceTurn` | `voice/vad.py`, `listen_once`, `listen_and_process` | `MCAgent` |
| `ModelReplies` | `planning/router.py`, `parser.py`, `validator.py`, `ai/parser.py`, `memory/parser.py`, an iteration of `AgentRunner` | `MCAgent` |
| `FileTools` | `services/filesystem/service.py` with the file tools | `MCToolExecutor` |
| `NameLookup` | the application and the window resolver | `MCToolExecutor` |
| `ToolCatalogue` | every tool of `tools/builtin/`, `tools/base.py`, `tools/filter.py` | `MCToolExecutor` |
| `DesktopControl` | `services/desktop/policy.py`, `service.py`, `backend.py` | `MCToolExecutor` |
| `MemoryJudgement`, `MemoryRecall` | `memory/validation.py`, `resolver.py`, `resolution.py`; `related.py`, `retrieval.py`, `context.py` | `MCMemory` |
| `ConversationStore` | `conversation/repository.py`, statement by statement on two threads | `MCChat` |
| `ApplicationLife` | `core/application.py`, `core/bootstrap.py`, `main` | `MCChat` |
| `DesktopCommands` | `gui/chat/worker.py`: what a prompt does to the desktop | `MCChat` |

`ApprovalManagerProofs`, `InferenceSchedulerProofs`, `ToolExecutorProofs` (with `FileTools`),
`KnowledgeStoreProofs`, `AgentSessionProofs` (with `VoiceTurn`), `ChatControllerProofs`,
`PlanExecutorProofs` and `MemoryCoordinatorProofs` (with `MemoryJudgement`) hold the theorems.

**ApprovalManager.** `status` is the status column; `lapsed` says whose `expires_at` has
passed. Each repository statement is an operator (`Insert`, `UpdateStatus`, `AfterExpiry`,
`Consumable`, `Pending`) and each manager method one action per statement, with `step` as
the program counter of the calling thread: `approve` is `BeginDecision` (expire),
`ReadForDecision` (read, raise unless PENDING), `WriteApproved`. `DatabaseError` is an
`ApprovalPersistenceError` at any statement; `Restart` loses the calls and keeps the rows.
Payloads are abstracted to whether they match the approved ones. `approvals`, `runs` and
`refused` are history variables: what callers were told.

**ApprovalCenter** adds the worker's program: ask the manager, read back, and when either
failed write the decision to the table directly; then make the directory. The manager's
steps are those of `ApprovalManager`, taken by the thread `Worker`. The case of a worker
without an approval manager is left out: it goes straight to the same fallback.

**InferenceScheduler.** `queue` is the heap, a set with `__lt__` as `Before`; the worker
takes a least element. `submit` is one step under the lock, including its metrics; the
one thing another thread can do inside is take a job before `qsize()` is read, which is
why `depth` may come out one lower. `Succeed`/`Fail` resolve the future and `Count` counts it in
a later step, as the code does. `shutdown` is `Shutdown` and then `Joined`, or `JoinRaises`
when the worker was never started. An operation returns or raises; what raises past
`except Exception` is not modelled.

**ToolExecutor.** Each call is made once, by one of `MaxCallers` threads, and walks through
`execute()`: `Begin`, `Authorize`/`Suspend`/`Refuse`/`Admit`, `Launch`, `Submit`, then `Collect` or `Timeout`.
Its task walks through the pool: queued, `Start`, `ReadSlot`, `Act` or `Raise`. `slot` is
`current_approval_action_id`, an attribute of the tool that all calls share. The approval
table moves as `ApprovalContract` lets it where calls overlap. One confirmation tool stands for all; arguments
are not modelled. `cleanup()` hooks are left out: no tool has one.

**AgentSession.** One request at a time walks through `process_request`: `HearRejection`,
`ResumePlan`, `ResumeDirect` and `Route` are what it makes of the action it was given, `Draft`
plans, the steps run, ask, fail, revise the plan, and `Look`/`Decide` are the front end's
approval loop. `Fail` is an exception at any of the calls in between, reading the action
included. `plans` holds plan objects in
the order of their creation; `active`, `root` and `plan` refer to them, as the Python
variables do, so that two names for one plan stay two names. `last` is the action the
conversation's last message asks to confirm, from which the next request takes its id.
`cancelled` is a history variable: the actions for which a call has said "Execution cancelled".

**PlanExecutor.** A loop of `execute_plan` is a thread with its own `graph`, read from the
rows and written back row by row; `flag` is `_active_plans`. `stored` is what a loop found
in the tables when it began, `done` what was really executed and verified. `Crash` forgets
loops and flags and keeps both tables. `nodeRow` is keyed by the node's id alone.

**ModelAccess** and **MemoryCoordinator.** `generate` calls through the scheduler, retries
and reloads; `generate_stream` goes to the provider directly and holds its lock between
chunks. `Writer` runs memory jobs through the same model. `Shutdown` is the order of
`Application._shutdown_services`. A memory is what the duplicate check tells apart.

**ChatController.** Each handler of the window thread is one action with the save it ends
in, which may fail or leave the file cut off (`Save`), as the end of the program may (`Restart`).
`NoteDecision` is the main window's note that an action was decided, of which only the save counts. A worker ends in
a queued signal, delivered later into whichever session is active then.

**KnowledgeStore.** `docs` and `rows` are the tables, `index` the dictionary. A call of
`ingest_document` or `remove_document` is a task with one step per transaction and per
dictionary item; a failed transaction ends it where it stands.

**Functions.** `FileTools` gives each operation the tree its checks saw and the tree its
effect meets. `ConversationStore` is a state machine too, of at most nine statements, run
by a recursive function inside the assumption. `ApplicationLife` evaluates every path
through one life of the program: which stage raises, which loop runs, which shutdown step
is interrupted. `DesktopCommands` takes a prompt apart as the worker does, into the parts
its keywords are sought in. Where code sorts by floating point scores, the scores are fractions.

## 3. What the runs show

| Run | Instance | Result |
|---|---|---|
| `approval_desktop` | 2 actions, threads agent and voice, decisions and shutdown on the main thread, expiry on | types; executions never exceed approvals; consumed once; rejection final; the manager implements `ApprovalContract` |
| `approval_center` | 1 action, agent, main, worker | **violated**: `ConsumedOnce` |
| `scheduler` | 3 clients, 2 classes, 2 threads that shut down, 4 submissions | types, nothing lost, metrics, refinement of `PriorityService`, shutdown ends, everyone is answered |
| `tool_executor` | 3 calls from 2 threads, 1 worker, 1 action, 2 windows | types, launches under approvals, clean slot, nothing starts after shutdown, every call returns |
| `tool_guard` | the same | **violated**: `GuardedEffect` |
| `agent` | 1 gated and 1 plain call, 2 actions, 2 plans of up to 2 steps, 2 turns, 1 round of the tool loop | types; completed gated steps are covered by spent approvals; an approval asked for belongs to the turn; a cancelled plan stays cancelled; every turn comes back |
| `agent_refusal` | the same | **violated**: `RefusalEndsPlan` |
| `planner` | 2 loops on one plan of 3 nodes, 1 retry, 1 crash, 3 pauses, resumptions or cancellations | types; completed means done; dependencies first; a stop is heard within one node; every execution ends |
| `planner_store` | 1 loop, 2 plans of 2 nodes | **violated**: `CompletedMeansDone` |
| `memory` | desk and writer, 2 claims, 3 requests, 2 pending jobs, 2 attempts | types; no job meets a stopped scheduler; the client is in place; the bound; jobs add up; no memory twice; shutdown ends |
| `chat` | 2 prompts, 3 sessions, 2 failed saves or restarts | types; the history is saved; an answer stands beside its prompt; every prompt is answered |
| `knowledge` | 3 tasks, 3 documents, 1 restart | types; a removed document stays away; index and tables agree |

Why the bounds are enough. *Approvals*: the code relates a row only to itself, except in
the list of `cancel_all_pending`, for which two rows make first and last differ; two agent
threads make the double consumption possible; every thread may make any number of calls.
*Scheduler*: two classes and three clients give an overtaking, a tie within a class and a
job in hand; a fourth submission reuses a client. `MaxSeq` bounds submissions, so the run does not speak
about starvation of the lower classes, which the code permits. *Tool executor*: one worker
makes the pool's limit bite with two calls; the third call presents an approval again or
meets what the first two left. *Agent*: the slot holds one plan, so two plans are a plan
and its revision or a second request's; two actions let one stand for the other. *Planner*:
two nodes that may run in either order and one that needs both; two loops are a run and a
resumption beside it. *Memory*: two claims can be one duplicated or two confused; three
requests meet a bound of two jobs. *Chat*: a second prompt is what an answer can be
misplaced by; the third session is the one opened while two are in use. *Knowledge*: a
removal against an ingestion against another removal; documents differ in their chunks.

The desktop run has one thread that decides, because `Application` answers prompts, and
shuts down, on the main thread. `Expiring` is on although `Application` creates its manager
without a timeout (`core/application.py:250`): the manager supports it.

Fairness: the scheduler's worker thread runs on and every operation ends (the provider's
client has a timeout), and a `join()` whose thread has ended returns. In the tool executor
only the caller's own steps are fair, its timeout included; a tool may hang for ever. The
agent's `Work` is the code's own steps, never the user's decision; a planner's loop runs on;
in the memory run each thread runs on and the model answers; in the chat the event loop
delivers and a worker ends. Nothing is assumed of users, clocks or errors. Deadlock is not checked where the system
really stops: after a shutdown, when the bounds are used up and all calls have returned.

### What the assumptions state

* *Files* (`MCToolExecutor`): over two levels of two names with another operation between
  check and effect, an operation changes only what it names (`OverlapAssumption`,
  `NamedAssumption`). But the prohibition "Deleting the trusted root directory itself is strictly
  prohibited" (`services/filesystem/service.py:410`) is tested against the root the request
  names, so a root that lies within another one can be deleted (`OtherRootAssumption`).
* *Names*: lookup agrees with its tiers, and a match is unique or refused. A Start Menu
  shortcut to a built-in's program replaces it and drops its aliases (`AliasLostAssumption`).
* *Tools*: what is reported of a call is what happened, approval is asked before an effect, a
  listing's excerpt is honest, and the same tools are installed once. Five families of tools
  (vision, planner, knowledge, plugins, observability) answer with a `ToolResult`: they have
  acted when `json.dumps` of it raises in the agent's turn, and in a plan their failures count
  as completed steps (`EnvelopeAssumption`). The word "screen" takes `capture_screen` out of
  the offer (`ScreenAssumption`).
* *Desktop*: what is allowed is canonical, nothing stays pressed after all events were sent,
  the window focused is one the reference means. `alt+f4` is allowed and can never be sent, and an
  error half way leaves the modifier down (`HotkeyGapAssumption`); a name is looked up again at
  execution, within a limit that hides an ambiguity (`OtherWindowAssumption`).
* *Context window* (`MCAgent`): it is the longest run of recent messages that fits, and only
  moves forward. *Voice*: the detector's invariant, every turn comes back; short noises
  postpone `wait_timeout` without bound (`PostponedAssumption`).
* *Replies* (`MCAgent`): a request is planned exactly for its signals, among which "then" in
  "authentication" counts; a stream comes to the calls of the answer it is cut from; one bad
  memory costs no other. The plans that can be read and pass the validator, in the order
  they are run, are exactly the `Drafts` of `AgentSession` (`DraftsAssumption`). A synthesis
  is added "to ensure plan validity" (`planning/parser.py:120`), and a plan of as many steps
  as the prompt allows is refused for it (`OneTooManyAssumption`). Calls without a name cost
  `run` an iteration and make `run_stream` end with a reply it cannot store
  (`UnnamedAssumption`); an empty answer is shown as Python prints it, or, streamed, is an
  error (`NothingAssumption`). An infinite sequence number raises an error the parser does not
  declare (`InfiniteAssumption`), and a score that is NaN is in range (`ScoresAssumption`).
* *Chunker* (`MCKnowledge`): nothing is lost or reordered. *Plugins*: dependencies are loaded first unless
  they form a cycle, a plugin that breaks leaves the others alone, and a reload succeeds only for a
  plugin that registers no tool (`ReloadAssumption`), while `docs/PLUGIN_SDK.md:29` promises hot
  reloading.
* *Memory* (`MCMemory`): a decision costs at most the memory it names; accepted evidence is in
  the user's words; a memory unrelated to a request changes no prompt, and importance only
  orders. Evidence may end inside a word, against the comment at `memory/validation.py:86`
  (`PartialWordAssumption`).
* *Conversation* (`MCChat`): messages that are stored have distinct numbers in their order.
  *Life*: every stage binds what a later one uses, and whatever raises, all services that were
  registered are asked to stop. *Desktop commands*: what is lost was alluded to, and told as a
  deletion where something is missing (`CommandsAssumption`). But "tell me about my model"
  deletes a folder "games": "del" is in "model", "me" in "games" (`UnaskedAssumption`); the
  cancellation is looked at only with the answer's tokens; a folder that cannot be removed is
  emptied and called not found (`EmptiedAssumption`); "confirm action" reports an approval,
  without any, also when nothing was done (`ApprovedAssumption`).

### Findings

1. `approval_center`. `ApprovalManager.approve` raises for an action that is not PENDING
   ("Only PENDING actions can be approved", `manager.py:90`), but the worker takes that for a
   failure and writes APPROVED itself (`gui/approval/worker.py:48-59`). After create,
   approve, consume, a second click on Approve makes the EXECUTED action APPROVED, and it
   is consumed again, against "atomically consumes it once" (`manager.py:138`). TLC's
   trace is a shorter one, in which the worker's read back fails and the fallback repeats
   an approval that has been consumed meanwhile.
2. `tool_guard`. The approval id is handed to the task through the tool object, and the
   `finally` of `execute()` clears it (`tools/executor.py:159-181`). A task that starts
   after its call has timed out, or after an overlapping call has ended, finds none, so the
   guard, which "Guards against active window changes between approval and execution"
   (`services/desktop/service.py:256`), lets it act on any window.
3. `planner_store`. `planner_nodes` has the node's id as its primary key
   (`planner/repository.py`), and the decomposer numbers the nodes of every plan alike. A second
   plan's save rewrites the first plan's rows and leaves them with their owner, so the second
   plan has none: executed from the store, it is COMPLETED with nothing done.
4. `agent_refusal`. A rejection is acted upon when the controller reads the action
   (`agent/controller.py:203`, `792`), and that read may raise. The slot then keeps the rejected
   plan, and the approval of another action resumes it (`:240`, `:825`), against "cancels
   execution cleanly" (`tests/integration/test_blocking_approval_dialog.py:124`,
   `docs/VOICE_RUNTIME.md:92`). What does hold, and is proved, is `CancelledForGood`: once
   the controller has announced the cancellation, the plan rests.

Seen while modelling, each within the behaviour of a run that passes:

* A chat answer lands in the session that is active when it arrives (`gui/chat/controller.py:73`);
  a worker's `session_id` is never read. `cancel_generation` has no caller.
* A direct action's approval can be consumed for a stale suspended plan; a revised plan is
  suspended, but the original is resumed (`planning/executor.py:205`), so that its approval is never spent.
* Closing the desktop window during a stream leaves the provider's lock taken (`ui/app.py:392`), and the
  shutdown then waits for ever: the exception in `ShutdownEnds`.
* A document whose chunks could not be stored is listed without them after a restart; a
  removal that found the database locked brings chunks back.
* `add_message` reads the session's status and highest number before its transaction: a second writer
  loses its message to the UNIQUE constraint, and a message may enter a session closed meanwhile.
* The planner is given the memory resolution executor for its tools: the name `executor` was
  bound last by the memory wiring (`core/application.py`).
* `create_file` overwrites an existing file with empty text, without a note to the approver.

## 4. What is proved

Every invariant and action property of the passing runs, and both refinements, is a theorem; the
runs show them on small instances, the theorems for all threads, actions, clients, priorities,
calls, plans, windows, workers, documents, claims, names and limits, under the `ASSUME`s of
the modules: limits are naturals, at least one where the code takes `max(1, ...)`, dummy
values are not members of the sets they stand beside, callers are different threads, and
`Gated` and `Plain` calls do not overlap.

* `ApprovalManagerProofs`. `TypeCorrect` and `RunsApproved` hold of every deployment: the
  second follows because `atomic_consume` spends exactly what `WriteApproved` counted.
  `Once` and `RefusedNeverRuns` need `OneDecider`, that decisions and the shutdown sequence
  share a thread. The invariant `DeciderInv` then says why a stale read does no harm: the
  row a decision is about to be written to is still PENDING or EXPIRED
  (`DecisionsFresh`), a consumer holds a row that was approved, and what was refused or consumed stays
  so. Two deciding threads, or the approval center's fallback, break exactly that.
  `ManagerKeepsContract` maps every step to a step or a stutter of `ApprovalContract`. Where
  threads overlap, the contract lets a decision overtake the row's expiry and a mismatch its
  execution, since the code writes both without a second look; where one thread makes every call
  (terminal mode) `Overtaking` is false, and the invariant `CallsUndisturbed` gives the
  contract without those two exceptions.
* `InferenceSchedulerProofs`. `NothingLost` rests on `SchedulerInv`: the poison pill, once
  queued, has the highest priority number and nothing is queued after it, each pending
  future has one job, and sequence numbers are unique. `MetricsExact` follows with the
  cardinality of the finite queue. `SchedulerServesByPriority` maps the heap to one line per
  class: a job's place is the number of jobs of its class with no later number (`Place`). That every
  place of a line is taken is the pigeonhole principle (`Places`); a submission appends to
  one line (`LineGrows`), the worker's choice takes the head of the most urgent line that is not empty
  (`LineMoves`), and every other step leaves the lines alone.
* `ToolExecutorProofs`. `ExecutorInv` says that a task is queued once, that whoever's id is
  in the slot is a call that will clear it, that a consumed action has at most one call past the
  permission check, and that a closed pool has an empty queue; the four theorems follow.
* `KnowledgeStoreProofs`. `RemovedForGood` and `StoresAgree` rest on `StoreInv`: one task
  ingests a document (`IngestOnce`), a remover's list of chunks misses none that is not being
  added (`RemoverOK`), an ingestion at a stage has filled exactly the places before it (`IngestOK`), and a
  document no task is at is whole or absent (`DocOK`).
* `AgentSessionProofs`. An action belongs to the plans of the call that asked for it, and
  `SessionInv` follows it: a step waits in a plan under way only if the plan was resumed under an
  action (`WaitingResumed`), the question read off the last message was asked in this turn
  (`LastIsOwn`), and the plans of a cancelled action are neither under way nor in the slot
  (`Dismissed`), so that no approval finds them. `StepsAreApproved` compares two cardinalities: a step
  that needs approval completes only by spending one. `CancelledPlansRest` is the action
  property that `Dismissed` leaves of every step.
* `ChatControllerProofs`. `ChatInv` says that what the file holds was once shown on the screen,
  that a signal in the queue is its worker's only one (`QueueInv`), and that a prompt which
  waits and was not left behind is in the active session (`WaitingHere`): without the
  last, an answer that arrives could stand alone.
* `PlanExecutorProofs`. `TypeCorrect` and `StopsSoon` hold for any plans. `CompletionIsEarned` and
  `DependenciesComeFirst` hold for one plan in the database, `Plans = {p}`, because the rows of
  nodes are keyed by the node's id alone: with two plans they are false, which the run
  `planner_store` shows. `DoneInv` says that rows and the graphs of all loops call completed
  only what was done, and that whatever a loop is about to start has its dependencies done.
* `MemoryCoordinatorProofs`. `MemoryInv` has a part for each question: the pool's jobs are the
  coordinator's unfinished futures, each once (`PoolInv`); a submitted job is counted,
  unfinished, or is the submitter's to count, between the job's end and `add_done_callback` (`CountInv`);
  who has stopped at each stage of the shutdown, and where the client is (`OrderInv`); and the job's own
  list of memories is the table whenever it decides by it (`ClaimInv`). `JudgementSparesOthers` is
  `DestroysOnlyNamed` of `MemoryJudgement` for every finite table and every answer: the executor's
  methods exchange, change or add one row, and a destructive decision that the validator
  lets through is the model's own.
* `FileTools`, at the end of `ToolExecutorProofs`, for trees of any depth and any names:
  deletion, creation, writing and moving change exactly what they name and leave a tree. That nothing
  lies below what is no directory follows from a shortest counterexample; that a move loses
  nothing, from taking every path of the destination back to its source.
* `VoiceTurn`, at the end of `AgentSessionProofs`. `FrameKeepsInvariant`: one frame keeps
  `VadOK`, for any durations. The settings allow an end silence of 0, which is why the
  invariant allows a silence that begins in the frame that ends it.

Only model-checked: liveness (`ShutdownCompletes`, `EveryCallAnswered`, `EveryCallReturns`,
`EveryTurnComesBack`, `ExecutionEnds`, `ShutdownEnds`, `EveryPromptAnswered`), whose fairness
needs ENABLED, which the prover does not treat; and what recursive functions and folds compute
(`Chunker`, `ContextWindow`, `NameLookup`, `PluginLifecycle`, `DesktopCommands`, the texts of
`MemoryJudgement` and `ModelReplies`, the rankings of `MemoryRecall`), where an induction over data would be needed.
The other functions that TLC searches as assumptions (`ToolCatalogue`, `DesktopControl`,
`ConversationStore`, `ApplicationLife`) range over small fixed domains.

## 5. Plan

Proofs: `EverythingStopped` of `ApplicationLife` and `TurnComesBack` of `VoiceTurn`, whose
domains are finite but written as folds; the invariants of `ConversationStore`'s two writers.

Models: the repository of the approval history on screen; links in `FileTools`.

## 6. What is not modelled, and why

Views, prompts, wording and logging: no control flow depends on them. The operating
system below tools, vision, voice and the desktop backend. The language model's answers,
which are a nondeterministic choice wherever they matter. Voice engines and devices;
`VoicePipeline`, which nothing constructs, and the desktop's voice button, which finds no runtime. Knowledge search and listing, which
only read. Observability, whose counters and spans nothing reads back. Links, and the
steps within one recursive deletion. `PluginManager.initialize()` is modelled, though the application
never calls it, since the plugin tools reach the same manager.

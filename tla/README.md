# A verification development for shinku

TLA+ modules of the parts of this repository whose correctness depends on the
order in which threads, processes and messages act; TLC configurations that
check them on small instances; and proofs, checked by TLAPS, of the invariants
that matter most, for every value of the constants.

Sources are named relative to `src/` below (`shinku/…`, `aozora/…`,
`goozam/…` are the packages of `src/src/`). Line numbers are in
`PROJECT.json`, which maps every definition to the code it stands for.

1. The system
2. The modules
3. The runs
4. What is proved
5. What is only model-checked, and what is not modelled
6. Plan

## 1. The system

shinku is a personal assistant that lives in QQ groups and private chats. A
message arrives on a webhook, waits a moment for what follows it, becomes a
*turn*, and is answered by a chat model or handed to the *Agent*, which plans
and calls tools for minutes or hours in the background. The result of that
work is worded by a model and published into the conversation it came from.
Angelos is a local workbench on top of the same Agent, goozam and aozora are
smaller, separate systems in the same tree.

```
 NapCat webhook ──► qq/host, adapter ──► attention window ──► turn dispatcher ──► chat reply
                                                                    │
 Angelos, delegation ───────────────┐                               ▼
                                    ├──► AgentService ──► task ledger (SQLite)
                                    │        │                      │ same transaction
                                    │        ▼                      ▼
                                    │   task coordinator       result outbox ──► consumer ──► wording archive
                                    │   (records + pool)                                          │
                                    │        │                                                    ▼
                                    │        ▼                                               QQ publisher
                                    └── agent loop: plan, tool, verify
```

### 1.1 The components

For each: the state it keeps, its operations, whom it talks to, what is hard,
and what makes it correct. "M" marks the ones modelled, wholly or in part.

| Component | State | Operations | Talks to | Hard behaviour | Correct when |
|---|---|---|---|---|---|
| **M** Task coordinator `shinku/tasks/coordinator.py` | records, futures, finalizers in memory; rows in SQLite | submit, retry, cancel, claim a ledger, progress, notices, shutdown, reload | thread pool, handlers, hosts | a pool thread moves between "taken from the queue", "under the lock" and "handler returned" while every public call takes the lock in between; writes may fail; crash and reload | no work is run twice at once, a receipt of "stopped" is true, the start of an attempt is on disk before its effects, queued work is served |
| **M** Agent service `shinku/agent_runtime/service.py` | ledger rows (SQLite), process-local sessions | submit, cancel, supplement, resume, a handler's slices | coordinator, ledger, agent loop | two stores describe the same work and are written by different locks; the process may die between any two of them | one writer per row, a shown end is quiet, unknown effects are not repeated, a committed result stays |
| **M** Result outbox and delivery `agent_runtime/result_events.py`, `result_expression/` | events, wordings and receipts in the ledger's database | enqueue, claim, generate, reserve, send, record, settle, prune | ledger, model, QQ publisher | leases that end while their holder works, lost answers of the platform, crashes between send and receipt | at most one publication, one paid generation, an honest account of what left |
| **M** Ingress, window and turn dispatch `qq/host.py`, `adapter.py`, `attention.py`, `turns.py` | the open batch, timers, queues, counters, revisions, images | ingest, submit, flush, serve, drain, review, publish | webhook threads, timer, executor, reviewer model | two locks, and an image download between the two critical sections of one message | no call is lost or doubled, counters stay exact, no queue without a drain, ambient replies leave over what their reviewer saw |
| **M** Aozora decision kernel `aozora/store.py`, `kernel.py`, `__main__.py` | events, attempts, entries, outbox in SQLite | begin, finish, fail, cancel, claim and resolve a delivery | a model asked outside every transaction, the terminal | late answers after cancel and retry, deliveries that move meanwhile, crashes around the print | a decision commits only over what it was shown, once per event; replies are printed at most once |
| **M** Conversation runtime `conversation/runtime.py` | turns with leases, channel revisions | begin, step, finish, permit, validate and reserve a proactive message | hosts, Agent workers | a wrapper that times out while its worker finishes; a permit that went stale | the worker's receipt wins; a proactive message leaves only over the revision it was permitted for |
| **M** Agent loop and completion gate `agent/loop*.py`, `verification*.py` | one run's history, counters, the ledger of calls | plan, call tools, verify, conclude | planner model, tools, ledger | interruption between calls, a call whose end nobody saw, counters that a restart forgets | no change is made twice or claimed without a receipt, every run ends |
| **M** Task budgets `agent/budget.py`, `qq/budget_control.py` | cumulative usage | reserve, settle, extend, write back | loop, hosts | calls in flight, copies prepared before the last call was charged | never over the granted amount by more than what is in flight, whichever work spends it |
| **M** Batch tasks `agent/batch_task.py` | items with leases | claim, finish, retry | workers | leases and a shared budget | every item ends once |
| **M** Approvals `agent/approval.py`, `pending.py`, `qq/approval_resume.py`, `angelos/permissions.py` | pending approvals in a file, levels, one-time words | put, answer, expire, set the level, wait, decide | hosts, loop | an answer meets another request, arrives late, or twice; the checkpoint it belongs to dies | what runs is what was shown and allowed, once |
| **M** Agent runtime services: file delivery, delegation, summaries, questions, query hand-over; materials | rows beside the ledger, leases, a worker | request, payload, acknowledge; submit, observe, revise, revoke; summarise; answer; promote | tool, host, another process | every call may be lost or arrive late, the process may die between two saves | a file is sent once, a task begun once, an answer used once, a result summarized once |
| **M** QQ host outside dispatch `qq/*` | turns under way, background slices, peer limits, the user's controls | decide, answer, hand over, deliver, stop | dispatcher, service, NapCat, a supervisor, another Agent | messages arriving and controls changing while a reply is written; transports whose answer is lost | the reply answers what was reviewed, its receipt says what was shown, other bots are answered a bounded number of times |
| **M** Angelos workbench `angelos/*` | conversations, turns, preparation threads, levels, its own store | prepare, submit, refresh, cancel, remove | Agent service | preparations that end after their turn was canceled | one task under way is the one shown |
| **M** Memory store and lifecycle `memory/*` | records, proposals, archive | record, propose, review, merge, retire | models | a review of a version that changed meanwhile | a reviewed change applies to the version that was reviewed |
| **M** Memory projection `memory/projection/*` | one pending job, a cache | run, invalidate, close | embedding service | timeouts and invalidation while others wait | nobody is given a result older than the last invalidation |
| **M** Agent memory `agent_memory/*` | memories, tombstones | capture, remember, forget, recall | ledger, workbench | a capture that read its source before it was forgotten | what was forgotten does not come back |
| Providers, contracts, persona, text | configuration | read, write | – | – | single transactions and pure functions |
| **M** LLM runtime `llm/*` | client, counters, circuit breaker, request ledger | call, stream, fall back, rescue, record | providers | streams that break after something was heard, retries that add up | one voice is heard per call, requests are bounded, a call in the ledger is recorded once |
| **M** Plugins `plugins/*` | records with call leases | start, call, disable, close | tools | disabling while calls run | resources close after the last call, once |
| **M** (the MCP transport) External tools, local tools `hosts/*`, `tools/*` | a loop thread, a queue of calls, child processes | connect, call, close | the world | a caller that gives up while its call is on the way | a call that is said to have had no effect had none |
| **M** Self-maintenance `maintenance/*` | repair jobs | enqueue, claim, finish, interrupted | repair agent | restarts, a daily budget | a failure is repaired at most once per revision |
| **M** (the supervisor) Supervision and instances `supervisor.py`, `instance.py` | one child, one lock file | start, watch, stop | operating system | a backend that hangs, ignores the stop, dies beside it; interrupts | nobody is left running unnoticed |
| HTTP API `api/*` | – | handlers | all of the above | – | – |
| **M** Goozam `goozam/*` | proposals, experiences | propose, evaluate, activate, revoke | models | activation against a changed base | one active proposal per place |

### 1.2 What is hard here

Nothing in this program is distributed, and nearly all of it is concurrent:
webhook threads, one timer, several executors, a summary worker and a second
host share a handful of SQLite databases, each behind a lock of its own, and
call models and platforms outside all of them. What a unit test hardly reaches
is therefore a *window*: between two critical sections of one operation,
between a commit and the next call, between a message sent and its receipt
stored, between a lease's end and its holder's next write. `PROJECT.json`
lists these windows as hazards, each at its line, with the property that
watches it.

## 2. The modules

| Module | Models | Uses |
|---|---|---|
| `TaskCoordinator` | `AgentTaskCoordinator`, its pool and its table, the status vocabulary of `tasks/status.py` | `TaskLifecycle` |
| `TaskLifecycle` | what the coordinator promises, without locks, threads or disks | |
| `AgentService` | the service, its ledger and the view of a task | extends `TaskCoordinator` |
| `ResultDelivery` | outbox, archive, consumer, publisher | `AtMostOncePublication` |
| `AtMostOncePublication` | what delivery promises | |
| `TurnDispatch` | webhook to handler | |
| `AozoraKernel` | aozora's store, kernel and terminal | |
| `ConversationTurns` | the ledger of turns, and the digest that speaks unasked | |
| `FileDelivery` | a file from an Agent task to the chat, two processes and two ledgers | |
| `RepairQueue` | repair jobs, their budget and the loop that owns them | |
| `BatchTask` | a finite batch under leases and a budget | |
| `ModelGateway` | what a learning batch may spend on its model | |
| `MemoryStore` | memories and what is derived from them | |
| `Projection` | one model call shared by many readers of changing sources | |
| `GoozamLearning` | experiences, from proposal to recall | |
| `PluginManager` | plugins, call leases, and their end | |
| `Delegation` | a task asked for in a chat and executed by an Agent in another process | |
| `Approvals` | calls that wait for the user's word, and the works they continue in | |
| `TaskBudget` | what a task may spend over all its works | |
| `AgentLoop` | the loop of a task, its counters and its ledger of changes | |
| `ModelCalls` | a call of the model: retries, stream, fallback, rescue, breaker | |
| `ToolPermissions` | the workbench's levels, and the word for one call | |
| `SupervisorHandoff` | a task that one character hands to another's Agent | |
| `Workbench` | conversations, preparations and the task they show | |
| `McpTransport` | calls of an external tool through one loop thread | |
| `QuestionAnswers` | an answer to a task's question, kept and then used | |
| `SummaryWorker` | the one summary of a result | |
| `ReplyTurn` | a message from its decision to what is published | |
| `ReplyDelivery` | the bubbles of a reply and their receipt | |
| `PeerExchange` | how often other agents are answered | |
| `AgentMemory` | experiences, tombstones and recall | |
| `LifecycleReview` | a model's opinion of whether a memory was used | |
| `Supervision` | the supervisor and its backends | |
| `QueryHandover` | a long question handed to a background worker | |
| `TaskCoordinatorProofs`, `ResultDeliveryProofs`, `AgentServiceProofs`, `TurnDispatchProofs`, `MemoryProofs`, `PluginManagerProofs`, `ComponentProofs` | theorems | TLAPS |
| `MCComponents` | `AgentService`, and 26 instances of 23 modules that share no state, side by side | `AgentService` |
| `MCMemory` | `AozoraKernel`, `MemoryStore`, `Projection`, `GoozamLearning` and the digest of `ConversationTurns` side by side | extends the five |
| `MCLive` | `TaskCoordinator` and `PluginManager` under fairness | |
| other `MC…` | instances for TLC | |

Each module's text is the reference for how its state and actions correspond to
the code; this section says what was decided.

**TaskCoordinator.** Every public method holds the coordinator's lock, so each
is one action (`Submit`, `Dispatch`, `Cancel`, `Retry`, `ClaimTarget`,
`UpdateProgress`, `ClaimNotice`, `RecordNotice`, `Shutdown`). `_run` is split
where the lock is free: the pool takes an item (`Pick`), `_run` enters
(`Start`), the handler runs, `_run` records the end (`Finish`). `on_cancel`
callbacks are called after the lock is released (`RunFinalizer`). `Restart`
is a crash at any moment followed by the reload of the table. A failed write
or a failed submission to the pool is an outcome of the same actions, enabled
by `Faults`; the write that records a refused submission may fail in its turn
(`RefusalLost`), and a write that fails while `shutdown(wait=False)` cancels its
records ends the sweep there, with later records uncanceled, the callback lost
and the pool not shut down (`SweepStopsAt`). Where the code releases and retakes
its lock on an error, in `_run`, the error path is one step. Which finished
records are pruned is a choice among the allowed victims; wording and timestamps
are left out. `lost` and nothing else is a history variable.

**AgentService** extends the coordinator instead of abstracting it, because the
interesting states are those in which the two disagree. A host's call holds
the service lock from its first read to its last write, yet the coordinator's
threads move in between and the process may die there: a call is a sequence of
stages kept in `call`. A handler's slice is `Enter`, `CheckInterrupt`, tool
calls, `Decide`, `ReadEvent`, `Commit`, `Return`. `Reconciled`
and `View` are `task_view.py`'s reconciliation of ledger and record. Authorization, budgets
and materials are granted, the planner is a choice.

**ResultDelivery** names a result by the revision of the ledger that sealed it.
One SQLite transaction is one step; so is every guard the consumer consults.
Consumers are threads of any process. Time is three deadlines that may pass
whenever they are pending: a lease, a generation, the retention of a row.
`sent` and `calls` count what really happened outside the database.

**TurnDispatch** gives each message its webhook thread, with its two critical
sections and the image download in between. The timer, the executor and its
drains, and the steps at which an ambient reply consults the dispatcher are
actions. What attention, admission and the models decide is a choice; one of the
choices is that the model asks which picture is meant, whose bubble nobody
reviews (`Clarify`).

**AozoraKernel** models every method of `Store` that writes, one transaction
each, `Kernel.handle` with its three endings, and `emit`. The model may answer
anything; `Commit` chooses the decision and applies every check of `finish`.
`Verify` is the operator's resolution of a delivery left behind by a crash:
that nobody is still printing it is his duty, and the model assumes it.

**ConversationTurns** is one private channel. Each call of
`ConversationRuntime` is one transaction and one action; around it stand the
thread of the bridge that begins a turn, the worker it hands it to, whoever
cancels it and, for one turn id, the daily digest from its permit to its
receipt. Every one of them may be late, die, or lose a write, which the bridge
traces and ignores. Time is counted in steps of the code's windows.

**FileDelivery** is two processes: the Agent's tool, which asks for a file and
waits, and the host's polling threads, which take the request, fetch, send and
acknowledge. Each has a ledger; nothing but calls, which may be lost, connects
them. A lease may lapse anywhere.

**RepairQueue** gives every process its loop with the lock file, and the day's
budget its clock; the failure a job is about was seen at any time up to its row's
creation, so that it may be stale on arrival. **BatchTask** and **ModelGateway**
are ledgers of money: every transaction is an action, and the process around it may die between any two.

**MemoryStore** is a table with everything derived from it: vectors, the
query's cache, the day's summary. Methods run under the store's lock except
where they compute, which is where they are split. Texts are three values.
**Projection** reads sources by version, shares one model call through
`SingleFlight`, and validates before it shows. **GoozamLearning** has its three
kinds of runners move under a switch that may be turned at any time.

**Delegation** is the host's handler of a message, its heartbeat and the
gateway of the other process with the worker it starts. Messages are delivered
more than once, every call between the processes may be lost before or after it
took effect, and either side may die. **SupervisorHandoff** is the same question
one level up: a link file says what was asked of the executor, and an attempt
that finds it half-written has to inspect before it asks again.

**Approvals** keeps the two stores that an answer passes through, the file of
requests and the live checkpoint of the slice that asked, which die differently.
**ToolPermissions** is the workbench's gate: a call waits on an event for a word
that may come, be revoked, time out or be overtaken by a new level.
**TaskBudget** has reservations and settlements of two threads, and copies of a
task that are written back by whoever prepared them earlier. **AgentLoop** is one
run after another over the same ledger, each with fresh counters; what the
planner and the gate say is chosen, what the loop does about it is not.

**ReplyTurn** follows one ambient turn through decision, review, tools and
publication while later messages, stops and changes of what is allowed arrive;
**ReplyDelivery** continues with the bubbles, each of which the transport may
deliver, refuse or lose. **PeerExchange** is the table with which two bots are
kept from talking for ever. **QueryHandover** promotes a turn that has used up
its share of reads: the work is made from the message's identity, so that a
message that is delivered again finds it.

**Workbench** has preparation threads that end whenever they like.
**McpTransport** has callers with their own timeouts in front of one loop
thread, **SummaryWorker** a row that is settled once by whoever is in time,
**QuestionAnswers** two saves with a crash between them, **AgentMemory** a
capture that reads its source in one transaction and writes in another,
**LifecycleReview** a worker that looks at its queue, releases its lock and only
then writes. **ModelCalls** counts requests on the wire and what the listener
heard. **Supervision** knows its child, and asks a port that answers for
whoever holds it.

**PluginManager** has the threads that call, disable and drain. A thread's
stack is flattened into what it has left to do.

**MCComponents, MCMemory and MCLive** hold components that share no state. The
initial state chooses `part`, the one that moves in a behaviour, so the states
of the parts add up. A property of such a module is the conjunction of what the
parts promise; the comment names the part. `MCMemory` and `MCLive` extend their
parts, whose constants stay theirs, so that the theorems about a part are also
about the composition (`PartsAreKept`); `MCComponents` instantiates parts with
small numbers.

The two abstract specifications say what a caller may rely on.
`TaskLifecycle`: a piece of work is absent, admitted, being worked on or
settled, a new attempt may be refused, and a settled attempt never comes back. `AtMostOncePublication`: a
result leaves once at most, and the account of it is never wrong. The detailed
modules instantiate them (`Lifecycle`, `Promise`) with a mapping of their own
state and are checked to implement them (`KeepsLifecycle`, `KeepsPromise`).

## 3. The runs

| Run | Instance | What it shows |
|---|---|---|
| `coordinator_core` | 2 tasks, 2 threads, 2 attempts, queue cap 2, a pool that may refuse; a query on a ledger and retryable work | `NoOverlap`, `StoppedMeansStopped`, `LedgerWriters` (`OneOwner` of an Agent ledger, and `FinalizerAfterStop`: what a cleanup cleans up is over), `FinishedIsFinal`, refinement `KeepsLifecycle` |
| `coordinator_limits` | cap 1, writes and submissions may fail, crashes | `PendingBound`, `DurableBeforeEffects`, `NoReplay` |
| `coordinator_live` | coordinator: 1 thread, history of 1, fairness; plugins: 2, one needing the other, 2 threads, fairness | `QueuedWorkServed`, `RunningCancelSettles`; `ClosedAfterUse`, `StoppedIsClosed` |
| `coordinator_cancel_window` | 1 task, fairness | finding: a cancel between the pool's pick and `_run` leaves the record queued |
| `delivery_core` | 2 consumers, 2 revisions, 3 claims, faults | `AtMostOneSend`, `OneGeneration`, `AccountIsTrue` (done means delivered, unresolved is pinned), `NothingIsTakenBack` (receipts and texts), refinement `KeepsPromise` |
| `delivery_stale_recovery` | 1 consumer, 1 revision | finding: recovery closes a published result as stale |
| `components_core` | the service: 1 task, 3 attempts, crash, refused admission; 2 turns of the user; 1 file in 2 attempts; repairs: 2 processes, 2 versions, 1 a day; a batch of 2 chunks, 2 runners; a gateway of 3 requests; a delegated task, delivered 3 times or followed by 2 messages; approvals of 2 tasks with 1 call, and of 1 task with 2 calls over 2 works; a budget of 2 threads, 2 grants; a loop with 1 restart; a model call; permissions of a task of the workbench, and of another host; a hand-over in 3 attempts; 2 turns of the workbench; 2 callers of an external tool; 2 answers; 2 versions to summarize; a reply with 1 later message; 2 bubbles; 1 person and 2 bots; a memory in 2 versions; 1 memory reviewed for 2 messages; 3 backends; 1 message delivered twice | `EndIsQuiet`, `LedgerLeads`, `ResultBelongs`, `UnknownIsNotRepeated`, `CommittedIsFinal` (service); `EffectsAreSingle` (files, delegation, approvals, loop, permissions, model calls, hand-overs, workbench, external tools, answers, summaries, replies, bubbles, agent memory, reviews, supervisor); `BudgetsHold` (gateway, batch, repairs, budget, loop, model calls, replies, bots, reviews, supervisor, hand-over); `ReceiptsStand` (turns, batch, summaries, reviews) |
| `service_cancel` | 1 task | finding: a cancel accepted between the handler's look and its commit |
| `service_resume` | 1 task | finding: a refused admission separates row and record for good |
| `turns_core` | 3 messages, 2 groups, 1 pool thread | `CountsAreExact`, `NothingIsLost`, `PublishIsCurrent` |
| `turns_images` | 2 messages | finding: a batch leaves without the image of one of its messages |
| `memory_core` | aozora: 3 events, 2 conversations, 2 threads, 3 attempts; memory: 1 event, its day, 2 queries; projection: 2 readers, 2 calls, 2 versions; learning: 2 candidates, 2 evaluators; turns: 1 of the user, and the digest | `OncePerEvent`, `DecisionsStand` (aozora); `DerivedFollowsSource`, `ForgottenIsGone` (memory, projection); `ExperienceIsEarned` (learning); `DigestIsConsiderate` (digest) |

Each passing run also checks the type invariants of its modules.

**Bounds, and why they are enough.** Two tasks are the smallest number for which
a ledger can have two claimants and one record's pruning can meet another's
write; two threads the smallest that can overlap. Two attempts show every
pair "old attempt, new attempt"; the service has three because recovery looks
at the attempt before the one it replaces. Two consumers and three claims let a lease be
taken over while its holder works, and the holder's successor be taken over
again. Two revisions make the first one stale. Three messages let a
batch be closed by one thread, flushed by the timer and joined by a third.
Three attempts let one be cancelled, another event be decided, and the first be
retried. Two turns let a later one close an earlier one that waits; the windows
of a conversation are one to three steps of a clock that runs past all of them.
Two attempts show a file to the task's second life; two deployments and three
days show every edge of the repairs' budget. Two runners let a lease lapse
under its holder; two readers and two calls let a call be abandoned and
replaced while it runs. The caps of the code (24 turns, 32 arrivals, 16 entries, 8 events) are
constants set to one or two, so that they are reached. `MaxAttempt`,
`MaxRevision`, `MaxVersion`, `MaxTry`, `MaxClock`, `MaxNow`, `MaxDate`, `MaxLost`,
`MaxDelivery`, `MaxGrants`, `MaxSpent`, `MaxRestarts` (of the loop),
`MaxRevisions`, `MaxRuns`, `MaxAttempts`, `MaxInputs`, `MaxStops`, `MaxLater`,
`MaxAssessed` (evaluations, and repeated revocations), `MaxSwitched`,
`MaxTools` and (of the plugins) `MaxCalls` are bounds that are not the code's;
each stands in a guard. They leave room for one repetition more than the
mechanism needs: a message that is delivered again after its first delivery was
handled, an attempt after the one that found the link half-written, a second
version after a first was forgotten, a level that is changed and changed back.
Limits of the code itself are set to the smallest value at which both sides of
the limit occur: one restart, one answer to a bot, one request a day, one job
queued, one review of a turn, two failed probes, two reads of which one is the
foreground's.

**Deadlock** is not checked: a program that waits for a message, whose attempts
are used up, has stopped legitimately.

**Symmetry** is used only where the module does not tell the members apart, and
not in runs with liveness.

**Fairness** appears in `coordinator_live` and `coordinator_cancel_window` only.
Of the plugins' threads it says that a thread goes on with what it began and
that a tool's call returns. Of the coordinator it is weak fairness of `Pick`, `Start` and `Finish` of each thread. A pool thread
that is free takes the next item, `_run` obtains a lock nobody keeps, and
handlers are bounded slices that return. Nothing is assumed of the hosts, of
the model or of the platform. The finding of `coordinator_cancel_window` is a
fair behaviour: the pool thread took the item, `_run` returned, and nothing is
left that would end the record.

**Findings.** Five runs show that the code does not do what a test, a comment or
a document of the repository says of it; `PROJECT.json` quotes both sides. Two
smaller observations have no run: a slice that yields while
`shutdown(wait=True)` drains falls through to the branch that records the
result as completed (`coordinator.py:401`), and `retry` does not repeat the
target check that `submit` makes (`coordinator.py:279`; the handler's own
claim still protects the ledger, which is why `OneOwner` holds). Three
more were met in the components modelled later and are written down where they
were met, as formulas TLC refutes or as comments: a confirmed file may be sent
again by the next attempt when its receipt was refused (`ConfirmedIsNotResent`);
a channel that is pruned between permit and reservation starts its revisions
again, so that a moved draft may pass (`DraftIsInvalidated`); and a query's
vector cache is not cleared when the lifecycle reclaims or expires an original,
so that a query that read it before may still quote it.

What the components modelled last showed, written down where it was met and
without a run of its own:

- *Approvals.* A request whose checkpoint died with the process, or was pruned, or
  whose task ran out of budget, stays at the head of the queue: every later
  message of the conversation is answered `task_checkpoint_unavailable`
  (`approval_resume.py:153`) before its expiry is looked at, although
  `docs/QQ_COMMANDS.md:77` says that it lapses. A yes that arrives between the
  request and the end of the slice that made it deletes the request and is then
  refused because the task is still active.
- *Task budgets.* `task_contracts.py:268-275` takes the smaller of the limits and
  those at the hand-over, so a later grant has no effect on a task that was a
  foreground query. A task left "running" by a crash cannot be granted more until
  it has been continued once.
- *Model calls.* Nothing asks the circuit breaker's `is_open`, although
  `circuit_breaker.py:1-7` says that it holds back later turns; running out of
  attempts is counted as a failure of the provider. After a broken stream the
  final reply may be the rescue's, with events of the stream already shown.
- *Permissions.* A word given as the wait times out may be accepted and change
  nothing. The delegated scope reads the mode before the revision
  (`qq/delegation.py:85-92`) and compares neither afterwards, so a mode lowered in
  between is granted under the newer revision.
- *Hand-overs.* A submission that never arrived makes the task uncontinuable
  (`supervisor_previous_task_unknown`); a lost answer of a revision makes the next
  attempt repeat the notes. A question whose submission is unknown
  (`query_handoff_confirmation_unknown`) is never dispatched, occupies a pending
  slot, and the user is told nothing.
- *Workbench.* `remove_conversation` refuses while a preparation is alive, yet the
  thread of a canceled one may still run.
- *External tools.* `_queue.put(…).result(2)` may raise a bare `TimeoutError`
  while the call runs (`mcp.py:196`), which is not the error that callers read as
  "unknown".
- *Questions.* After a refused admission a repeated answer gets a handle although
  the task is blocked (`questions.py:56`); an answer that was kept can no longer
  be used when the task is supplemented otherwise.
- *Replies.* The "which picture" question of an ambient turn leaves without the
  review and the look at later messages (`chat_decision.py:377`, `Clarify` in
  `TurnDispatch`; `PublishIsCurrent` is about the other bubbles), against
  `turns.py:513`. A refused HTTP exchange whose body cannot be read counts as
  surely not sent, so the next bubble may notify again, against
  `reply_delivery.py:311-313`. `/stop` ignores a failed save, so after a restart
  replies resume without `/start`.
- *Reviews of memory.* A turn that has its copies already may queue a memory
  after it was forgotten (dropped when it is processed, but kept until then,
  against `lifecycle_review.py:105-106`); `start` beside a worker that is still
  stopping returns without clearing the stop.
- *Supervision.* The probe asks the port and not the process, so a backend that
  survived its kill answers for its successor, which ends because the port is
  taken.

**Mutants.** Every property of a passing run has a mutant next to the
definition it changes (`(* Mutant: … *)`): a dropped guard, a stale status, a
swapped order. With the mutant in place TLC finds the property violated.

## 4. What is proved

`TaskCoordinatorProofs`, for every set of tasks, threads and requests, every
cap, and every pattern of failing writes and submissions:

| Theorem | Says |
|---|---|
| `InvInductive`, `Invariance` | every action keeps `Inv`; it holds in every reachable state |
| `TypeCorrect` | `Spec => []TypeOK` |
| `NeverOverlaps` | `Spec => []NoOverlap` |
| `NoFalseStop` | `Spec => []StoppedMeansStopped` |
| `WriteAhead` | `Spec => []DurableBeforeEffects` |

None of the safety properties is inductive. That a handler is alone with its
task is a fact about where the task's only *work item* is: in the pool's queue
(future pending), in the hands of a thread that has not started (running,
status queued) or executed (status running, active, start on disk). `Inv` says
that every item agrees with its record in one of these three ways and that no
task has two items. Cancel, retry and reopening keep it because they
look at the future and at `worker_active`; `Finish` keeps it because a slice
that yields puts its own item back.

About the past, in the same module and under the same generality; `StoreHolds`
says that no write fails, the pool may still refuse:

| Theorem | Says |
|---|---|
| `HistoryInvariance` | `Spec => []HistoryInv` |
| `LostStaysLost` | `Spec => []NoReplay` |
| `AdmissionHolds` | `Spec => []PendingBound` |
| `LedgerHasOneOwner` | `Spec => []OneOwner` |
| `CleanupFollowsStop` | with `Cardinality(Tasks) <= MaxPersisted`, `Spec => []LedgerWriters`, and no thread executes an attempt whose cleanup is owed |
| `CleanupFollowsStopWhileRemembered` | `Spec /\ []OwedIsRemembered => []FinalizerAfterStop` |
| `DiskIsTheTable` | `Spec => [](StoreHolds => DiskMirrorsMemory)` |
| `FinishedStays` | with `StoreHolds`, `Spec => FinishedIsFinal` |
| `ImplementsLifecycle` | with `StoreHolds`, `Spec => KeepsLifecycle`: every step is one of `TaskLifecycle` |

An attempt that died with its process comes back through the disk, so
`HistoryInv` says of the table *and* of the rows that every lost attempt lies in
the past of its record: it is a smaller number, or the record has ended. A claim
stays in the record when a new attempt begins, so claims must never be from a
later attempt than the record's. Each action is summarised once (`Summary`): it
changes the table, forgets finished records, and either leaves every attempt
going on or ended as it was (`Quiet`), or admits one record as a new attempt
(`Renews`), or lets a running one claim a free target (`Claims`). The
invariant, the finality of what has finished and the refinement are proved from
the summary. Where writes fail, `FinishedIsFinal` and `KeepsLifecycle` do not
hold: a finished record whose row was not written is failed by the next process.
`FinalizerAfterStop` says that an attempt whose cleanup is owed is over: its
record says canceled, or counts a later attempt. This is lost in one
way only: `_persist_record` prunes the record while the cleanup is owed, and the
same id is submitted again, whose attempts count from one. So the theorem is
stated twice: for any history of finished records under the condition that no
record is pruned while its cleanup is owed (`OwedIsRemembered`), and without a
condition on the behaviour where the history has room for every task. Neither
says that the cleanup has the Agent ledger to itself. `cancel` calls it after it
has left the lock, and by then another record may have claimed the same ledger
and be at work; TLC reaches that state, and what protects the ledger there is
not the coordinator but the revision `AgentTaskStore.save` compares
(`agent/task_state.py:330`), after whose refusal `cancel` drops the exception.

`ResultDeliveryProofs`, for every number of consumers, revisions, claims and
entries, with and without faults:

| Theorem | Says |
|---|---|
| `DeliveryInductive`, `DeliveryInvariance` | every action keeps `IInv`; it holds in every reachable state |
| `DeliveryTypeCorrect` | `Spec => []TypeOK` |
| `SentAtMostOnce` | `Spec => []AtMostOneSend` |
| `GeneratedAtMostOnce` | `Spec => []OneGeneration` |
| `Implements` | `Spec => KeepsPromise`: every step maps to a step of `AtMostOncePublication` or to a stutter |
| `AccountInductive`, `AccountInvariance` | `IInv` and `Accounted` are kept together; both hold in every reachable state |
| `AccountStaysTrue` | `Spec => []AccountIsTrue` |
| `NothingTakenBack` | `Spec => NothingIsTakenBack` |

`IInv` adds to the types that at most one consumer holds the reserved
publication of a result; that as long as it has not reported back the record
is in flight (sending, or given up as uncertain by a recovery) and nothing is
on the wire, and afterwards what it carries is true; that a record which says "not sent" belongs to a result that
was not; and that a result was worded by the model only if it has a record. The
lease is not part of the argument: it may end at any time, and the theorems
say that this costs nothing but a receipt of "uncertain".

`Accounted` is about what a consumer *carries*: it reads the archive's receipt
in one transaction and settles the event in a later one, so "done means
delivered" needs that the receipt it read is still the archive's (`Reports`),
that what the archive says is what is on the wire (`Truthful`), and that no step
changes a receipt once it is archived (`DeliveryStep`). That a revision not yet saved has
no event (`Unwritten`) keeps an open event's ledger from being evicted unseen.

`AgentServiceProofs`, for every number of tasks and threads, with and without
recovery, and whichever operations the hosts use. It extends
`TaskCoordinatorProofs`, whose invariants it uses as they are:

| Theorem | Says |
|---|---|
| `ServiceInductive`, `ServiceInvariance` | every action keeps `ServiceInv`; it holds in every reachable state |
| `EndsAreQuiet` | `ServiceSpec => []EndIsQuiet` |
| `RowsLead` | `ServiceSpec => []LedgerLeads` |
| `ResultsBelong` | `ServiceSpec => []ResultBelongs` |
| `UnknownIsLeftAlone` | `ServiceSpec => []UnknownIsNotRepeated` |
| `CommittedStays` | `ServiceSpec => CommittedIsFinal` |

Every step of the service is a step of the coordinator or leaves it alone
(`ServiceSteps`), so `Inv` and `HistoryInv` hold in it. What has to be added is
how two accounts of one piece of work stay together while each is written
behind its own lock. `TasksOK` says of a task that a live record carries the
session of the row's attempt, that no record is ahead of its row, that what the
pool will take has a row that is queued or running, and that a task whose
mutating call ended unseen still has that call in its row and is not queued.
`SlicesOK` says of a handler that wherever it may still act its row is queued or
running, that a tool's call is in the row before it is made, and that no handler
works for a task with an unknown call, except to raise. `CallOK` says what a
host's call has left behind for its second half.

`TurnDispatchProofs`, for every set of messages, conversations and profiles,
every pool and every limit:

| Theorem | Says |
|---|---|
| `DispatchInvariance` | `Spec => []DispatchInv` |
| `TurnsTyped` | `Spec => []TurnsTypeOK` |
| `CountsStayExact` | `Spec => []CountsAreExact` |
| `NothingGetsLost` | `Spec => []NothingIsLost` |
| `RepliesAreCurrent` | `Spec => PublishIsCurrent` |

`DispatchInv` keeps every scheduled message in exactly one place (`OnePlace`), the
turns of a queue apart with the ambient one last, a drain for every queue that is not
empty and a job of the executor for every drain, and, for the
replies, that a call queued behind an ambient turn has a later revision than
that turn has shown (`RevisionsOK`) and that what counts as reviewed was shown
(`ShownOK`). Queues and batches are sequences from which the code removes in the
middle; the lemmas about `Without`, `SelectSeq` and the greatest of a set
of numbers are in front. A step either leaves the queues, lets one turn join or
moves a drain, and where it takes each message is proved action by action.

`MemoryProofs` extends `MCMemory` and is about each of its five components and
their composition. Of the kernel (`AozoraKernel`), for every set of events,
conversations, keys and threads, every window and capacity:

| Theorem | Says |
|---|---|
| `KernelInvariance` | `Spec => []KernelInv` |
| `KernelTyped` | `Spec => []KernelTypeOK` |
| `DecidedAndPrintedOnce` | `Spec => []OncePerEvent` |
| `DecisionsAreKept` | `Spec => DecisionsStand` |

An attempt is asked outside every transaction, so what protects it is that the
store would notice. `KernelInv` says that one attempt at most runs, and only as
the last of its event (`OneRuns`, `LastOnly`); that a thread which handles or
prints has the attempt or the delivery it thinks it has, and prints it alone
(`CallersOK`, `PrintsAlone`); that replies belong to completed attempts;
that nothing rests on another conversation; and that the stored context of a
running attempt is what the store would project now, up to what became of the
deliveries it tells of (`Presented`).

Of the other four, for every set of messages, queries, readers, model calls,
experiences and runners, and every window and limit they are given:

| Theorem | Says |
|---|---|
| `MemoryInvariance` | `MemorySpec => []MemoryInv` |
| `DerivedAlwaysFollowsSource` | `MemorySpec => []DerivedFollowsSource` |
| `NothingForgottenIsEverRecalled` | `MemorySpec => NothingForgottenIsRecalled` |
| `ProjectionInvariance` | `ProjectionSpec => []ProjectionInv` |
| `NothingIsEverResurrected` | `ProjectionSpec => NothingIsResurrected` |
| `LearningInvariance` | `LearningSpec => []LearningInv` |
| `ExperienceIsAlwaysEarned` | `LearningSpec => ExperienceIsEarned` |
| `DigestInvariance` | `DigestSpec => []DigestInv` |
| `DigestStaysConsiderate` | `DigestSpec => []DigestIsConsiderate`: nothing was recorded since the permit, unless the channel was pruned or forgotten meanwhile (of that nothing is promised, see `DraftIsInvalidated`) |
| `PartsAreKept` | `MemoriesSpec` implements the specification of each of its five parts |
| `MemoriesAreTyped` | `MemoriesSpec => []MemoriesTypeOK` |
| `ForgottenStaysGone` | `MemoriesSpec => ForgottenIsGone` |
| `MemoriesAreKept` | the other properties of the run `memory_core`, of `MemoriesSpec` |

- *The store.* A query and the indexer compute outside the lock and write what
  they computed. What they write is harmless because it is written only where
  the text they read still stands, and because of three facts `MemoryInv` adds:
  nothing revoked is in use, only a day's summary has sources, and what is in
  use has a text. They are what a forget, an expiry and a reclaim have to leave
  behind, each in one transaction.
- *The projections.* A reader waits on a call that may be stopped, time out, be
  replaced or answer after all. `ProjectionInv` says that a call the table holds
  as pending is out and that there is one at most (`CallsArePending`), that an
  answer, in the call or in the cache, is that of the version it was asked for
  (`AnswersAreTheirs`), that whoever waits has a call (`ReadersAreServed`), and
  that once the projection is closed no call still out belongs to the generation
  of the cache, so no late answer reaches it (`StoppedIsSevered`).
- *The experiences.* Two evaluators of one experience look at it in one
  transaction and write in another. `LearningInv` ties what a runner holds to the
  table: what it hands out was recalled under the switch and had gained, though it
  may be revoked since; what it evaluates has still to be decided in the version it
  saw, or the table has moved on and its write changes nothing (`Informed`); what
  is active was
  assessed for good (`ActiveIsEarned`); no more are active than allowed
  (`FewAreActive`); what is revoked stays so, although `revoke` looks at no status
  and writes a new version of a revoked row; and a request was sent once for each source version, its
  folder written before it (`RequestedOnce`).
- *The digest.* Between permit and reservation the channel may move, be pruned or
  be lost. `DigestInv` says that the digest was posted once at most (`OncePosted`)
  that while it is drafted a channel which stood still has the permit's revision
  and one which moved a later one, and that what was reserved did not move
  (`MovesAreSeen`).
- *The composition.* Every step of `MemoriesSpec` is a step of each part or leaves
  that part alone (`PartsStep`), so its theorems hold there.

`PluginManagerProofs`, for every set of plugins and every relation of dependency,
any finite set of threads and any number of calls. It extends `MCLive` and
`TaskCoordinatorProofs`:

| Theorem | Says |
|---|---|
| `PluginInvariance` | `PluginSpec => []PluginInv` |
| `UseEndsFirst` | `PluginSpec => []ClosedAfterUse` |
| `UseEndsFirstBesideThePool` | `LiveSpec => []ClosedAfterUse` |
| `TablesAreTyped` | with `OrderIsGiven` and `StoreHolds`, `LiveSpec => []LiveTypeOK` |

A thread closes a plugin some steps after it looked at the lease and at the
dependents. `PluginInv` says why it may: a lease counts the threads that call;
one that was stopped and has drained stays so; and a plugin that is no longer
active gets no new dependents, because only active ones are built upon.
Which plugins a thread disables, and in which order, plays no part, so
`DependentsFirst` is not looked into. It does in the type: what a thread has left
to disable is a list of plugins because the recursion over the dependencies
returns one. That is an induction over data, which cannot be proved here;
`OrderIsGiven` states its result as a hypothesis of `TablesAreTyped`
(`manager.py:152` activates no plugin of a cycle, so the recursion ends). In the
type are the facts a reader may miss: that no more calls of a plugin run than
there are threads, and that it is closed once at most.

`ComponentProofs` takes components of `MCComponents` one by one, as instances
whose constants are its own, and proves for every value of them what the
conjuncts of `EffectsAreSingle`, `BudgetsHold` and `ReceiptsStand` say of small
ones:

| Theorem | Says |
|---|---|
| `RightsInvariance` | `ToolPermissions`: `PermissionsSpec => []RightsInv` |
| `RunsStayAllowed` | `PermissionsSpec => []RunsAreAllowed` |
| `WordsInvariance` | `Approvals`: `ApprovalsSpec => []WordsInv` |
| `WordsAreKept` | `ApprovalsSpec => []ApprovalsAreExact` |
| `BudgetInvariance` | `TaskBudget`: `BudgetSpec => []BudgetInv` |
| `SpendStaysBounded` | `BudgetSpec => []SpendSpansWorks` |
| `GatewayInvariance` | `ModelGateway`: `GatewaySpec => []GatewayInv` |
| `ChargesStayBounded` | `GatewaySpec => []SpendIsBounded` |
| `BatchInvariance` | `BatchTask`: `BatchSpec => []BatchInv` |
| `VerdictStays` | `BatchSpec => VerdictStands` |
| `BatchIsBounded` | `BatchSpec => []BudgetSpansRuns` |
| `PeersInvariance` | `PeerExchange`: `PeerSpec => []PeersInv` |
| `PeersStayRationed` | `PeerSpec => []PeersAreRationed` |
| `SummaryInvariance` | `SummaryWorker`: `SummarySpec => []SummaryInv` |
| `SummariesStaySettled` | `SummarySpec => []SummariesAreSettled` |
| `ReadyOnlyInTime` | `SummarySpec => [][ReadyInTime]_summaryVars` |
| `ReviewInvariance` | `LifecycleReview`: `ReviewSpec => []ReviewInv` |
| `ReviewsStayRationed` | `ReviewSpec => []ReviewsAreRationed`: a day's limit holds in one life of the process, a restart within the day counts from zero |
| `EvidenceStaysSingle` | `ReviewSpec => []EvidenceIsSingle` |
| `ReviewsStayCurrent` | `ReviewSpec => ReviewStaysCurrent` |
| `HandoverInvariance` | `QueryHandover`: `HandoverSpec => []HandoverInv` |
| `HandoverStaysSingle` | `HandoverSpec => [](HandoverIsSingle /\ HandoverIsBounded)` |
| `BenchInvariance` | `Workbench`: `WorkbenchSpec => []BenchInv` |
| `OneTaskStaysShown` | `WorkbenchSpec => []OneTaskShown` |

- *Permissions.* A call is looked at twice under a lock and executed after both,
  while the level moves. What carries over is the revision: `RightsInv` says that
  a call past a look is permitted by the level that had the number its task was
  granted (`Permits`), that a call with nothing before it any more has the word
  it needs (`Suffices`), and that a request is up only while its call waits.
  Levels are only ever added, so a number keeps its level.
- *Words.* The requests of a conversation are a queue in a file; an answer goes
  to its first, and the work it belongs to may be gone by then. `WordsInv` says where the
  calls of a request may be: waiting and unanswered (`Waits`), in the hand of the
  message that answers (`Held`), or carried by one work, approved and not yet run
  (`Approved`). They are in one of the three at most, so they run once.
- *Budget.* A work counts on its own ledger, the task has the one saved last, and
  a message carries a copy of either age. `BudgetInv` says that a copy which is
  still current is the saved task or one grant ahead of it (`CopyOK`); that one
  work runs at most, under the limit of the task; and that what is reserved is
  part of what the ledger counts, so that settling a call never takes it below
  what was spent (`SpentOK`).
- *Sums.* What the gateway and a batch spent is a sum over a set
  (`MapThenSumSet`), a fold, defined by recursion over subsets. That there is
  such a function, that it is the one `CHOOSE` takes, and how it moves when one
  summand does, is proved from the least number of elements for which it would
  fail (`LeastNumber`), so that no induction theorem with an operator for
  parameter is needed.
- *Gateway.* The call, its row and what the gate counts are three steps, and the
  process may die between them. `GatewayInv` compares the sum of the charges with
  what the gate counts while a call is under way (`UnderWay`) and between two
  (`Between`): only after a row that is complete does another call begin, so at
  most the last one is unknown, and at most the last one went beyond its
  reservation.
- *Batch.* A runner whose lease lapsed may still be in a call. What it brings is
  judged by the store: `BatchInv` says that the job has paid what the chunks say
  (`CallsOK`), that the seconds since the call under way began are not charged yet
  (`TimeOK`), and that the verdict is that of the chunks and of the cancellation
  (`VerdictsOK`).
- *Other agents.* The ledger of events forgets. `PeersInv` says why that is safe:
  a message that was answered is remembered or older than the window that is open
  (`AnswersOK`), one that opened a window is remembered or not fresh any more
  (`RenewalsOK`), so neither counts when it comes again.
- *Summaries.* A row outlives the process; a thread and a request do not.
  `SummaryInv` counts the slots as the threads and the callers on their way
  (`SlotsOK`) and says what the row tells those who come too late (`BriefOK`): a
  version with a thread has a row of that deadline, one without a row was never
  begun, it is generated once at most, and what was told is what the row says.
- *Reviews.* Between the turn and the opinion of the model the queue may be
  stopped, emptied or lost. `ReviewInv` needs little of it: what waits or is in
  hand is about a turn there was (`QueuedRow`, `HandOK`), and evidence is written
  in one transaction that compares it with what is stored (`EvidenceOK`).
- *Handover.* The lock is for the promotion of a message, the record survives the
  process, the live checkpoint does not. `HandoverInv` says what each has of the
  other two: a step under the lock is of the turn that holds it, and a notice
  goes out only after its claim is on disk (`PromotedOK`); the status of the record
  decides whether there may be a worker or a checkpoint (`StatusOK`), so a second
  delivery that finds the record neither announces nor runs it; and a read under a
  changed authority is the worker's last (`ReadsOK`).
- *Workbench.* `conversation_busy` was looked at long before a request reaches the
  service. `BenchInv` strengthens "one task is worked on" to what *claims* to be
  worked on, from the preparation to the end of the task (`OneClaims`), and that
  a refresh, which may fail turn by turn, never takes such a turn for finished
  (`ShownOK`).

The assumptions are those of the modules (`CoordinatorAssumption`,
`DeliveryAssumption`, `ServiceAssumption`, `TurnsAssumption`, `MemoriesAssumption`,
`PluginAssumption`): positive caps and bounds, finite sets of tasks and of
threads, a name for nobody that is no thread's and no turn's (`LimitsGiven` of
`TaskBudget`, `GatewayGiven`, `BatchGiven`, `PeersGiven`, `SummaryGiven`,
`ReviewGiven`, `HandoverGiven`; of `PeerExchange`, that no agent is a person), the
requests a service makes of its coordinator, and, of the service alone, that the
coordinator's own writes succeed. Of the coordinator and of the
delivery they are proved with failing writes too.

## 5. What is only model-checked, and what is not modelled

Checked by TLC on the instances above and not proved:

- *Liveness* (`QueuedWorkServed`, `RunningCancelSettles`, `StoppedIsClosed`), which
  the provers here cannot reach.
- `FinalizerAfterStop` where the history of finished records is shorter than the number
  of tasks and a record may be pruned while its cleanup is owed (section 4). The
  run checks it with two tasks and room for two, which is the theorem's own
  condition; beyond it there is the conditional theorem.
- That `DependentsFirst` returns a list of plugins (`OrderIsGiven`): an induction
  over the dependencies.
- `EffectsAreSingle`, `BudgetsHold`, `ReceiptsStand` and `ComponentsTypeOK` as a
  whole: each is a conjunction over up to 27 parts of `MCComponents`, whose
  constants are small. `ComponentProofs` proves conjuncts of them for every value
  of the constants instead; the others would need an invariant per part.

Not modelled inside the modelled parts: the wording of anything; hashes and
signatures; authorization (granted); prices; private chats and retained
visual context in the dispatcher, but for the question which picture is meant; deadlines of results as numbers (they are
events that may happen); SQLite's own failures other than a transaction that
raises and rolls back; of the budgets, continuous mode, recovery reviews and the
smaller budget of a foreground query; of the loop, how its flags of recovery are
set (they are assumed as `agent_recovery_resume` sets them).

Not modelled at all: the components without an **M** above. `PROJECT.json`
gives the reason for each. In short, models, tools, platforms and the operating
system are outside the program; ranking, parsing, prompts and configuration are
sequential functions of their input; the rest is the plan.

## 6. Plan

Done in this order: coordinator, delivery, service, dispatch, aozora; then the
components without shared state, from the conversation runtime to the hand-over
of questions. Left, in the order of what it would add:

1. `CommandControls`: the user's controls of `qq/commands.py`, which are read one
   by one while they change. Their effect on running work is in `ReplyTurn` and
   `QueryHandover`; saving and loading them is not modelled.
2. The maintenance workspace and the repair agent's git, `tasks/artifacts.py`, the
   journal of browser sessions.
3. Compositions: `TurnDispatch` with `AgentService` through the background slices
   of `qq/background_tasks.py`; `AgentService` with `ResultDelivery` through the
   result event written in the ledger's own transaction.
4. Theorems about the conjuncts of `EffectsAreSingle`, `BudgetsHold` and
   `ReceiptsStand` that `ComponentProofs` does not state yet.

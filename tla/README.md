# CoreAI Protocol Suite: TLA+ models and proofs

This directory holds a formal model of the CoreAI gateway (`src/src/`): the path every
model call takes (handlers, budgets, planning, router, circuit breakers, rate limiters,
providers), the work done in the background (durable agent runs, agent tasks, triggers,
workflows), the message protocols, and the services and stores around them. TLC checks
the models on small instances, and TLAPS proves the safety properties of the router and
its circuit breakers, the limiter, the throttle, budgets, tools, both message protocols,
agent tasks, agent runs, shutdown, fine-tuning, local models, keys, the books and the chat
pane for every value of their parameters.

The program is a single-process asyncio server. Python code between two `await`s runs
without interruption, so one TLA+ action is what a coroutine does between two awaits.
What makes it hard is what can happen *at* an await: other requests run, a caller goes
away (`CancelledError`), a timeout fires, an operator drops a provider or deletes a key,
the process stops. Where the code uses worker threads, child processes or several
replicas, the module says so and cuts its actions finer.

## 1. Inventory

| Part | State it keeps | Operations | Hard behaviour |
|---|---|---|---|
| Circuit breaker, `coreai/circuit_breaker.py` | state, failures, opened-at, probes in flight | `allow`, `would_allow`, `record_success`, `record_failure`, `release` | outcomes of calls admitted in an earlier period; probe slots lost or handed out twice |
| Rate limiter, `coreai/limiter.py` | semaphore, two token buckets | `acquire`, `release` | cancellation and timeout half way through `acquire`; refunds at the brim; debt |
| Router, `coreai/router.py` | tables per provider (breaker, limiter, statistics) | `route`, `stream`, `embed`, `set_provider`, `drop_provider` | retries, failover, hedging, a shared deadline, tables that change during an await |
| Retry, errors, deadline: `retry.py`, `errors.py`, `deadline.py` | counters; one deadline per request | `run_with_retry`, `compute_wait`, `classify` | time running out between attempts; waits against the deadline |
| Planning and policies: `router.py`, `policy.py` | strategies, round-robin indices, the policy file with edits over it | plan, explain, reload, put, delete | a policy, a ceiling and a fallback at once; a file that breaks between two reloads |
| Cache and accounting: `cache.py`, `pricing.py` | LRU with TTL, books per model | get, set, record | eviction at capacity; labels past the cap |
| Handlers and budgets: `api/routes.py`, `openai_compat.py`, `anthropic_compat.py`, `budgets.py`, `usage.py` | spend per subject and window, the ledger | authenticate, check, route, tool loop, stream, record | check-then-charge; disconnects; a window that rolls over during a call; eviction of subjects |
| Throttle, `api/middleware.py` | sliding window per client | admit, sweep | the edge of the minute; more clients than are tracked |
| Tools and approvals: `tools/registry.py`, `approvals.py`, `executor.py`, `mcp.py`; `mcp_client.py` | approvals, rate hits; a pipe to a child process | call, approve, expire; connect, send, retry | an approval used twice; a retry of what was carried out |
| Tasks and agents: `orchestrator.py`, `task_runner.py`, `kernel.py`, `agents/` | task states, queues, workers, agent states | submit, run, cancel, pause, health check, terminate, stop | cancellation before the first step; states set after an await; two terminations |
| Agents' queue, `agents/task_orchestrator.py` | bounded priority queue, futures | submit, dispatch, retry, cancel, stop | a full queue that a retry must re-enter |
| Shutdown, `agents/emergency_shutdown.py`, `drain.py`, `api/server.py` | drain gate, closers, signal handler | post, drain, tear down, exit | two closers; who owns SIGTERM |
| Protocols, `protocols/` | sessions, sequence numbers, replay window; queues, pending acks | handshake, seal, open; send, ack, expire | replay at the window's edge, skewed clocks, lost acks, full queues |
| Agent harness, `harness/` | a row and a task per run; triggers; workflow history | create, execute, approve, pause, cancel, kill, resume; fire; run step; compact | crash, approvals, requests between steps; overlap of firings |
| Local models, `localrt/` | child processes, ports, model files | load, evict, restart, delete; download | a server replaced under a request; a resumed download |
| Keys, `keystore.py`, `keys_api.py`, `providers/pool.py` | encrypted keys, live providers, parked keys | add, delete, reload; next key | crossing reloads; all keys parked |
| Providers, `providers/` | a local server's counters | translate, probe, complete, stream | conversations that change provider; streams that end early |
| Fine-tuning, `neural/` | jobs and their rows | create, poll, cancel, restart | answers of polls that overtake each other |
| Stores: `memory/`, `rag/`, `feedback/`, `usage.py`, `audit.py`, `backup.py`, `database/migrations.py` | rows with limits, a ring and a rotated file, archives, a schema | put, ingest, rate, record, rotate, create, restore, migrate | limits across awaits; failed writes; damage; replicas of different releases |
| Scheduler, memory manager: `scheduler.py`, `memory_manager.py` | jobs, windows of messages | register, tick, run now; add, trim | a job re-registered while it runs |
| Chat pane, `caips_tui/chat.py` | conversation, worker, busy flag | send, stop, clear, retry, rate | stopping at each await of a reply |
| CLI, SDK, other panes, guardrails, evals, observability | little | formatting and I/O | none that a model checker reaches |

**How they interact.** A handler authenticates, checks the subject's budget and calls the
router; tools the model asks for go through the registry and its approvals, and what the
providers billed is recorded in budgets and ledger. The router plans (asking every
breaker `would_allow`), then its candidate loop calls `allow`, waits for the provider's
limiter, calls the provider with retries under the request's deadline, and settles with
breaker and limiter. A hedge runs two such calls at once. The harness calls the router
for each step of a run, keeps the run's row in a database, and runs each run in a
background task that handlers talk to only through the row's `control` column; triggers
and bus events start such runs. The kernel owns the agents and the task runner, and
shutdown tears all of it down. Reloading keys replaces providers under running calls.

## 2. Modules

Every module's header says which variable stands for which field of the code.

| Module | Models |
|---|---|
| `BreakerOps`, `CircuitBreaker` | the breaker's methods as operators on a record; one breaker with its concurrent callers, the abstract specification of how a breaker is used |
| `Limiter`, `LimiterRate` | one provider's limiter; the same with a meter of how much may still be admitted |
| `Errors`, `Retrying` | the error kinds that retry, failover and breakers consult; `classify`, `compute_wait` and `RetryManager.execute` |
| `Routing`, `RoutingBreakers` | requests, their legs, the providers' breakers and slots; the refinement of `CircuitBreaker` |
| `Planning` | the plan of a request under strategies and policies; the policy file with edits |
| `Answers` | cache, books per model, unpriced models |
| `Gateway` | the handlers of the completion APIs, budgets and ledger |
| `Throttle`, `Tools`, `McpClient` | sliding windows; the tool registry with approvals; remote tools over a pipe (extends `Tools`) |
| `Tasks`, `AgentQueue` | orchestrator, task runner, agents and kernel; the queue in front of the agents |
| `Shutdown` | the ends of the gateway |
| `Housekeeping` | scheduler, windows of messages |
| `SecureProtocol` | sessions of the secure transport; two nodes, their handshake and a network that loses, repeats and reorders |
| `AgentProtocol` | the router of agent messages and its delivery modes; extends `SecureProtocol` to state what the protocols promise together |
| `Harness`, `Context`, `Triggers`, `Workflows` | durable runs; compaction; what starts runs; fixed-step workflows |
| `LocalRuntime` | supervised model servers; resumed downloads |
| `Keys` | keys and reloads; several keys behind a name |
| `Messages` | dialects of the providers; a local server's counters and the usage of streams |
| `Training` | fine-tuning jobs |
| `Knowledge`, `Ledger`, `Migrations` | memories, documents, ratings; usage, audit and archives; schema |
| `ChatPane` | the conversation of the terminal interface |
| `Selections` | list comprehensions: some elements of a sequence, in order, with the lemmas about them |
| `LimitsProofs` | theorems about what has limits: `Limiter`, `LimiterRate`, `Knowledge`, `Ledger` |
| `RoutingProofs` | theorems about `Routing` and `RoutingBreakers` |
| `HarnessProofs` | theorems about `Harness`, `Triggers`, `Migrations`, `Workflows` |
| `UnitsProofs` | theorems about parts that stand alone: `CircuitBreaker`, `Housekeeping`, `ChatPane`, `Answers`, `Keys`, `Retrying` |
| `FrontProofs` | theorems about the modules of `MCFront`: `Throttle`, `Tools`, `McpClient`, `Gateway`, `SecureProtocol`, `AgentProtocol` |
| `TasksProofs`, `ServicesProofs` | theorems about `Tasks` and `Shutdown`; about `Training`, `AgentQueue`, `LocalRuntime` and `Context` |
| `MCLimiterRate`, `MCLive`, `MCWork`, `MCFront`, `MCServices`, `MCUnits` | instances for TLC |

**Several components in one run.** `MCLive`, `MCWork`, `MCFront`, `MCServices` and `MCUnits`
each extend several components that share no variable. `focus`, chosen in the initial
state, names the component a behaviour is about; its next-state relation runs and
the variables of the others keep their values. The states reached are the disjoint union of
those of the components, so a property of a component is checked exactly as it would be
alone.

Definitions named for a defect (`ReleaseNothing`, `AdmitsOneMore`, ...) and marked
*Mutant* are used by nobody: each stands beside the definition it is a faulty version of,
and shows that a property would notice. Where a property is a conjunction of named parts,
the modules hold mutants for several of the parts; `PROJECT.json` lists one.

### Circuit breaker

`b` is the breaker's record. Time is kept as `age`, the time since the circuit opened,
saturated at `reset_timeout`; the code only compares that difference. Reading the `state`
property is what moves OPEN to HALF_OPEN (`Observed`), and `release` alone reads the raw
field. `calls` is history: it labels each call in flight as admitted by the closed
circuit, as a probe, or *stale*, that is, from a period that has ended. Every caller
settles once, as `allow` asks ("Every True must be followed by record_success/failure");
whether the router keeps to that is the question `RoutingBreakers` answers.

### Limiter

`acquire` is cut at its two awaits: the semaphore (`Queue`, `Dequeue`, `LeaveQueue`) and
the sleep (`Wake`, `CancelSleep`). The code refills buckets when they are touched; the
model refills at each tick, with units chosen so that a tick refills a whole number. Both
saturate at the capacity, so the level at each touch is the same. Waits are rounded up to
whole ticks: a caller in the model never goes in earlier than in the code. `LimiterRate`
measures the rate with `headroom`, a full bucket plus the refill since minus what was
admitted, cut off above what could ever be used: that needs no bound on time and only
makes the properties stronger.

### Routing, planning, retrying

`req[r]` is the `_route`, `_stream` or `embed` coroutine and `legs[r]` its one or two
provider calls. `Proceed` is the candidate loop from one await to the next: candidates
already tried as a hedge are passed over, open breakers refuse, and the first that admits
is called. A leg captures its breaker when it begins, as the code does. The `except
Exception` in `embed` does not see `CancelledError`, so a cancelled embedding leaves the
breaker untold. `_admit`, `embed` and the limiter's `release` go by name, which matters
once `DropProvider` and `SetProvider` have replaced the tables. In `Routing` a plan is any
order of any part of the healthy providers, the token buckets may refuse at any time, any
cache lookup may hit, and backoffs have any length: each of these is computed in a module
of its own (`Planning`, `Limiter`, `Answers`, `Retrying`).

`RoutingBreakers` adds the label of every leg as a history variable and states
`BreakerRefined`: seen from one provider's breaker, every step of the router is a step of
`CircuitBreaker`, so each admission is settled exactly once on every path, and the theorems
about `CircuitBreaker` speak about the breakers the router uses.

`Planning` computes the plan from the registry, the open breakers, latencies, health and
the policy, with scores as integers (the code's fractions multiplied by both
denominators), and compares it with what the request and the policy allow. A request has
a size, a limit on its output, and may have tools, images or a stream: candidates are screened by
the provider, by the `capability_problem` hook of a local server (down, busy, or a model not
configured for it) and by the profile of the model.

### Handlers, budgets, tools

`Gateway` suspends a handler where it awaits the router or a tool and around the chunks
of a stream; a client may disconnect at each of these. One unit of cost is what one
answer costs. `ledger` and `charged` are what was recorded in the two books; they must
agree but for the streams between their opening and their end (`AccountsAgree`). A subject
passes its cap, which may be 0, by no more than its calls between check and record and what
the table had counted of it when it dropped its entry (`counted`, `forgotten`): an eviction begins
the subject's count anew.
`Tools` holds the approval store and the rate window; a request stands for caller, tool
and arguments (the fingerprint). `McpClient` has the pipe, the lock and the process that
dies; `done` counts what the server carried out.

### Background work

`Harness`: `row` is what the database holds and all that survives `Crash`. `task` holds the
`execute` coroutines with their own copy of step and messages; of the messages only `open`
is kept, the calls of the last reply that have no result yet. `Shutdown` is `stop()`: every
coroutine leaves a checkpoint that says `paused`. `Restart` includes `start()`. A task's
done-callback is a step of its own, because asyncio schedules it, and it runs
before the first step of a task created later. Handlers reach their body through a
dependency that FastAPI resolves in a worker thread, so they may run between any two
steps. Abstracted: deadline, cost and token limits (one may trip whenever the loop looks),
the stall test, memories; compaction is in `Context`.

`Tasks` keeps queue objects apart from their registration, and workers apart from theirs:
an agent that is terminated and created anew has new ones while the old worker
may still be ending. `deleter` are requests that terminate an agent; two may do so at once.

`Shutdown` has the shutdown posted over HTTP in its modes, the lifespan of the server and
the signal; each closer holds the branches it awaits as sequences of stages, and in
`TaskRunner.shutdown()` the workers it has still to drop and the one it has popped, cancelled
and waits for: another shutdown does not find that one. `wait_for` does not return before
what it cancelled has ended, so no timeout of a whole mode comes while a worker is awaited.
`Triggers` composes triggers, the bus and budget alerts, `Workflows` a request that runs a
workflow and its history; the registry is that of `Tools`.

### Protocols

`SecureProtocol`: a frame carries the key it was sealed with, and keys are a function of
the two nonces, the equations of the cryptography. Every message ever sent stays on
the wire and may arrive again or never; clocks are skewed. `AgentProtocol`: `send` is
suspended on a full queue and while it waits for its acknowledgement; an agent's queue
outlives its registration.

### Services and stores

`LocalRuntime` cuts `ensure`, which is in a worker thread, into its look, its restart, each
turn of the loop that makes room, and its spawn; the event loop goes on between them. A
request may be cancelled in each: it gives the provider's lock back, and its thread runs on
beside that of the next request. An unload, and a turn of that loop, are one step each.
Embeddings prepare no model and go where the client points. Its second half describes files by their chunks, and a pull by its
open descriptor, so that two pulls of one file are possible. `Keys` suspends a reload where
it refreshes a local server. `Training` splits a poll into question and application, and counts
how often a job is handed to `on_succeeded`.
`Migrations` has replicas of two releases and an operator; a transaction commits as a
whole. `Ledger` lets the clock be set back; in its last part, the archives, databases are
written during `create`, processes die and entries are damaged. The remaining modules are plain stores with
their limits.

## 3. Runs

| Run | Instance | Shows |
|---|---|---|
| `limiter` | 3 callers, 2 slots, a cheap and a dear call, `max_wait` 0 and 1 tick | slots conserved, queue exact, sleeps fit (`AdmissionExact`); refusals free of charge; no more admitted than a full bucket and the refill, and refunds mint nothing (`RateExact`); the queue drains |
| `routing` | a hedged completion and a stream, 2 providers, 1 slot each, one provider registered late or dropped | slots accounted for and nothing left running (`NothingLeaks`); unavailable only when all were tried; nobody called twice or past the deadline (`AttemptsAllowed`); the router refines `CircuitBreaker` |
| `liveness` | a hedged completion and an embedding; a posted shutdown and the lifespan's own, a plain and an admin request, two background tasks, a signal | every planned request ends; a shutdown asks for the exit whatever never ends; the engine is closed in peace unless something was forced or timed out |
| `work` | 1 run, 2 steps, replies of up to 2 calls, 1 crash or shutdown; 1 agent, 2 tasks, 2 workers, 2 terminations, kernel stop | idle runs are idle; calls run once and as approved, final is final; an interrupted run moves on; one conversation per agent; a cancelled task stays so; tasks end |
| `front` | 2 subjects and calls of each kind, caps changed to 0; 2 clients; 2 tool requests; 3 remote calls; 2 nodes; 2 agents, 4 envelopes | overshoot bounded by calls in flight and evictions, and books agree; rate per minute; approvals count; remote tools at most once; frames once; exactly-once messages opened once and confirmed ones opened |
| `services` | 12 components, see below | plans and policies; books and cache; agents' queue; right server for completions, models held within their number, whole files; keys after reloads and pools; fine-tuning; migrations; context; triggers and alerts |
| `units` | 14 components, see below | the breaker under 4 callers, with threshold, window and probe limit 2; retrying; dialects; workflows; stores; scheduler and windows; chat pane |

Runs that show a disagreement between the code and what it says of itself; each is a
finding in `PROJECT.json` with the quotation:

| Run | What happens |
|---|---|
| `breaker_late_close` | a call admitted before the circuit opened succeeds after the window and closes it |
| `routing_embed` | a cancelled embedding keeps its probe slot, and the provider stays shut out |
| `harness_one_task` | two coroutines execute one run |
| `keys_reload` | two reloads cross, and a deleted key is in use again |
| `shutdown_exit` | the kernel has taken SIGTERM over from the server, so a posted shutdown never ends the process |

`CHECK_DEADLOCK FALSE` is given where the system really may stop: all calls made, all
requests ended, the process gone. `limiter` and `routing` have clocks that always tick.

**Bounds.** Two providers give every failover and hedge; a third would add another of the
same kind. One slot per limiter makes contention happen with two calls. Threshold 1 and
window 1 in `Routing` let a breaker go through all its states within one request's
retries; the focus `breaker` has the larger values. A deadline of one tick lets it pass at
every await. `MaxRegs` bounds registrations of a provider: 1 means it may be registered
late, dropped, and not come back. In `Harness`, `RunTasks` bounds the coroutines of one run
alive at once: with one, the safety properties hold; `harness_one_task` gives it two. Runs
do not interact, except through the kill switch and the process, so one is enough. In
`Tasks`, two workers let an old and a new one of the agent overlap. The capacities of
caches, tables, queues and histories (`MaxEntries`, `MaxTracked`, `MaxClients`, `QueueSize`,
`QUEUE_SIZE`, `MAX_ITEMS_PER_SCOPE`, `MaxLoaded`, ...) are one or two, so that each is reached and
passed by one; times (`MaxTime`, `MaxThrNow`, `MaxClock`, ...) reach the end of the
longest window or expiry they are compared with and, but for the triggers' hour, pass it. All
other `Max...` constants bound counters of what the environment does (crashes, restarts,
writes, turns, among them `MaxBoots`, the restarts of the triggers); the cfgs give their
values. Three pollers of one fine-tuning job are what a stale answer needs: two polls that
cross and one after them. In `LimiterRate` a tick is a minute, in which
both buckets refill whole, as in the code. The router always passes
`deadline.remaining()` as `max_wait`, so no run needs an unlimited wait.

**Fairness.** Time passes; asyncio runs what is ready; a provider call ends because each
attempt has a timeout; waiting for a limiter or in a backoff ends because both are bounded
by the deadline, and a stream by its idle timeout; an admitted call is released because of
those (`Routing`, `CircuitBreaker`, `Limiter`). In `Limiter` a queued caller may give up and
need not. In `Harness` a process that stopped is started again. In `Tasks` workers and
runs go on: what a run awaits is the router, whose calls end. In `Shutdown` the closers and
the process go on, since each of their waits has a timeout or is a call that returns;
a task that was cancelled ends, since nothing in one goes on after `CancelledError`. Nothing
is assumed of requests and of background work that nobody cancelled; only `shutdown_exit` assumes in
addition that these end, which makes its counterexample stronger. Callers, operators and humans
are never assumed to do anything.

## 4. Proofs

`UnitsProofs` proves of the circuit breaker, for every threshold, window, probe limit and finite set of
callers, from `BreakerAssumption` and `CallsAssumption`:

- `TypeCorrect`, `ConsistentAlways`: the inductive invariant is `TypeOK` with
  `BreakerConsistent`. Neither is inductive alone: that `failures` stays within the
  threshold needs that a closed circuit is strictly below it, and that an open circuit has
  no slot taken is kept only by well-typed counters. One lemma per method says what it
  does to a consistent record, and the step proof has a case per action.
- `OpenWindowAlways`: from the same invariant, that inside the window every method is the
  identity and `allow` refuses (`OpenWindow`).
- `OutcomesAlways`: the safety half of `CircuitMoves`; `StatesReached` says which states each
  method can take a record to. The other half, `AdmitsAgain`, is liveness and stays with TLC.
- `NoSlotLost`: slots counted in a half-open period never exceed the probes in flight. The
  invariant is strengthened with `IInv`; the cases are admission (one more of each), the
  end of a probe (one less of each), the end of a stale call (a slot freed, no probe gone),
  and a change of period (no slots).
- `SoundAlways` joins the two invariants into `BreakerSound`, the invariant of the run `units`.
- `HousekeepingAlways`, for any jobs, agents and message sizes. Runs and messages are counted
  one by one, as sets of units; a cancelled job is in neither tally. That the loop starts a job no sooner than an interval
  after it last did needs that it never started one in the future. In a window, numbers
  increase, and a trim that stops has made the rest fit, or has come down to `MIN_KEEP`.
- `ChatAlways`, for any number of questions and turns. What a reply was given is the window of
  the history before it, which needs that a worker's own window is the one the history would
  give now as long as its question is the last entry (`Follows`), and that the context
  of an attempt is a prefix of the history.
- `BooksAlways`, from `AnswersAssumption` (finitely many vendors): each answer adds one unit to
  one label, and a label past the cap is counted under `other`, so the named ones stay
  within the cap.
- `CacheAlwaysHonest`, about the actions of the cache, from the same assumption with a size
  of at least one, which `MemoryCache` demands. `CacheInv`: the entries have different keys, are
  no more than the size, and each is the last answer of its key with its time
  (`EntriesOK`). `CacheSetOK` looks at a full cache: after the new entry one is too many; if the
  purge takes any, nothing live goes, and if it takes none, everything was live and the
  first entry, the least recently used, goes. An entry that is found is put last (`LookupOK`).
- `KeysAlways`, from `KeysAssumption` (finitely many names) and `PoolAssumption`. Of reloads:
  unless two have crossed, every provider is one of `local.yml`, is what the keys now give, or
  is still before the reload at work; when it ends, nothing is before it. Of the
  pool: every key awake when a request began has refused it or is still before it
  (`Tried`), whatever was parked meanwhile; `OrderOK` says that the order taken at the start
  has every key that was awake, and every key if none was.
- `RetryAlways`, from `RetryingAssumption`: an exception carries at most one delay and says only
  what `classify` looks for. `ClassifyOK` goes through the statuses and the words in their
  order and compares the kind with what the documentation says of such an error. Of an
  execution, the inductive invariant (`AttemptOK`) says that one that sleeps has a try left, ends
  before its deadline and after the delay asked for; waking up is then never too early. The
  two tallies are counted by units (`TallyMoves`): one more retry of one execution is one more under
  one kind, and at most one more under one status.

`LimitsProofs` proves, of `Limiter` and `LimiterRate`, for any finite set of callers, any number of slots and any bucket
sizes and rates, from `LimiterAssumption`:

- `TypeCorrect`, `SlotsAlways`, `QueueAlways`: the inductive invariant is `TypeOK`,
  `SlotsConserved` and `QueueExact` together. They need each other: that `Dequeue` takes a
  slot for a caller that holds none is known from the queue, and that `free` stays within
  its range only from the count of holders. `OneMoves` says how the counts change when one
  caller moves; `AppendOK`, `TailOK` and `RemoveAtOK` what the queue operations keep.
- `SleepAlwaysFits`, `NothingConsumed`: `StepOutcome` says that every step but a tick moves
  one caller to a place where its sleep fits, and lowers a bucket only for a caller that
  takes a slot. It rests on `RefundedOK`: a refund in the step of its reservation restores
  the level exactly, because a level is never above the brim.
- `AdmissionAlways` joins the invariants into `AdmissionExact`.
- `RateAlways`: what the two buckets are for. The invariant says more than that `headroom` is
  never negative: what is in a bucket with *all* that sleepers have reserved is covered by the
  headroom, and, looking t ticks ahead for any t, the level with t ticks of refill and
  what the sleepers due later than t still owe is not negative. A wait is long enough to
  refill what the caller took on credit because it is rounded up; rounded down, the step of
  a reservation breaks the second part. Sums over sleepers are counts of units (`Columns`).

Of `Knowledge` and `Ledger` it proves, from `KnowledgeAssumption` (`chunk_text` demands an
overlap below the size), `LedgerAssumption` and `BackupAssumption`:

- `MemoryAlways`, `RatingsAlways`: an upsert counts its owner's rows before it adds one, so
  that an eviction makes room exactly when the new key needs it; no row that stays is
  older than the evicted one.
- `ChunksAlwaysCover`, for any text. After each paragraph, what is done with the chunk in hand holds
  every character so far (`FillingHolds`). That the recursion over paragraphs has a
  value at all is shown with the least number of paragraphs at which it would not (`FillingIs`).
- `IndexAlwaysWhole`. `RagInv`: each call that waits for its embeddings passed the check when it began,
  and the rows that are there with those the waiting calls will bring stay bounded; a
  source holds the chunks of one text because deleting its rows and writing new ones is one step.
- `LedgerAlwaysAdds`. Requests are counted as cells, one for each request of a row. A row that is
  put in its place moves those behind it with their cells (`PlacedIs`), a pruned one takes its
  own away (`RequestsCut`), and the periods of a report are columns of the same cells, by
  the hour or by the day. The invariant has in addition that no row is later than the end of the clock.
- `AuditAlways`: file and backup are the end of what was written, and each number drawn by the
  process is in it or was counted as an error; rotation drops only the old backup.
- `BackupAlways`. `BackupInv`: while the archive is untouched since it was verified, what is
  put back and what is still to be written are as the manifest says; without `--force`, nothing
  that is still to be written was there.
- `StoresAlways` joins these into the property of the run `units`.

`RoutingProofs` proves for any providers, requests, slots, attempts, registrations and
ticks, with or without hedging, from `RoutingAssumption`:

- `NothingLeaksAlways`, `UnavailableMeansAllTriedAlways`, `AttemptsAllowedAlways`. The
  inductive invariant `RoutingInv` says of each request (`ReqOK`) which legs it has where it
  is and what it has tried (`TriedTo`: the providers of the plan before its index, those it
  skips, and no others were called), and of the limiters (`SlotsCounted`) that the slots
  taken are those of the legs that hold one, as long as a limiter was registered once: after
  that, `release` by name gives back slots of the wrong one. A step is split into what it
  does to the request (`Keeps`) and to the counts (`Balanced`), a lemma for each action;
  `HeldSplit` and `RequestStep` put them together.
- `BreakerRefinedAlways`: the step simulation behind `BreakerRefined`. The refinement mapping
  labels the legs that call `Watched` as `CircuitBreaker` labels its callers. Each step of
  the router reads the breaker, admits a leg or settles one (`PeekRefined`, `AllowRefined`,
  `SettleRefined`), or changes neither breaker nor calls. With it, the theorems of
  `UnitsProofs` about it hold of the breakers the router uses. The theorem assumes that no
  request embeds: a cancelled embedding does not settle, which is the finding of the run
  `routing_embed`.

`FrontProofs`, from the assumptions of the six modules:

- `MinuteHeldAlways`: the window kept for a client is, in order, what was let through in the
  last minute, or is behind by entries that are too old to count; a client that is swept
  from the table has none that count (`ThrottleInv`, with lemmas on what dropping old
  entries and appending keep of a window).
- `ToolRunsAllowedAlways`: runs never exceed the grants because, for each request, the
  runs and the approvals still to be used are together no more than what was granted
  (`CountsOK`, `ItemsOK`), and a consumption turns one of the second into one of the first.
- `RemoteOnceAlways`: a call that may still be sent has not been sent (`SentOnce`), so that
  a retry repeats nothing. `ToolCallsAlways` joins the two into the property of the run `front`.
- `BudgetsAlways`: what a subject's entry counts is at most its cap less one (nothing, if the
  cap is 0: `Spare`), plus the most
  calls it ever had in flight (`peak`), less those it has in flight now (`Room`). A call that
  is let through needs an entry below the cap and takes one unit of room, which `peak` has
  been raised for; a call that is recorded gives its unit back as the entry goes up by one.
  `CurrentOK` and `ChargeOK` say what the table of budgets keeps: one entry per key, an
  eviction only takes entries away, and a new window only starts one at zero. Of the subject,
  whatever is evicted: all that was counted of it in the window is what its entry counts and what
  was forgotten (`CountsInv`). The accounts
  differ by the streams between their opening and their end, one call at a time (`CallMoves`).
- `FrameOnceAlways`: a node's nonces are below the next one it will draw (`FreshNonces`), and
  a session's key holds the node's own nonce of that handshake (`DerivedOK`, `SessionOK`), so
  that a new session knows no frame sealed before it. What a session has accepted it either
  still remembers or is as old as the window, at least (`RememberedOK`).
- `DeliveriesAlways`: of an exactly-once message and an agent, the copies opened, queued and
  being put are one together, at most, and none unless the message is among those already
  delivered (`OneCopy`); a `send()` that was acknowledged, or that puts a reply, is about a
  message that has been opened (`CoroOK`), and the future registered for a message is that of
  a `send()` of it (`AcksOK`). That a reply acknowledges the message of the agent who answers is
  `ReplyAssumption`, which is how `make_reply` builds one. `ProtocolsAlways` joins the two.

`TasksProofs`, for any agents, tasks, workers, queues and terminations, from
`TasksAssumption`:

- `OneConversationAlways`, `CancelSticksAlways`. `TasksInv` ties the workers together: one
  that is not cancelled is the one the runner knows for its agent, so two such workers of an
  agent are one (`OneWorker`); every run has a worker that waits for it (`Awaited`), and
  its task is the agent's current one unless the agent is dropped (`RunIsCurrent`). Of a
  task cancelled through the runner, `AskedOver` says that it is over and its run told to
  stop. `CancelledAllCancels` is what cancelling a set of tasks one by one does to the store.
- The first attempt failed, rightly: "no two runs of an agent execute unless one has been
  cancelled" is false when an agent is terminated, created anew and terminated again. The
  first worker, as it ends, pops the second one's entry of `_current`, so that the second
  termination cancels the worker but not its run; the run is cancelled when the worker gets
  to run. `OneAtATime` now allows for a run whose worker has been told to stop. The instance
  of the run `work` was too small to show it (three workers, two terminations and three tasks are needed).

Also in `TasksProofs`: `QuietCloseAlways`, for any requests, tasks and closers. The stages of a
closer are ranked (`Rank`) and those of a branch never skip one (`Stepwise`). `Level(k)` says
what is over once rank k is reached: requests, then running tasks. Every branch that is at
work has reached the level of its next stage, and a closed engine the last. A task that is
stopping was popped by a closer at work that awaits it (`Reaped`): that is what the engine's
closing by another shutdown leaves, and all that is claimed of it.

`HarnessProofs`, for any runs, calls, steps, tasks, crashes and shutdowns:

- `IdleRunsStayIdle`, `RunsKeepTheirWordAlways`, under the hypothesis `[]OneAlive`: no run
  has two tasks at once. The code means to guarantee this (`spawn`: one task per run) and
  does not, as the run `harness_one_task` shows; the theorems say that everything else follows.
  The weaker hypothesis that no two tasks *execute* a run is not enough: a second task that
  has not begun may carry an old approval to a later call. `HarnessInv` relates each task's
  copy of the conversation to the row (`TaskOK`) and the row to the calls that were carried
  out (`RowOK`): ids rise, and those still to be made are above all that ran.
- `TriggersAlways`, for any triggers, sinks, costs and caps. A trigger remembers fewer starts
  than it made: the invariant (`TrigOK`) says that what it keeps of them is their end, and
  that those it forgot are an hour old (`Latest`), so that counting what it keeps is
  counting the last hour (`RecentAreLast`, `LastHourOK`). The starts are kept for each life of
  the process (`LivesOK`): a restart forgets them. Once `watch_budgets` has looked at a window it
  has seen the present spend, and remembers of the kinds exactly those the spend has reached or
  that its first look carried over; each sink was then told of a kind once or not at all,
  according to these (`SentOK`).
- `MigrationsAlways`, for any replicas, releases and finite set of files. `MigrationsInv` says
  that the replica at work is the one that holds the lock; that what it has in hand, applied
  or not, is in no record yet (`NotYet`), so that its commit duplicates nothing; and, as
  long as no operator rolls back, that its release is covered by the records together with
  what it has in hand (`Whole`).
- `WorkflowsAlways`, for any plan, subjects, prices and concurrent runs. `FlowOK` relates a run's
  place to the results behind it (`StepsOK`), these to the handlers it started
  (`StartedOK`), the step it is at to what its subject was granted and has approved
  (`AllowedOK`), and its cost to the check before each call (`CostOK`). `RowsOK` says of the table
  that its rows are the latest ones, by number, and in the order of time: that is why
  taking away what is too old, and what is too much, leaves no gap (`EndOfRows`).

`ServicesProofs`:

- `TrainingSoundAlways`, for any jobs, pollers and restarts. `TrainingInv` says
  that a submitted job that is over, in memory or in its row, is over in the same way at the
  provider; that an answer on its way that tells of an end tells what the provider came to
  (`PollOK`); and that a job is submitted by one request only. Of a job whose polls have not
  overlapped, that one request polls it, and none once it was handed over (`Single`).
- `AgentQueueAlways`, for any items, agents, size of the queue and number of retries, from
  `AgentQueueAssumption`. `QueueInv` says that no item is in two places and that the queue
  holds it once (`OnePlace`); that a future still pending while the loop runs is about an
  item that is somewhere, uncancelled, in a coroutine nobody stops; that an item whose future
  is settled is nowhere; and that one that is somewhere has a try left (`FutureOK`). The last
  two are why a late success or a retry never contradicts a future: without them the
  property is not inductive. Every action but `stop()` moves one item (`OneMoves`).
- `RightServerAlways`, `ModelsHeldAlways`, from `LocalAssumption` (finitely many models). A child
  keeps its model for good (`Kept`), so a request that has looked one up may hold on to it while it
  is stopped, evicted or restarted, and the thread of a cancelled one too (`AskOK`, `LoadedOK`).
  The models loaded and the threads about to spawn are no more than `max_loaded` and the
  requests that were cancelled (`PlaceLeft`): only one thread belongs to a request that holds the lock.
  While none was cancelled, that one thread alone changes `loaded` besides unloads
  (`QuietInv`), so a living child is in it, or was unloaded while the thread was about to
  restart it (`torn`).
- `PulledWholeAlways`, from `DownloadAssumption`. Nothing is claimed once two pulls have
  overlapped; until then, the others are idle (`OnePulls`), only the pull at work writes, and
  a verified `.part` file stays what was verified until it is renamed (`PullOK`).
  `LocalModelsAlways` joins the three into the property of the run `services`.
- `ContextAlways`, for any window, sizes and number of turns, from `ContextAssumption`.
  `ContextInv` says of the history, and not of the prompt alone, that the task is in front and
  results stand behind their calls (`HistoryOK`): a compacted prompt becomes the history
  that later ones are cut from. `FirstKeptOK`: what is kept begins where a turn starts (`CutOK`),
  and is the last turn or fits together with a note of `NoteSize`. `CountFront` adds up the
  tokens of a list, `OneTurn` says that the last turn alone has one turn number.

All these theorems are about the specifications TLC checks, without hypotheses other than
the named assumptions on constants and the two stated above. `TasksInv`,
`QueueInv`, `LocalInv` and `DownloadInv` were first checked by TLC, on larger instances than the runs'.

Only model-checked: liveness, which has no proof rules here for fairness and ENABLED
(`QueueDrains`, `RequestsEnd`, `ExitRequested`, `RunningMovesOn`, `TasksEnd`, and of `CircuitMoves` that an
open circuit admits again); what recursive operators compute (the plans in
`PoliciesKept`, the translations in `ProvidersSound`, the bound on `TaskStore._finished`); and
the modules no theorem is about. `SelectSeq` is opaque to the provers: where a theorem is about
what a list comprehension takes, the model says it with `Picked` of `Selections`, whose
lemmas (`PickedPart`, `PickedEnd`, `LastPlaces`) say what that keeps of a sequence.

## 5. Disagreements without a run

The models also contain, and TLC has shown while they were written:

- *Router.* A slow first provider uses up the deadline (`deadline.py:5`: "so a slow first
  provider cannot consume the whole budget"). A call that outlives its provider's
  registration frees, by name, a slot of the limiter registered since (`Freeing`). A
  latecomer's `release` frees a probe's slot, so that one probe too many is let in. A
  failure on a provider dropped during the call raises `KeyError` in `_record_error` and
  is not failed over (`ErrorSeen`).
- *Harness.* A killed run waits for an approval (`store.py:146`: "Kill switch: cancel every
  active run"). A crash leaves a step with some calls answered and others not
  (`store.py:3`: "never half of each"). A pause requested after the kill switch overwrites
  it (`PauseRun`). A run that `stop()` checkpointed is `paused`, and `start()` looks only for
  `running` ones. `keep_recent` is "messages never compacted" (`config.py:23`), and
  `context.py:83` goes down to `min(keep_recent, 1)` of them. `compact` returns "messages
  that fit" (`context.py:55`), but not when one whole turn is left that is too long, and
  not when the digest or summary is longer than the 80 characters that `_over` takes it
  to have (`Fits`).
- *Workflows.* Approving a step and running the workflow again repeats the steps before it.
- *Tools.* A call refused for its rate has spent its approval ("approving it lets that one
  call run once").
- *Handlers.* An answer withheld by the output guardrail was paid for (`openai_compat.py:608`).
- *Budgets.* A subject that is dropped from the full table (`budgets.py:185`) and comes back in
  the same window starts at zero, so that it may spend its cap again; `docs/budgets.md` says
  only that the least recently used subjects are dropped (`OvershootBounded`).
- *Budget alerts.* "Emit ... once per window per subject" (`events.py:259`, `docs/events.md:8-9`), but
  a window is taken for the one before it unless its first look finds less spent
  (`events.py:273`); it then gets no alert of a kind that the one before it had (`AlertsExact`).
- *Triggers.* A restart forgets the starts of the last hour, so that a trigger may have
  `max_per_hour` starts in each life of the process.
- *Fine-tuning.* `on_succeeded` is "called once with the job when it succeeds"
  (`training.py:306`). When two polls cross, the late answer "running" of one overwrites the
  success that the other has found (`training.py:411`), and the next poll calls the hook again.
- *Delivery.* EXACTLY_ONCE is "deduped + ack" (`distributed_agent.py:61`), at-least-once is
  "retried until ack" (line 60) and messages are "retransmitted until acknowledgement is received"
  (`docs/protocols.md:274`). The code never retransmits. An exactly-once message awaits no
  acknowledgement and is marked as delivered when it is sent (line 219), also to a recipient
  that is not registered, and sending it again is then dropped as a duplicate: it is opened at
  most once, and perhaps never. `OpenedOnce` and `ConfirmedWasOpened` say what does hold.
- *Protocols.* Each side of the handshake draws its own session id, so `finish` never
  verifies; a frame exactly as old as the window may pass twice (the exception in
  `FrameOnce`).
- *Agents.* "Wait for its running task to end before the agent is shut down" holds for one
  termination; a second one does not wait. The scheduler may run a slow job twice at once,
  `stop()` leaves job tasks running, and a cancelled job is counted neither as a run nor as an
  error (`scheduler.py:132`). `set_system_prompt` does not trim.
- *Shutdown.* Background tasks are "cancelled and awaited before agents are torn down"
  (`emergency_shutdown.py:100`), but a second shutdown finds no worker that the first has popped
  (`task_runner.py:135`), and closes the database while that task is still stopping.
- *Local models.* A request cancelled inside `ensure()` frees the lock while its thread runs on
  (`provider.py:113`): two threads may spawn side by side, and pass `max_loaded`; a process that one
  of two restarts replaces is nobody's. A child restarted after an unload lives outside `loaded`,
  where nothing stops it (`supervisor.py:167`). An embedding goes to whichever child the client
  points to (`providers/local.py:292`). `max_queue` is checked when a request is planned, not when it is sent; the
  supervisor takes a booting child for unhealthy and kills it; two pulls of one file share
  its `.part`. Gemini's call ids repeat across turns.
- *Stores.* An ingest that was suspended puts back a source deleted meanwhile, and two may
  together pass the limit of a collection. `migrate down` takes no lock.
- *Chat pane.* Esc while the widgets are being added leaves the pane busy and the question in the
  history; `/clear` during a reply leaves a reply without a question; an event that is not
  JSON ends the application in the native modes; after a stopped retry a rating is about a
  reply that is no longer there.

## 6. Not modelled, and the plan

`PROJECT.json` lists every component with its status. Left out for good: provider HTTP
clients, text filtering, search and scoring, command-line and terminal layout, metrics and
logging, GGUF parsing and hardware probing, cron's calendar. They keep no state that
interleavings could damage, or are pure input and output. Of the partly modelled
components, what is left out is read-only endpoints, listings and wire formats, and the
similarity cache, whose question is one of vectors.

What could be proved next: the parts of `ProvidersSound` that no recursion computes, once
`Messages` has its recursive operators in a module of their own.

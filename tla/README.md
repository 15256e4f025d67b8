# Xyntra: formal models

Xyntra is a self-hosted control plane for language models: a FastAPI process with
PostgreSQL, Redis and Celery behind it, a web interface and command line clients in
front. It routes requests to hosted or local models under privacy and cost policies,
caches answers, runs tasks with a dead letter queue, delivers webhooks, runs missions of
agents, and keeps sessions, artifacts and prompt templates.

This directory holds TLA+ specifications of those parts in which the order of events
matters, TLC configurations that check them on small instances, and TLAPS proofs that
what is checked there, liveness apart, holds for every instance. `PROJECT.json` maps
every definition to the lines of `src/` it models, lists the runs, the mutants that show
each property can fail, the hazards and the findings.

Run a check with `tlc -workers 2 -config MCRouting.cfg MCRouting` and the proofs of a
module with `tlapm TaskEngineProofs.tla`. The longest check, `MCServices`, takes a few minutes.

## 1. What runs where

* **One API process.** `Dockerfile` starts a single uvicorn worker. Handlers are
  coroutines on one event loop: between two `await`s a handler runs alone, at each
  `await` any other handler may run. Singletons (circuit breaker, agent registry, message
  bus, token ledger, hardware monitor) live in this process and are lost when it restarts.
* **One database session per request or job**, opened with `expire_on_commit=False`: an
  object read once keeps its values until it is refreshed. PostgreSQL runs at READ
  COMMITTED, no query locks a row and no table has a version column, so what a handler
  decides from may be stale, and SQLAlchemy writes only the columns whose value in memory
  changed.
* **Celery workers** acknowledge a job when they take it: a worker that dies loses it.
* **Redis** holds the exact-match cache and the counters of the rate limiter.

In the models a step is what happens between two awaits: one database statement or
commit, one Redis round trip, one provider or HTTP answer.

## 2. Inventory

| Component | State | Operations | Interacts with | Hard behaviour | What makes it correct |
|---|---|---|---|---|---|
| Task engine, dead letter queue (`tasks/`, `services/task_service.py`, `workers/dlq_worker.py`) | `tasks`, `task_runs`, `dead_letter_queue_entries` | create, plan and queue, start, complete, fail, push, retry, discard | event bus, planner | stale copies, two commits per retry, death between commits | a status always belongs to a run; runs obey the table; requeued entries have a run; without overlap the engine is the state machine |
| Event bus and webhooks (`core/events.py`, `workers/webhook_worker.py`) | subscriptions, events, jobs | subscribe, change, delete, emit, deliver, retry | every service that emits | fan-out breaking off, lost answers, lost jobs | delivered means accepted; attempts agree with posts; each job settles |
| Routing (`services/routing_service.py`, `routing/`, `policies/`) | none of its own | route, stream | breaker, caches, adapters, ledger | shared state changes while a provider answers | local requests stay local; answers fit the question |
| Circuit breaker (`routing/circuit_breaker.py`) | failures and health of each provider | availability, success, failure | routing | late outcomes of overlapping calls, no half-open state | opens only after real failures |
| Semantic cache (`context/semantic_cache.py`, `services/semantic_cache_service.py`) | Redis keys with expiry, rows with vectors | look up, search, fill | routing | two caches filled from each other, a key shared by local and hosted requests | flags say where a text came from; similarity does not accumulate |
| Rate limiter (`core/rate_limiter.py`) | Redis counters | count, expire, decide | every request | two round trips, boundary of windows, lost EXPIRE | bounded grants, and an end to refusal |
| Agent fleet (`orchestrator/`, `agents/`) | registry, queues, mission results | dispatch, run, announce, kill | adapters | kills during runs, shared missions, several coordinators | registry and results agree; missions return |
| Sessions (`services/session_service.py`) | sessions, messages | create, add message, branch | event bus, memory, CLI | numbering in two statements, branch during a post | what was stored earlier ranks below; a branch is a prefix |
| Artifacts (`services/artifact_service.py`, `artifacts/`) | rows and files | save, list, export, diff | event bus | file and row are written apart, shared path | rows have whole files, later saves leave them alone |
| Prompt templates (`services/prompt_service.py`) | versions | create, version, roll back, delete | memory (preferences) | read-then-insert, deletion frees numbers | the latest is the newest |
| Projects and their state, approvals, API keys | rows | create, update, resolve, rotate, revoke | clients | overwrites by stale copies | a revocation is not lost; a verdict is one resolution; only overlapping updates are lost |
| Kernel and hardware (`kernel/`, `hardware/`) | last sample of the machine | classify, select, sample | `api/v1/kernel.py` | stale or missing samples, thresholds, rounding | secrets get a model that can be hosted; the choice is the best that fits |
| Token ledger (`memory/token_ledger.py`) | list and file | record, clear, load | routing | a thread beside the event loop, whole-file rewrite, swallowed errors | order, no entry twice, one undisturbed write heals the file |
| Spend (`services/cost_service.py`) | rows | record, dashboard | - | three reads of a table that grows | breakdowns differ by late records only |
| Task graph (`tasks/task_graph.py`) | none | resolve | task service | duplicates, cycles, unknown names | a topological order of every task, or an error |
| Contract pipeline (`services/contract_validation_service.py`) | three files per version | validate | hosted models | failure of one of several steps, two runs of one version | files of one version are of one run unless runs overlapped or broke |
| Streamed answers (`api/v1/chat.py`, `api/v1/openai_compat.py`, the adapters) | the stream | open, relay, end | routing, breaker, clients | status 200 before the provider is asked, breaks in the middle | the last event is only sent for a whole answer |
| Evaluation, comparison (`services/eval_service.py`, `api/v1/compare.py`) | none | ask several models at once | registry, adapters | results in any order, first failure | the answer is about all models and in a fixed order |
| Host client (`scripts/xyntra_host_cli.py`, `api/v1/cli.py`) | a state file per machine; context, mode and undo stack per client; the terminal | start, run, switch, branch, reset, toggle local-only, agent loop, undo, read a prompt | sessions, projects, the chat endpoint | two terminals writing one file whole, an HTTP call inside a read-modify-write, kills, input cut into pieces | a context tells its project's mode; directories stay apart; undo goes back; a prompt is what was typed |
| Packaged client (`xyntra_cli.py`) | the same state file | start, chat, run, reset, welcome mode | the host client, through the file | writes the file as it was before a request | prompts leave the machine only where that was asked for |
| Memory and context, verification, policy rules, replay, web interface, application shell | - | - | - | - | not modelled, see section 8 |

Every component, with its files and its status, is in `PROJECT.json`.

## 3. Modules

### Task engine

`TaskTransitions` is the table of `tasks/state_machine.py`. `TaskMachine` is the abstract
promise about one task: legal moves only, and at most one live run. `TaskEngine` is the
code: tables `status`, `runs`, `dlq`, the emitted `events`, and `ses`, the database
sessions with what each has in memory. One action is one round trip: `CreateTask`,
`RefreshTask`, `LoadTask`, `QueueTask`, `StartRun`, `CompleteRun`, `FailRun`,
`EmitFinished`, `PushToDLQ`, `EmitPushed`, `LoadEntry`, `RetryReadTask`, `RetryRequeue`,
`RetryCommit`, `DiscardEntry`; `Close` is a return, an exception or a death after any of
them. `WriteColumn` is the ORM's rule that an unchanged value is not written. `Serial`
says whether requests overlap. `ImplementsTaskMachine` is `TaskMachine` instantiated with
the set of tasks that have a queued or running run as `active`.

### Webhooks

`WebhookDelivery` models subscriptions being written and deleted while `emit` works
through the list it read: the commit of an event row (`EmitCreate`), the publication of
its job (`EmitDispatch`), the HTTP request with four outcomes (`Post`: accepted or not,
answered or not), the status updates and Celery's retry. `MaxRetries` and `FailedFrom` are
5 and 4 in the code; the instance uses 2 and 1, which keeps every kind of attempt: one
that may be retried, the first that marks the row failed, and one after that. `Faults`
adds deaths of process, worker and broker.

### Routing, breaker, caches

`RouteSelection` holds what `_prepare_route` computes without an await: the policies, the
filter, the order of candidates (`Rank`, one number for the sort keys of a strategy),
latency and context window, the choice, and which parts of a prompt are redacted.
`Routing` has the shared state: `breaker`, `redis` by prompt and capability, `rows` of
the similarity cache, and `calls`, each at the await it waits for: `lookup`, `search`,
`warm`, `call`, `store`, `persist`. Streams and agentic requests skip the caches.
`Cancel` is a cancelled coroutine, `Restart` the process starting anew, `Expire` the
hour's end in Redis. Prompts are values; their similarity is a relation.
A request has a `name` for its model, which the registry may know (`Resolves`). It narrows
the choice, and it is also what the adapter sends: the name of the chosen capability never
reaches the provider, which answers only to the names it serves (`Serves`). So an `Answer`
has the prompt, the provider and the name it was written under, while the caches file it
under the chosen capability.

### Rate limiter

`RateLimiter` separates INCR from EXPIRE, keeps for the property the grants of a sliding
window, each with its age and its number in the counter, and in `stuck` the callers whose
EXPIRE was lost.  A request that Redis failed to count passes and is no grant.

### Agent fleet

`AgentMission` models dispatch, the tasks of workers, the coordinator, announcements
over the bus and kills, for several dispatches that may share a mission. `at` is how far
the task of an agent came, whatever `state` the registry shows: a kill changes only the
latter. Agents are numbered in the order of registration, so any crew fits the bound.

### Records

`Requests` is the pool of client requests in flight; `SessionLog`, `ArtifactVersions` and
`PromptVersions` are the three services that number by `max + 1` in one statement and
insert in a later one; `Workspace` composes them in one process, with `Fail`, a handler
dying between any two statements. `seen` in messages, saves and versions is history: what
was committed when the request was sent. It lets properties speak of requests that
overlapped and of those that did not.

### Command line clients

`CliContext` is the state file `file`, the part of the server it refers to (`project`,
`owner`, `spoken`) and `term`, what the client at each terminal is about to do. Every
change is two steps, as in the code: the whole file is loaded (`Loaded`), and the changed
copy is written later (`SaveState`); `ensure_context` has a third step in between,
`EnsureCliContext`, the endpoint of `api/v1/cli.py`. `AgentLoop` extends it with what
happens to a prompt: `RunAgent`, `SaveQuestion`, up to `MaxSteps` calls of the model
(`CallTool`, `SendBack`, `WriteOutCode`, `Answer`, `GiveUp`), `NoteModel`, and the second
attempt after a generic answer (`Review`); and with the files agents write and the `undo`
stack of each client. `Quit` is every end of a client, a kill during a write included,
which leaves the file `Torn`. A client that cannot go on (a torn file, a session that is
not found, a directory missing from the file) has no step but `Quit`.

`PackagedCli` adds the second client of the same file: it asks for its context before
every prompt (`Contacting`, `Contact`), writes back the file as it was before that
request, sends the prompt in the mode of its command line, and afterwards stamps that
mode on the context (`Stamp`). `PromptReader` is the raw terminal: bytes arrive in pieces
of any length, the markers around a paste are six bytes each, and a lone escape is told
from half a marker by 50 ms of silence. Each piece is decoded by itself, so of a character
of several bytes (`Width`) that two pieces share there remain a replacement character for
the bytes in the first piece (`torn`) and one for each byte that follows (`rest`). Which
characters this will happen to is chosen at the start, in the prophecy variable `heard`,
and `ReadBytes` can only end a read in accordance with it: at every `torn`. `Meaning` is
the reference: the acts as heard, one at a time (`Understood`).

### Administration

`Administration` uses the pool of requests of `Requests` for API keys, approvals, projects
and the state document. An update is a load and a flush; `Flushed` is the rule of the ORM
that only columns whose value differs from the loaded one are written. `updates` is
history: what each update loaded, set, and which ones came before it. The properties
compare the rows with what some serial order of the updates would leave.

### Kernel and hardware

`KernelSelection` is the classifier (patterns found and a word count stand for the text),
the table of models by memory, and the selection for the last sample, which may be older
than the machine is (`MachineChanges`, `SampleNow`, `KernelDecide`). Memory is in MB and in
tenths of GB, with the rounding of the code. `Fitting` counts through the table as the
loop does; `Ranking` is Python's stable sort, which the comparison of models shares.
`MCKernelSelection` has the real table, and machines on both sides of its thresholds.

### Token ledger, spend, contracts, task graph

`TokenLedger`: the event loop records, threads of the pool clear (the handler is a plain
function), and each dumps, opens and writes the file in steps that other threads may come
between; `Restart` reads it again. `SpendAnalytics`: the dashboard's three reads with
records stored in between. `ContractPipeline`: three stages that may fail, three files,
several terminals, sources whose names give the same file name. `TaskGraph`: the ordering
loop, compared with what a topological order is, over every plan of up to three tasks. Its
edges are pairs of a task and a place in that task's dependencies, so a dependency that is
named twice counts twice, as in the lists of the code.

### Streams and comparison

`ChatStream` follows one streamed answer: pieces of the provider (some unreadable), the
adapter that streams or waits, the end as `stream_route` and the endpoint see it, the
events on the wire, and the client, for which every end of a response looks alike.
`ModelComparison` resolves names against the registry, calls all models, and answers when
`gather` does.

`MCServices` checks these components, which share no state, in one run: `focus` chooses
the component a behaviour is about, the others stay in their initial states, and so the
state spaces add up.

## 4. Runs

| Run | Instance | Shows |
|---|---|---|
| `task_engine` | 1 task, 3 runs, 1 entry, 2 overlapping sessions, 2 retries | a status is always that of a run of the task; runs obey the table although tasks may not; requeued entries have their run; count and history of an entry agree |
| `task_engine_serial` | 2 tasks, 3 runs, 1 entry, sessions one at a time | the engine implements `TaskMachine`, deaths included |
| `task_engine_stale` | as `task_engine` | **finding**: overlapping requests move a status along an edge the table forbids |
| `webhooks` | 2 subscriptions, 2 events, 1 emission, all faults, fair workers | what a row says about its deliveries; a fan-out is complete or broke off; each job settles its row or is lost |
| `routing` | 3 prompts in a chain of similarity, 3 capabilities and a name of none, 3 calls, threshold 2, all faults | local requests are answered by Ollama or from answers of Ollama; an answer is of the chosen provider, of no other registered model than the chosen one, and at most one similarity away from its question; the breaker opens for real failures only, and stays open for ever once nobody is calling |
| `routing_scrub` | every request, 4 capabilities, 1 call | **finding**: personal data outside the last message goes to a hosted provider |
| `rate_limit` | 1 caller, 3 requests at once, limit 2, window of 3 ticks, all faults, fair clock | at most twice the limit in any window; a caller that is refused is let in again unless its EXPIRE was lost |
| `missions` | 3 agents, 2 dispatches, 2 missions, kills, fair event loop | registry and results agree; the coordinator sees every worker's output and nothing else; missions return |
| `workspace` | 2 clients, 2 requests each, 2 sessions, 1 artifact, 1 template, deaths | what was stored before a request was sent ranks below it; a branch is the prefix it was taken at; version files are there, whole, and left alone; the latest prompt is the newest |
| `host_cli` | 2 terminals, 2 directories, 1 file, `MaxTyped` 8, 2 steps of the loop, 2 undo entries, kills | a context tells its project's mode, so a local project stays local; directories never share a project or session; `/undo` leads back in order |
| `services` | ten components: the real table of models with 5 kinds of pattern; 3 ledger entries and 3 threads; 2 spend records; 2 terminals, 3 contract runs; all plans of 3 tasks; 2 administrators with 2 requests; 2 clients, 2 directories, `MaxTyped` 6; 4 pieces of a stream; up to 3 models; up to 4 acts at a terminal, with a character of 3 bytes | the properties of section 3's other modules |
| `kernel_hosted` | the kernel of `services`, on eight cards of 45 GB | **finding**: a request with a secret is given, as its first choice, a model that is reached over the network |

Each property of a passing run has a mutant in `PROJECT.json`: a version of one mapped
definition with a plausible bug, under which TLC finds that property violated.

### Why the bounds are enough

The interesting cases are races of two parties, so two overlapping sessions, dispatches
or clients are the minimum, and three calls are used where a third can benefit from what
two others did (a chain of two cache fills; a success arriving after two failures). Three
runs of a task allow a first execution and two retries. The longest chain of causes in
each property - queue, fail, push, retry, retry; post, post, branch, post; count, lose
EXPIRE, refuse - fits the bound, and the mutants show that each property is reached.
Three agents allow a coordinator with two workers and two coordinators with one.
`MaxTyped` counts two for a command and three for a prompt, so a behaviour holds four
commands (start and reset in one terminal, start and switch in the other) or two starts
and a prompt; `/undo` is free, as the stack bounds it. In `services` three ledger entries
and two threads beside the loop allow a clear between a dump and its write, with another
one meeting it; two spend records fall into different reads; three contract runs are two
that overlap and a later one; three tasks are a cycle, a chain and a doubled name; two
requests of each of two administrators are an update after two that overlapped; what is
done at a terminal ends with a key that ends the prompt, behind up to two acts of any kind
or a paste, an act and a Backspace, with every way of cutting their bytes: a character of
three bytes is cut behind its first, behind its second, or not at all, and each cut may be
followed by another.

Deadlock is checked for the task engine, the webhooks and the rate limiter, where
something can always happen. It is not checked (`CHECK_DEADLOCK FALSE`) for routing,
missions, workspace, the clients and the services, whose bounded calls, agents, requests
and keystrokes are used up.

### Fairness

* Webhooks: weak fairness of a job's steps. Celery workers take jobs as long as they run,
  and a worker that dies is the action `JobLost`, not a job forgotten.
* Rate limiter: the clock of Redis ticks, and a handler that was resumed goes on.
* Agent fleet: the event loop runs every task that is ready, and provider calls have a
  timeout (`httpx` timeouts of the adapters), so each call ends with an answer or error.

No fairness is assumed for clients, kills, faults, or subscriptions.

## 5. Proofs

Everything here is proved for any sets of identifiers and any values of the bounds. Each
proof has the same course: an inductive invariant that TLC checked first, the initial
states, one step per action, and the property from the invariant. `NumberFacts` has the
facts that several of them cite: about finite sets, ranges of numbers, maxima, the ranks
of a finite set in a strict order, and `CountingUp`, induction over numbers put as a fact
about a set of numbers, which is how what a recursive function computes is proved.

| Module | Theorems | Inductive invariant |
|---|---|---|
| `TaskEngineProofs` | `TypeCorrect`, `Backed`, `RunMoves`, `RequeuedHasRun`, `HistoryCounts`, `SerialRefinement`, `PlansAreOrderedOrRefused` | `IInv`, `DLQInv`, `SerialInv`, `GraphInv` |
| `RoutingProofs` | `RoutingTypes`, `LocalRequestsStayLocal`, `AnswersStaySimilar`, `BreakerOpensOnFailures`, `StrandedForGood` | `CacheInv`, `BreakerInv` |
| `WebhookDeliveryProofs` | `WebhookTypes`, `ReceiptsAndRowsAgree`, `JobsSettleTheirRows`, `EmitServesEachOnce`, `DeliveredRowsAreFinal` | `DeliveryInv`, `FanOutInv` |
| `ModelsProofs` | `MissionTypes`, `RegistryAgreesWithResults`, `CoordinatorHasAllOutputs`, `OneCoordinatorRuns`, `SecretsStaySelfHosted`, `ChoicesAreTheBest`, `AnswersAreOfTheWhole` | `MissionInv`, `KernelInv`, `ComparisonInv` |
| `WorkspaceProofs` | `WorkspaceTypes`, `MessagesKeepTheirOrder`, `BranchesKeepTheirPrefix`, `ArtifactsKeepTheirFiles`, `LatestTextOutranks` | `WorkspaceInv` |
| `CliProofs` | `LocalContextsStayLocal`, `DirectoriesStayApart`, `UndoNeverGoesForward`, `HostedIsAlwaysAskedFor`, `PromptsAreWhatWasMeant` | `HostContextsInv`, `UndoInv`, `PackagedInv`, `PromptInv` |
| `ServicesProofs` | `TwiceTheLimitAtMost`, `LedgerKeepsTheOrder`, `LonePersistsHeal`, `VersionsAreOfOneRun`, `VerdictsAreOfOneResolution`, `LostUpdatesOverlapped`, `ChangesAddUpSerially`, `DoneIsOnlySaidOfTheWhole`, `BreakdownsDifferByLateRecordsOnly` | `RateInv`, `LedgerInv`, `ContractInv`, `AdminInv`, `ChangeInv`, `StreamInv`, `SpendInv` |

What the invariants say beyond the properties, and why they must:

* **Task engine.** `StatusBackedByRun` is not inductive: a session that moves a task must
  be known to write the row of a run of that very task. `IInv` adds `HoldsTask` (a session
  that remembers a status holds a task) and `OwnsRun`: the run a session holds is its own,
  its row has the status the session remembers, and no other session holds it. Ownership
  is why runs obey the table although tasks do not: the copy that decides about a run is
  never stale, while the copy that decides about a task may be. `DLQInv` adds that every
  copy of an entry is consistent in itself, count with history, and that the run of a retry
  under way is in no history yet; a lost update then replaces one consistent row by another.
  The refinement needs one more fact, available only when requests do not overlap: the
  status the open session remembers is that of the row.
* **Task graph.** `GraphInv`: a name is taken or waiting if and only if none of its edges is
  open, the loop's counts are those of the open edges, and a task that was taken came after
  all it depends on. When nothing waits and a name is left, every name that is left has an
  open edge to another that is left; the first of them in an order of the whole plan could
  not have one, so there is no such order and the error is right.
* **Routing.** `CacheInv` says what a call must know of an entry before it takes it: one of
  Redis holds an answer made for the capability it is filed under (`MadeFor`: by its
  provider, and under its name or one that the registry does not know), for a prompt one
  step from the prompt it is filed under; a row of PostgreSQL only ever holds the answer written for its
  own prompt, which is why hits through one cache and then the other do not carry an answer
  on and on. Local and hosted requests share the keys, so that an answer is local lies in
  the provider of that capability and not in who asked. `BreakerInv` counts with the calls that failed: they
  stay failed, so a success or a restart only lowers the count against them. Stranding is a
  step property of the same state.
* **Webhooks.** `EventIsTrue` relates the number of attempts in the row, the retries of the
  job and the receipts at each stage of an attempt; `FanOut` relates rows to the part of
  the query's result that was served, and the subscriptions `emit` is about to serve.
* **Agent fleet.** `AgentIsTrue` keeps what an agent did apart from what the registry shows,
  and has the coordinator that ran at each stage of its dispatch; an agent's announcement
  is made once, and only by one that has ended.
* **Kernel.** `KernelInv` says that a decision is the selection for some machine that was
  seen. That it is the best that fits is a fact about the table: counting up through its
  rows in the order of their size, the models found so far are the first that fit.
* **Comparison.** By `ComparisonInv` the answer is made of the calls as they stood when it
  was given: of all of them when none had failed, else of the first failure. The results,
  sorted, are the models asked, each once.
* **Records.** Every handler's copies are bounded by the tickets used so far; the message,
  save or version it is about to insert outranks all that it had seen; and what a branch has
  copied is the prefix of its source *now*, with its gaps, even as its source grows.
* **State file.** `HostContextsInv` has a witness, `H`: the directory each project was made
  for. With it, a context in the file, in a loaded copy, in a copy about to be written or in
  a client is good by itself, so writing an old copy over a newer file does no harm.
  `UndoInv` adds that who holds a version of a file has written it. With the packaged client
  only the weaker `LooseContext` survives: its invariant needs no witness but `stamped`.
* **Prompt.** `PromptInv` says where the reader is: of some act the first bytes were looked
  at (`At`), or the acts so far are done with (`After`); text and paste are what they mean
  at that place; what is pending and what is to come are the rest of the stream. The
  position determines the next byte (`Facing`), and so what an escape may be: an arrow's, a
  marker's, or one that was typed, which no `[` follows. How the bytes were cut into pieces
  does not matter, because the invariant only knows `pending \o unread`, the stream of the
  acts as heard; `HeardIsActs` says that these are acts again, with no control character
  in their texts, so a torn character stays text and disturbs no marker.
* **Rate limiter.** `RateInv` splits the grants of a window: the younger ones are those of
  the present counter, the others those of one counter before it, and numbers differ within
  each part, so neither is larger than the limit. A third counter never comes in because the
  time left to a counter and the age of what the one before it granted add up to more than
  the window. `GrantsAreCounted` says that no grant is lost in the set.
* **Ledger.** A list in a thread's hand is in order, and what the ledger has behind any of
  its places was recorded later; whoever is alone has in hand just what memory holds.
* **Contracts.** Of a target nobody disturbed, either one run is writing (and the files it
  has written are its own) or all files are of one run. Paths of different targets differ.
* **Administration.** A row is as a request in flight has loaded it, or an update that
  overlapped that request has been flushed since; and what the request has loaded of a
  document shows every PUT before it that nothing has replaced. `ChangeInv` adds, for API
  keys and projects, an order: updates are committed in a strict order that agrees with
  who knew of whom, and each column has a last update that set it, whom no other update
  that set it knew of; requests in flight that loaded another value were sent before it.
  A column is set to a value only by who loaded another, so the row is what the updates
  leave in that order, whatever their number.
* **Streams.** What is on the wire is what the client has still to read, without a gap;
  counting the events shows that the last one is read when all others were.
* **Spend.** By `SpendInv` the counts of the dashboard's reads grow from read to read and
  stay within what is recorded now, as records are only added.

The assumptions about constants are named in the modules that declare them, and TLC
evaluates them on every run. Most say that a mark such as `Null` or `None` is not one of
the values it stands beside (`NullAssumption`, `PackagedAssumption`, `AdminAssumption`,
which also keeps the identifiers of the four tables apart, as their being tables does;
`GraphAssumption` and `ComparisonAssumption`, which also say that a list has a length).
`KernelAssumption` is about the table in the code: a quantized model needs no more
memory than the whole one, and no two rows name the same model. `PromptAssumption` says
what a user does at a terminal: what is typed or pasted has no control characters, a key
is no Enter, and after an Escape nobody types the `[` that could begin a marker by hand;
pasted text may have any length, newlines included. Three say that a set is finite, as
the program's is: the capability registry (`SelectionAssumption`), where a longest or
cheapest member must exist; the clients of `Requests`, whose tickets are counted; the
terminals of `CliContext`. `NameAssumption` says that a name resolves to a
capability of the registry or to none. The rest give the ranges of numbers. The only theorem with a
hypothesis is `SerialRefinement`, on `Serial`.

The theorems of `ServicesProofs` and `PackagedInvariance` are about the specifications
of the components (`LedgerSpec`, `ContractSpec`, `AdminSpec`, `StreamSpec`, `SpendSpec`,
`PackagedSpec`), and so are those about `KernelSpec`, `ComparisonSpec`, `GraphSpec` and
`PromptSpec`, where the run `services` takes steps of one component at a time: each of
its behaviours is, for the component it is about, one of that component's.

Not proved:

* `MissionReturns`, `EveryJobSettles` and `LimitIsLifted`: liveness is out of the prover's
  reach.
* `ImplementsTaskMachine` without `Serial` is false, and finding 1 shows it.

Every other property of the passing runs is thus proved; `CountingUp` is what makes the
recursive functions (`Fitting`, `BytesUpTo`, `MeaningUpTo`) accessible to the prover,
and the sorts are ranks (`Ranking`) instead of loops for the same reason.

## 6. Findings

1. `tasks/executor.py:15`: the transition is checked against a copy; overlapping requests
   break the table (`task_engine_stale`).
2. `services/routing_service.py:315`: only the last message is redacted
   (`routing_scrub`, against `SPEC.md:242`).
3. `kernel/model_selector.py:40`: the local path also chooses from the Nemotron models of
   the table, which `hardware/model_hw_matrix.py:41` calls self-hosted and whose adapter
   calls `https://integrate.api.nvidia.com` unless `nemotron_base_url` is changed
   (`core/config.py:56`). With 360 GB free on eight cards the first model for a request
   with a secret is `nemotron-4-340b-instruct`; with 70 GB a Nemotron model is the last of
   three fallbacks (`kernel_hosted`, against line 30: "Secret/confidential must run
   locally"). `SecretsAreSelfHosted` therefore only says that the model is one of the table
   that takes memory.

Seen while modelling, without a run of their own:

* `services/routing_service.py:197`: the provider is asked for the model the request names,
  not for the one that was chosen. Where the name resolves to no capability, the two
  differ, and the text is cached under the chosen one: a later request for that model may
  get the text of the other.
* `orchestrator/dispatcher.py:116`: of several coordinators only the first is run (line
  115: "coordinator waits for the rest if present"); the others stay "spawning" and count
  as active for ever.
* `scripts/xyntra_host_cli.py:1864`: a prompt carries the mode its project was made with,
  whatever `/local` or a missing `--hosted` say (line 786: "toggle local-only routing").
  The other direction is harmless and checked: a local project stays local.
* `scripts/xyntra_host_cli.py`, `stream_chat`: the `done` event is not looked at, and
  Python's `http.client` takes a chunked response that breaks off between two chunks for
  complete, so `chat_once` stores a truncated answer as the answer. A refused request or
  no connection gives an empty text, which is stored too.
* `providers/ollama_adapter.py`: a line with an error in the middle of a stream, and a
  stream that ends without `done`, count as success; a line that is no JSON is dropped.
* `api/v1/evals.py`: every `ValueError` is a 404, that of a provider's malformed body too.
  After the first failure of `gather` the other calls go on and are paid for.
* `scripts/xyntra_host_cli.py`, `_read_prompt_bracketed`: a Backspace takes the last paste
  with everything typed after it; an arrow key types `[A`; what follows the submitting
  Enter in the same read is lost; a marker that is late by 50 ms ends up in the text, and
  a pasted newline may then submit ("only an explicit Enter press (outside of a paste)
  submits the input", line 611). A paste longer than 256 bytes is read in several pieces,
  so a character that is not ASCII may lie across two of them and is then replaced.
* `api/v1/tokens.py`: clearing the ledger runs in a thread of the pool; a record that was
  dumped before may write back what was cleared (line 43: "Wipe the in-memory and
  persisted ledger").
* `services/approval_service.py`: an approval can be resolved again, and two overlapping
  resolutions of a resolved one may leave the status of one with the name of the other.
* `services/project_service.py:82`: deleting a project makes the ORM set the key of its
  state row to NULL, which the column forbids, so `DELETE /projects/{id}` always fails.
* `xyntra_cli.py`: asking for a context always stores `local_only: true` and drops welcome
  mode and the seen mark; what another terminal stored during the request is undone.

* `services/routing_service.py:274`: a requested model is not escalated, and the last
  candidate is taken when none suits, so a prompt may go to a model it overflows
  (`SPEC.md:244`).
* `scripts/xyntra_host_cli.py:1224`: read-only agents are offered read tools "so the model
  can't accidentally write", but `_execute_tool` runs any tool that is named, and code
  blocks of a later step are written; `CallTool` and `WriteOutCode` say so.
* `scripts/xyntra_host_cli.py:240`: a repository is remembered "so xyntra never asks
  again", and another terminal's save undoes it.

## 7. Abstractions

* Texts, prompts, messages and payloads are values; formatting, logging and wording are
  left out. A similarity search is a relation on prompts.
* Adapters and HTTP receivers are external: any outcome may come.
* Foreign keys are modelled where a handler can meet their error (webhooks), unique
  constraints where there are any.
* Time is modelled only in the rate limiter; expiry in Redis is an action that may happen
  at any moment.
* Latency, prices and sort keys are reduced to one rank per strategy. The ranking of
  tiers by their names (`routing/strategies.py` sorts the strings) is data of `Rank`.
* Provider names and models in `MCRouting` are entries of the capability registry. How the
  registry resolves a name, and that the adapter of Ollama strips its prefix, is in the
  relations `Resolves` and `Serves`; what a provider does with a name beyond answering or
  failing is its own affair.
* Of the clients' state file only the contexts are modelled; the rest (repositories,
  lessons, welcome modes, last model) is `SaveOther`, a write of the contexts as loaded.
  Of messages only whether a session has any (`spoken`) matters. A response of the model
  calls one tool; projects are neither deleted nor changed on the server while clients
  run. Left out: attachments, the choice of an installed model, starting docker and the
  browser, the fallback reader for input that is no terminal.
* `os.read` returns up to 256 bytes, any number of bytes in the model; a pasted escape or
  control character is excluded (`PromptAssumption`). A character
  of several bytes is one element of the stream, unless a read cuts it.
* In `ChatStream` one answer is followed; refusals by routing are `RefuseChat`, and what
  routing does before is in `Routing`.
* Costs of spend records are counts of calls; the sums are taken over the same groups.
* The type invariants `TypeOK` declare the state of the modules; those of `TaskEngine`,
  `Routing`, `WebhookDelivery`, `AgentMission` and `Workspace` are proved, and the runs
  spend their time on the properties above.
* The bounds are the CONSTANTS `MaxRetries`, `MaxCount`, `MaxAgents`, `MaxRequests`,
  `MaxTyped`, `MaxSteps`, `UndoDepth`, `MaxRecorded`, `MaxSpend`, `MaxRuns`, `MaxPieces`,
  the inputs given by definition (`TaskPlans`, `Lists`, `Typings`, `QuestionKinds`,
  `MachineStates`) and the sizes of the identifier sets.

## 8. Not modelled, and plan

Not modelled, because nothing there keeps state that a decision depends on:

* Memory and context assembly: reads and pure selection. The compactor and the writers of
  summaries and decisions have no caller but tests, and nothing stores `retrieved_context`
  rows.
* Verification: sequential functions that only tests call.
* Policy rules: rows that are stored and listed and that no decision reads.
* Replay, telemetry, logging; the application shell; migrations; the web interface;
  development scripts. What the models need of them - one event loop, one session per
  request, early acknowledgement, missing unique constraints - is in their steps.
* Wire formats of the providers, the listing of the cache, the embedding backfill, the
  diff and export of artifacts: pure conversions and reads.

Next, a proof: of `TaskEngine` without `Serial`, a weaker abstract machine that it still
implements, one that may move a task along a forbidden edge, but only to the status of a
run.

Of the models, what is worth adding: the deletion of sessions and projects once the code
supports it, and a second API process, which the deployment does not start today.

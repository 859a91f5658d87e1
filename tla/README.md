# TLA+ models of gguf-switchboard

gguf-switchboard is an OpenAI-compatible proxy that keeps one model process
(llama-server or vLLM) on the GPU and switches it on request. This directory
holds TLA+ models of its parts, TLC runs that check them on small instances, and
TLAPS proofs of the main safety results for instances of any size.

## The system

| Component | State it keeps | Operations | Talks to |
|---|---|---|---|
| Scheduler (`scheduler/mod.rs`) | slot, registry, backend map, runtime args, request counters, activity and switch times, `load_lock` | `ensure_loaded`, `load_model_id`, `track_request`, `replace_models`, `shutdown`, two watchers | handlers call it, it drives backends |
| Backend processes (`backend/*.rs`) | child handle, running flag, startup stderr | `load`, `unload`, `process_running`, `health`, forwarding | scheduler, handlers |
| Request handlers (`api/*.rs`) | guards held by a response, stream state | admit, ensure, track, forward, relay | scheduler, backends, usage database |
| Embedding admission (`embedding_admission.rs`) | one semaphore per model | `acquire`, permit drop | embeddings and rerank handlers |
| Load fallback and fit planning (`fit.rs`, `context.rs`, `ngl.rs`, `batch.rs`, `load_failure.rs`, `fit_profile.rs`) | runtime args, saved profile | plan, reduce context, reduce layers, persist | scheduler's load |
| Model registry (`config/models_registry.rs`, `models_local.rs`) | `models.toml` | rescan, merge, assign ports, expand, clean, delete | state, command line |
| Application state (`state/mod.rs`) | `refresh_lock`, installed registry | `refresh_models`, rescan watcher | registry, scheduler |
| Conformance suite (`conformance/*`, `api/conformance.rs`) | history database | resolve, inspect, battery, compare, list, delete | scheduler, backends |
| Usage database (`db/mod.rs`, `stream_usage.rs`) | SQLite | record, aggregate | handlers |
| Wire types and translators (`types/*`, `sanitize.rs`, `api/responses.rs`, `api/anthropic.rs`) | stream translation state | requests and chunks, rewritten | handlers |
| Downloads and HF sync (`config/hf_*.rs`, `models_cmd.rs`) | partial files | choose, download, resume, verify, register, enrich | registry, command line |

What is hard here: every handler is a task of its own whose future can be dropped
at any await; the fast path reads the slot without the lock; the lock is held
across seconds of draining, stopping and starting; five kinds of task compete for
it; a backend can crash, stall or break a reply at any time; each step of a switch
can fail after earlier ones took effect; `models.toml` has many writers and no
lock; what one load leaves behind (runtime args, profile, cache) is the next
load's input. `PROJECT.json` lists each hazard at its line with the properties
aimed at it.

Correctness, per component:

- Scheduler: one resident process under `unload_first`; the slot never names a
  model that cannot be served once the lock is free; a response in progress when
  a drain starts is waited for; a failed switch restores; every request is answered.
- Backends: no child without an owner; a successful `unload` means the child is gone.
- Admission: permits are conserved; every waiter is admitted or rejected.
- Load fallback: retries only shrink the fit, keep the floor and end; what is
  remembered was seen to run; the advertised profile is the running one.
- Registry: a rescan keeps what the user set, offers every file in the end, and
  never offers two models one port or alias.
- Streams: well-formed event sequences, whole text, told errors, one bill.
- Conformance: a run keeps its model and is recorded once.
- Downloads: a resumed file is a prefix of one revision; only whole files are registered.

## Modules

| Module | Models | Extends |
|---|---|---|
| `Scheduler` | the scheduler, its callers and its watchers | |
| `OneSlot` | what it promises under `unload_first`: one process, published only while it runs | |
| `SchedulerHistory` | the scheduler with the set of responses a drain owes a wait | `Scheduler` |
| `BackendProcess` | one backend object: `load`, `unload`, `process_running` | |
| `FitLadder` | the arithmetic of a load: failure classes, reductions, rungs, plans | |
| `LoadFallback` | one model brought up, edited, refreshed and brought up again | `FitLadder` |
| `Registry` | `models.toml`, the refreshes that rewrite it, the commands that edit it | |
| `Embeddings` | `/v1/embeddings` and `/v1/rerank`: admission gates, batches, merge, ranking | |
| `Messages` | request and reply translations, sanitizing, the tool probe's verdict | |
| `Streams` | one request on each generation endpoint, connection to client | `Messages` |
| `ToolCalls` | the scanner and classifier of tool calls, the battery's cases | `Messages` |
| `Conformance` | console runs, the slot they hold, the history | `ToolCalls` |
| `Quants` | what `search` lists and what `pull --quant` selects | |
| `Downloads` | pulls, the downloader, the hub, the server that watches the directory | `Quants` |

`MC<Module>` gives instance values, `<Module>Proofs` holds theorems
(`SchedulerProofs` those of `SchedulerHistory` as well, `StreamsProofs` those that
rest on `Messages`).

The components meet at narrow places, each kept in both modules: `Scheduler` sees
a backend object as `Spawn`, `Stopped`, `StopFailed`, `AttemptFailed`, `Retire`,
`DropsChild`, and a load's ladder as `MaxRetries` attempts; `LoadFallback` sees
the registry as an entry and an installed configuration; `Embeddings`, `Streams`
and `Conformance` see the scheduler as a model that is loaded or lost.

### Scheduler

| Variable | Code |
|---|---|
| `lock` | who holds `load_lock` |
| `loaded`, `models`, `backends` | `SchedulerInner` fields of that name (the two maps as their key sets) |
| `active` | `active_requests` |
| `recent`, `userSwitched`, `cooldown` | `last_activity` within `idle_timeout`, `last_user_switch_at` within 30 s, `last_priority_load_failed_at` within the cooldown |
| `proc` | the child each backend object owns: none, starting, ready, sick (alive, health lost) |
| `stuck` | children whose `unload` failed and that nothing owns any more |
| `pc`, `stage`, `want`, `prev`, `tries` | each task's position in `ensure_loaded` / `load_model_id` / a watcher, its target, the model it drains or replaces, its load retries |
| `incoming` | the map passed to `replace_models` |

A step is the code between two awaits at which another task can act. `Arrive`,
`ReadSlot`, `Lookup`, `Probe` are the fast path and `live_loaded_backend` (run
three times: `stage` "ensure", "unlocked", "locked"); `Acquire` and `Plan` take
the lock, look the model up, run the integrity check and pick the route;
`DrainDone`/`DrainTimeout`, `Stop`/`Stopped`/`StopFailed`, `Clear` are phases 1
and 2; `Spawn`, `AttemptFailed`, `BootReady` the load; `GiveUp` the error arm
with its rollback; `RetireDrained`, `Retire`, `Mark` the end of a `load_first`
switch and the memory watcher's unload. `Disconnect` drops a handler's future.

Abstractions: no clock (a deadline may pass whenever its wait is not over, an
age may cross its limit at any time); the fit of a load is a bounded number of
retries (`LoadFallback` has the ladder); the priority watcher's gates are read in
one step; metrics, the switch report and the prewarm are left out.
`last_activity` and `last_user_switch_at` are kept only when a priority model is
configured, since only the priority watcher reads them.

### BackendProcess

`process` is the option inside the mutex and `mutex` its holder; `running` the
`AtomicBool`; `call` and `hand` where the one `load()` or `unload()` in progress
stands and the child its frame owns; `probe` and `saw` the same for each
`process_running()`; `state` each child's life from spawn to reaping, with the
signals it was sent. `Spawn`, `Store`, `Flag` are `load()`; `UnloadCall`, `Take`,
`Exited`, `TermTimeout`, `KillFailed`, `Clear` are `unload()`; `Abandon` drops
the caller's future at an await, and with it what its frame owns. `Child::kill()`
sends the signal and waits for the exit, so the second timeout in `unload()`
never fires and has no action.

### FitLadder and LoadFallback

`FitLadder` translates `load_failure::classify`, `next_lower_context`,
`try_reduce_ngl`, `plan_fit`, `build_fallback_ladder` and the vLLM planner. Memory
formulas (KV cache, overhead) are one monotone estimate; argument strings are
records of the flags a load reads or rewrites. In `LoadFallback`, `entry` is the
model in `models.toml`, `live` its `ModelConfig`, `pending` a registry a refresh
has read and not installed, `runtime` is `runtime_args`, `backend` the map's entry
with the port it polls, `base`, `plans`, `rung`, `tries` the locals of a load,
`profile` is `runtime_profile`, `store` the cached known-good profile. `Start*`,
`Attempt*` and the steps after are `load_model_with_context_fallback` on its
paths (`mode`: legacy reductions, fit planner, pooling models, vLLM), up to the
two writes of a healthy load; refreshes, edits and restarts come in at any step.
`proven` is a history variable.

### Registry

`toml` is the file, with what each entry says of the fields a rescan, a merge or
an expansion distinguishes; `live` the installed models; `step` and `result` a
`refresh_models` in progress; `held` the copy of the registry the Hub enrichment
read before it waited; `cli` a command that has read and not written. `Discover`
is `discover_with_merge`, `Expand` is `expand` (claimed files, ports, aliases,
priority, which source serves); `RefreshScan` a rescan with its rewrite;
`EnrichLoad`/`EnrichWrite`/`EnrichFails` the enrichment; the rest are the `ggs`
commands, the user's editor, files and mounts. Files are numbers with a name and
a directory. Sorting and filtering are stated by counting (`Lined` puts each
element after the number of those before it, `Kept` each match after the number of
earlier ones) and aliases are handed out by a recursive function (`Renamed`): forms
the provers can reason about.

### Embeddings

A text is its length in bytes; a gate is named after the request whose
`acquire()` created it. `Admission` reads the configuration again after the load,
refuses what cannot fit, and creates, replaces or clones the gate in its critical
section; `Poll` is the first poll of `acquire_owned`, `GiveBack` the permit's drop
(the semaphore hands it on), `QueueTimeout` and `Disconnect` the two other ways
out. `EmbedBatch` and `RerankAll` are the calls with merge, ranking and usage; the
backend may list its answers in either order. Sums and the greedy cutting are recursive
functions, and the ranking is stated by counting who is ahead.

### Messages and Streams

`Messages` translates the Anthropic and Responses requests and replies, the
sanitizer and the tool gate. `Streams` takes one request through `phase`: `up` is
the backend's connection and the SSE parser's buffer (bytes arrive as whole or
partial lines), `relay` and `chan` the task and bounded channel of `/v1/responses`
with the translator's state, `sent` what the client has read, `captured` and
`rows` the usage. The translator is stated by what a chunk consists of (`Pieces`: a
text, fragments of calls) and what one piece does (`ApplyPiece`). `Arrive`, `ArriveInPart`, `Close` are the network, `Pull` and
`RelayRead`/`RelaySend`/`Receive` the two ways to the client, `BodyEnds` and
`Disconnect` the ends.

### ToolCalls and Conformance

`ToolCalls` has the brace scanner, fences and tags, the classification of a
message and the four cases. A text is a sequence of a few tokens; `JsonObject` is what
serde's grammar says of literals and braces, stated apart from the scanner, and only
the assumption on `CallShaped` and the proofs use it. `Conformance`
runs them: `job` is what a run was asked, `pc` where it stands, `guard` the models
it counts as a request of, `resident`, `prev`, `lock`, `watch` the slot and the
priority watcher as far as runs meet them, `rows`/`nextId`/`issued` the table and
its sequence, `listed` what a console shows and may delete.

### Quants and Downloads

`Quants` lists and selects GGUF entries of a repository tree. `Downloads` has two
commands: `disk` is each file as a sequence of blocks (a block is the revision it
came from, or a hole), `control` the `.aria2` files, `hub` the revision served,
`pull` the locals of each command from choosing to registering; the server
rescans, checks headers and loads meanwhile. A failed aria2c is followed by the
native downloader, which removes the control file aria2c left (`transfer`'s
`fallback`). `troubled` records what the
downloader does not allow for (the hub moved on, commands overlapped, the native
downloader took a file over from aria2c), and some properties are stated only
without it; see below for what happens then.

## Runs

| Run | Instance | Question |
|---|---|---|
| `SchedulerSwitch` | 3 models (1 damaged), 2 clients, `unload_first` | is a switch correct with crashes, failed loads and rollback, and does it implement `OneSlot`? |
| `SchedulerWatchers` | 2 models, 1 client, priority model, memory pressure, refreshes that drop and re-add a model | do the promises survive every other task that takes the lock? |
| `SchedulerFaults` | 2 models, 2 clients, `load_first`, dropped callers, failing unloads, memory pressure, refreshes | is any child or counter lost? |
| `SchedulerLive` | 2 models, 2 clients, failing unloads, fairness | is every request answered and the lock always released? |
| `DocOneModelDisconnect` | 2 models, 2 clients, dropped callers | "the scheduler runs one model at a time" (README.md:219): violated |
| `BackendProcess` | 3 children, 2 probes, waits that may err, abandoned calls | can a child get lost, a live one be taken for dead, a call hang? |
| `LoadFallback` | a 9 GB model on a 12 GB card, 4 paths, 2 loads, 1 edit | is what is remembered proven, what is shown true, and does every ladder go down and end? |
| `Registry` | 3 files of 2 names in 2 directories, one vLLM repository, ports for 2, 2 outside moves | do unlocked writers lose a file, a setting or a distinct port? |
| `Embeddings` | 3 requests, an embedder with two plans and a reranker | are permits conserved across replaced gates, and answers whole? |
| `Streams` | 1 request on each of 4 endpoints, 3 scripts, channel of 2 | are events well formed, text whole, errors told, usage billed once? |
| `Conformance` | 2 runs, 2 models, priority watcher, history of 2 | does a run keep its model, and the history tell the truth? |
| `Downloads` | 2 commands, 2 revisions, trees of 3 entries, 2 faults | do resumed files come out exact, and do search and pull agree? |

`TypeOK` is an invariant of `SchedulerSwitch`, where it is the base of the
proofs; the other modules state theirs as documentation of the variables.

Bounds. A switch involves a model that leaves and one that arrives; the third
model of `SchedulerSwitch` lets two queued clients ask for different targets
while a third is resident. Two clients give a switch, a concurrent fast-path
reader and a queued switch. `MaxRetries` is 1: the ladder itself changes nothing
but arguments. Three children in `BackendProcess` let a load replace a live child
while an older one is dying; two probes let one block the other. Two loads in
`LoadFallback` are one that leaves arguments, profile and cache behind and one
that starts from them; the sizes make every path reduce context and layers.
Two outside moves in `Registry` are what it takes to change the file between a
command's read and its write and again before the next refresh; two ports for up
to three models make them run out. Three requests in `Embeddings` are a holder, a
waiter and one that replaces the gate; the plans give both gate sizes. The three
scripts of `Streams` hold every kind of line, cut at every place. Two runs in
`Conformance` can each hold the model the other drains. Two faults in `Downloads`
are a cut and a kill, or two cuts of one file.

Fairness, and why the code justifies it:

- `Scheduler`: strong per task. `load_lock` (tokio's mutex) and the map's `RwLock`
  queue their waiters in order; poll loops wake every 100 to 200 ms and end at
  their deadline; a startup ends at `startup_timeout`. Nothing is assumed of
  clients or of the environment; `unload()` is taken to return, see next.
- `BackendProcess`: `CodeFairness` as above and, explicitly, `KernelFairness`: a
  killed child exits. Without the latter `UnloadReturns` fails.
- `LoadFallback`: the load's own steps, which `startup_timeout` bounds.
- `Registry`: a refresh in progress goes on and the watcher starts another.
- `Embeddings`: only the steps that await nothing and the queue's deadline; nothing
  of the backend or the scheduler.
- `Streams`: relay and body poll; a connection ends (the HTTP client gives up after
  300 s, `llama_cpp.rs:45`); a client reads or hangs up.
- `Conformance`: a run's steps weakly, taking the lock strongly, as above; the
  watcher's steps weakly.
- `Downloads`: a command's own steps.

## What the documentation says and the code does not do

`DocOneModelDisconnect` is kept as a run: a client that leaves during its load
leaves a process nobody unloads until its model is asked for again.

The following definitions state other sentences of the documentation. No run
checks them; TLC refutes each when it is added to the named configuration.

| Definition | Statement | Code |
|---|---|---|
| `KnownModelFound` (`SchedulerSwitch`) | "New requests for the current model are queued", docs/runtimes/model-switching.md:31 | during an unload they get 404 (`scheduler/mod.rs:616`) |
| `InFlightCompletes` (`SchedulerSwitch`) | "In-flight requests are allowed to complete", same page, line 32 | a request that has its backend but is not yet counted is cut off (`api/embeddings.rs:154`) |
| `SurvivorServes` (`SchedulerLive`) | "Failed switches roll back", README.md:222 | a failed unload leaves a slot that names an unservable model (`scheduler/mod.rs:302`) |
| `PriorityYieldsToUser` (`SchedulerWatchers`) | a user's switch is not undone, docs/plans/2026-07-10-001 line 81 | the gates are read before the lock is waited for (`scheduler/mod.rs:888`) |
| `UnloadReturns` (`BackendProcess`, without `KernelFairness`) | the comment at `llama_cpp.rs:234` | `kill()` waits for the exit itself (line 221) |
| `FloorServed` (`LoadFallback`) | "Minimum context size this model must always be served with", `config/mod.rs:168` | the request is capped below the floor when it does not fit (`fit.rs:689`) |
| `PolledPort` (`LoadFallback`, `TwoPorts`) | artifacts and URLs use the same ports, plan 2026-08-08 | runtime args survive a refresh that renumbers (`scheduler/mod.rs:992`) |
| `VllmKept` (`Registry`) | the vLLM source is written into the registry, docs/models/safetensors.md:53 | any refresh drops an entry with no GGUF (`models_registry.rs:1476`) |
| `LeakTold` (`Conformance`) | a call in reasoning is reported as leaked, docs/CONFORMANCE-CONSOLE.md:38 | it is reported as plain text (`classify.rs:69`, `llama_cpp.rs:284`) |
| `DownloadedAgain` (`Downloads`) | the refusal of a damaged file tells the user to download again (`scheduler/mod.rs:464`) | a damaged file of full length is taken as complete |

Seen while translating, and held by no property:

- Scheduler: after the drain timeout the remaining requests are said to be
  interrupted (model-switching.md:33); `drain_model` gives up with `ModelBusy`.
- LoadFallback: a cached profile ignores a floor raised or a layer count pinned
  since; a failed load's reductions stay in `runtime_args`; `[fit]` without
  `max_attempts` gives one rung while the docs say five; a persisted KV type is
  stripped by the next expansion; "oom" is looked for in the whole text, model
  names included.
- Registry: alias and port of an entry change with the files before it; an
  unmounted directory outside the common ones is dropped for good by a rescan; a
  copy of a disabled model in another directory is served; a merge of namesakes
  loses `context_size` and the KV type; vLLM-only entries share the empty key and
  are merged into one; one pin on a backend without a source fails the whole expansion;
  enrichment, `pull vllm` and a delete's prompt overwrite what was written meanwhile.
- Embeddings: after a refresh the limits fall back to the entry's flags while the
  process keeps its own; a caller with the clone of a replaced gate adds to the
  holders of the new one; requests wait at admission uncounted, so a drain passes them.
- Streams: `/v1/responses` without streaming records no usage; `/v1/messages`
  streams neither content block events nor tool calls; a connection closed
  cleanly without `[DONE]` is a completed response; the tool gate reads a verdict
  older than the load that follows it.
- Conformance: a run that holds a model while it waits for `load_lock` is waited
  for by another run's drain, until the drain timeout; runs whose caller hangs up
  or whose insert fails are not saved although "every run" is said to be; a call
  inside a larger brace span is missed.
- Downloads: there is no temporary file, so a repeated pull after the hub changed
  mixes revisions in place under a registered entry, and overlapping pulls
  interleave; files without a digest may be of another revision; `search` lists
  shards that `--quant` refuses as ambiguous; a shard set with a dot in its name
  loses its label.

## Proofs

`tlapm` checks every theorem for every value of the constants allowed by the
named assumptions, which TLC evaluates in the runs: `TaskAssumption` (tasks are
distinct, clients finite in number), `ModelAssumption`, `ConfigAssumption`,
`NameAssumption`, `NoneAssumption`, `BoundsAssumption`, `ArgsAssumption`,
`EmbeddingsAssumption`, `ConformanceAssumption` (a reply has its five fields),
`CallShapedAssumption` (a call is a JSON object), `UploadsAssumption` (parts are within
their total, shards of one stem have one label), `RegistryAssumption` (files are
finitely many and ordered, base ports are numbers), `DownloadsAssumption`,
`AbsentAssumption` (the value for an absent field is none of the values a field can
have), `StreamsAssumption` (the channel has room for one event; scripts are lists of
lines; a turn has one of the roles and block types the endpoint's type accepts). The
argument is always an inductive invariant, and every step lemma has one step per
action. `RegistryInv`, `LadderInv`, `DescentInv` and the invariants of
`DownloadsProofs` were checked by TLC on the instances of the runs before they were
proved.

| Theorem | Strengthening, and why it is needed |
|---|---|
| `TypeCorrect` | `RoleInv` ties labels to tasks and to defined targets: TypeOK alone does not know that a load is for a model |
| `ReachableCorrect` | `TypeInv`; every configuration |
| `OneResidentCorrect`, `SlotSettledCorrect`, `MachineCorrect` | `LockInv` (a task is in the critical section exactly when it holds `load_lock`) and `ResidentInv` (lock free: the slot describes the machine; otherwise what the holder's label says of slot, map and children). For `unload_first`, unloads that succeed, callers that stay: `DocOneModelDisconnect`, `SurvivorServes` and `load_first`'s overlap show each is needed |
| `ActiveExactCorrect` | `TypeInv`; each action either leaves the served set alone or moves one client in or out. Every configuration |
| `DrainHonouredCorrect` | `OwedInv`: who is owed a wait is still being served, nobody is owed one while the lock is free, and none of them by the model that is past its drain; `DrainPath` says a stop is reached only from a drain that found the counter at zero or was not needed. Every configuration |
| `DamagedKeepsResidentCorrect` | `DamagedInv`: a lock holder whose target is damaged has not got past the integrity check. Every configuration |
| `FailedSwitchRestoresCorrect` | `PrevInv`: what `prev` means at each label. Every configuration |
| `OwnedCorrect`, `NotMistakenCorrect`, `UnloadIsFinalCorrect` | `MutexInv` (a probe that saw an exit holds the mutex with that child in it), `HandInv` (the mutex is empty while `unload()` holds it, its child was killed or reaped) |
| `GuardsHoldCorrect` | `CountInv` (a guard names exactly the run's target) and `LockInv` |
| `HistoryTrueCorrect` | `IdInv` (ids only grow) and `RowInv` (what a run's position says of its rows) |
| `OnlyProvenCorrect` | `ShapeInv`, `LegacyInv`, `PlanInv`: where the arguments of the running process came from on each path |
| `ProfileTruthfulCorrect` | `TruthInv`: the profile was derived from the plan of the attempt that got healthy |
| `NextLowerContextDescends`, `NextLowerNglDescends` | facts about the two reductions, for every starting value |
| `RetriesDescendCorrect` | `DescentInv` and `LadderInv`: the rungs of the load in progress fall in context and do not rise in layers, the floor is under each, and what is stored or pending is a pair of numbers. It rests on `FitPlansFall` |
| `FitPlansFall` | `plan_fit` and `build_fallback_ladder` give falling rungs above the floor for any memory, sizes and attempts; `VllmPlansFall` the same for vLLM. The rungs are the sorted set of the feasible, so the facts are about a strictly sorted sequence |
| `RegistersWholeCorrect`, `LoadsWholeCorrect` | `ApartInv` (commands that do not overlap have different subcommands) and `VerifiedInv` (what a command has verified stays as it was until it registers) |
| `ResumesExactlyCorrect` | `ExactInv`: untroubled, a control file and the file agree block by block, a file without one has no hole, and a native transfer writes at the end of the file |
| `LiveDistinctCorrect` | `RegistryInv`: aliases are distinct in the file, in the enrichment's held copy and in a command's copy (each can be written back over the others), and what is installed or about to be came out of `expand`. `DedupeAliasNew` is a pigeonhole argument (some suffix is free); `ExpandOffers` gives distinct ports and aliases of every expansion |
| `SettingsKeptCorrect`, `CleanKeepsModelCorrect` | `RegistryInv` and, on `DiscoverLists` and `MergeKeeps`, what a scan lists: every file once, with the settings of the entry it had |
| `BilledOnceCorrect` | `Shape` (which parts of the state exist in which phase, and that one row is written as the guards go) and `Following`: what the parser handed out is the prefix of the script it has consumed, whatever is in the buffer or cut, and the captured usage is the last of it |
| `TextDeliveredCorrect` | `Direct` (chat, completions, messages: what was read tells the text of the lines consumed) and `Relayed` (what was read, is in the channel or pending does) |
| `GrammarCorrect` | `Relayed`: the events produced so far are those of some state that `Reads` the chunks handed out; `OpenGrows`, `ClosedInGrammar` and `EndingGrows` say what one piece and the closing events do to the open items. `phase` "gone" is excluded because a hang-up empties the channel |
| `EndsTruthfullyCorrect` | `Relayed`: the state's items are the output of the reply assembled from the chunks (`Assembles`), whatever the order of texts and fragments, so what `completed` carries is that output |
| `RequestKeptCorrect` | `Requested` (what the backend gets is made once of what was asked), `MessagesKept`, `ResponsesKept`: what joined lists say is the join of what each says |
| `PermitsKeptCorrect` | `GateInv` (a gate's name is never one of a request that has yet to pass the critical section) and `QueueInv` (no request queues twice), so that a replaced gate keeps its own account |
| `AnswerWholeCorrect` | `AnswerInv`: of a running request some prefix of the texts is embedded and counted, and the batches to come cut the rest (`Underway`). `ChunkCuts` says what the greedy loop does to any input, `MergeEmbeds` that shifting a batch's indices by the items before it keeps every text its place, `SortedOrders` that counting who is ahead is a ranking |

| `CallNotMissedCorrect` | `ScanAgrees`: read from its first brace, wherever that stands, a text is scanned as the grammar has it (`JsonObject`: literals from quote to unescaped quote, nesting counted outside of them), so the brace that matches is its last (`MatchingBraceOfCall`), and the loop over the spans reaches it when no brace comes before. The invariant only says that what was heard is an answer |
| `SelectionAgreesCorrect` | `TreeInv` (a tree lists finitely many entries); `PartsComplete` (as many shards as the total, no part twice, is every part: a pigeonhole argument), `NamedWhole`, and a least element for the option of a name |

Induction is possible over a set of naturals or of sequences only (`LeastNatural`,
`SeqClimb`: the members that have the property contain the empty one and are closed
under `Append`), which is how `RegistryProofs` shows that the recursive function
`Renamed` exists and `StreamsProofs` that joining lists (`FlattenSeq`, `Joined`)
distributes over concatenation and that `ApplyChunk` reads its pieces in order, and
`EmbeddingsProofs` that `Total` adds up and `ChunkEmbeddingInput` cuts; each recursive
definition needs that argument anew (`ScanUnfolds`, `SpansUnfold`, `BytesType`).

Only model-checked: the type invariant of `Streams`, which would need a type for
every reply and request a backend and a client may send; and all liveness
(`Progress`, `CallsReturn`, `LoadEnds`, `FilesGetServed`, `QueueEnds`, `StreamEnds`,
`RunEnds`, `Heals`: `ENABLED` is out of the provers' reach). Every other property of a
passing run is a theorem.

## Not modelled

- `shutdown()` of the scheduler and the server's drain in `main.rs`: a sequence
  with no competitor but the tasks it stops; it takes no `load_lock` and sees only
  children with an entry in the map (`Reachable` says which have none).
- Prewarm, the switch report, metrics, host readings and the system monitor:
  gauges nobody decides on, except memory pressure (`MemoryPressure`).
- Time: deadlines are choices. In particular the HTTP client's 300 s total
  timeout (`llama_cpp.rs:45`, `vllm.rs:48`, `external_openai.rs:59`), which cuts
  every longer stream and bounds the tool probe that runs under `load_lock`.
- The memory formulas of `fit.rs`, the GGUF parser, health probes and the matching of a
  local file to a Hub repository: outcomes only.
- Audio (one forwarded request), usage aggregation, argument parsing, output,
  OpenAPI schemas, generated assets.

## Plan

1. Proofs about `ToolCalls` beyond standing calls: fenced and tagged ones.
2. `Shutdown` beside the watchers, in the order of `main.rs`.
3. An abstract registry (name to settings) and `Registry` as its refinement.
4. A clock for the deadlines that race: the drain, the startup, the HTTP client.

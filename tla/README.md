# A verification project for Raven Agent

Raven Agent (`crates/odin-*`) decomposes a goal into a graph of tasks, runs a
sub-agent per task under file locks, and persists the run in SQLite, where
other processes (CLI, HTTP, WebSocket, Discord) can pause, resume or cancel it.
This directory models that system in TLA+, checks the models with TLC on small
instances and proves the main invariants with TLAPS for every value of the
constants.

## 1. Inventory

| component | state it keeps | operations | what is hard |
|---|---|---|---|
| file locks (`odin-orchestrator/src/file_lock.rs`) | holders and a FIFO queue of writers per normalised path | acquire_read, acquire_write, release, release_all, snapshot, restore_from | handoff on release, agents that end while queued |
| composer (`composer.rs`, `lifecycle.rs`) | agents with a phase and a lifecycle, the graphs, the lock manager | register, start, complete, fail, cancel, pause_all, resume_all, cancel_all, fail_blocked_dependents | partial acquisition and rollback, four records of one status |
| task graph (`task_graph.rs`) | nodes, edges, status | gating on upstreams, failing of descendants, sorting, grouping | chains and diamonds of failures |
| merge (`merge.rs`) | none | verdict and conflicts of results | |
| run controls and store (`control.rs`, `persistence.rs`) | rows of `task_graphs`, `run_controls`, lifecycles, lock snapshots | enqueue, claim, mark applied, save graph, update status | many writers, no owner of the status |
| TUI runner (`odin-tui/src/runner.rs`) | flags, `spawned`, `terminal`, a JoinSet, a command channel, and a composer | the run loop | awaits between steps, stalls, cancellation, store errors |
| CLI runner (`odin-cli/src/app.rs`) | the same, with retries | run_orchestrated and the `orchestrate` verbs | the same, and recovery |
| TUI application (`odin-tui/src/app.rs`, `events.rs`) | mode, live agents, the ends of two channels, the input line | keys, goals, steering, approvals, refresh, tick | events, refreshes and ticks in any order; byte offsets |
| gateway (`odin-gateway`) | permits, active tasks, connections, the Discord client | chat, orchestrate, ws, Discord | control in several calls; clients that go away; drain |
| scheduler (`odin-scheduler`) | jobs, running counts, run rows | reserve, dispatch, pause, stop, restart | overlap, missed runs, stale updates |
| approval and policy (`odin-permissions`) | pending approvals, rate windows | request, approve, deny, expire, check | timeout against answer |
| providers (`odin-providers/src/fallback.rs`) | breaker state per provider | call, record, probe | half-open under concurrency |
| agent loop (`odin-loop`) | the state of one task | seven phases | budgets, retries, verdicts |
| tools (`odin-tools`) | processes, files, a registry, samples | execute, scope, validate, score | process groups, abandoned writes, redirects |
| MCP client (`odin-mcp`) | pending requests by id, one server | connect, list, call | late answers, garbage, dropped calls |
| memory (`odin-memory`), runtime (`odin-runtime`) | rows of outcomes, sessions | search, pack, store, submit | budgets, retention, attempts |
| audit (`odin-audit`) | buffer, history, file | log, flush, query | a sink that fails half way |

`spawn_run` (TUI) and `run_orchestrated` (CLI) each own one `Composer`, which
owns one `FileLockManager`; the executions of agents are tokio tasks that touch
neither and report through a JoinSet. Other processes reach a run only through
the store: they mark `task_graphs.status` and insert rows into `run_controls`,
which the owner claims at the top of its loop.

PROJECT.json lists every component with what is left out, and the hazards at
the lines where they bite.

## 2. Plan

The modules, most important behaviour first; all of them exist.

| # | module | models | composes | with |
|---|---|---|---|---|
| 1 | LockTable, FileLock | the rules of one path; the manager's operations over all paths | FileLock EXTENDS LockTable | proofs: SharedFacts, SharedProofs |
| 2 | Composer | agents, lifecycles, nodes, verdict, over the lock table | EXTENDS LockTable | proofs: ComposerProofs |
| 3 | RunControls | the row of a run, its control commands, the clients | | |
| 4 | TuiRun, CliRun | the two owners of a run | EXTEND RunControls, INSTANCE Composer | each implements Composer; proofs: TuiRunProofs, CliRunProofs |
| 5 | Scheduler | host, store, user, restarts | | proofs: StoredProofs |
| 6 | ToolPolicy, ApprovalPromise, ToolGate | the decision on a call; what the gate promises; the gate under concurrent calls | ToolGate EXTENDS ToolPolicy, INSTANCE ApprovalPromise | implements ApprovalPromise; proofs: AgentProofs |
| 7 | AgentLoop | the phases, budgets and verdict of one task | EXTENDS ToolPolicy | proofs: AgentProofs |
| 8 | Fallback | chain, breakers, health check | | proofs: ServicesProofs |
| 9 | Serve, WsHub | chats, Discord and shutdown; WebSocket connections | | proofs: ServicesProofs |
| 10 | Builtins, ToolRun, Egress, McpClient | calls of tools: on the machine, over HTTP, through MCP | ToolRun EXTENDS Builtins | proofs: SharedProofs |
| 11 | Toolbox, Planner | the registry of a program and its parts; how a plan is read | Toolbox EXTENDS Builtins | proofs: SharedProofs |
| 12 | Reliability, Memory, AuditLog | what is kept of calls, tasks and events | EXTEND Positions, the folds and filters of sequences | proofs: SharedProofs |
| 13 | RunStore, StoreSchema | requests for stored runs; the upgrade of an old database | | proofs: StoredProofs, SharedProofs |
| 14 | TuiApp, TuiInput | the application around a run; its input line | | proofs: StoredProofs, SharedProofs |

Each group is checked in the run of one MC module (section 4). Two abstract
specifications are implemented: Composer by both run loops, ApprovalPromise by
the gate.

All groups are proved about (section 5): every invariant and every action
property that a passing run checks is a theorem. What the plan has left is out
of the prover's reach: the liveness properties.

## 3. Modules and code

Every definition is mapped to its lines in PROJECT.json ("map"). An operator
marked "mutant" is a bug that could have been written in place of the one after
it: PROJECT.json ("mutants") says which property it breaks.

**LockTable, FileLock.** A path is `[holders, queue]`; `locks` is
`FileLockManager::locks`, by normalised path. `WriteGranted`, `ReadGranted`,
`AcquireWrite`, `AcquireRead`, `Release`, `ReleaseAll` are the methods, one
path each; `Handoff` is the loop that gives a free path to the head of the
queue. FileLock makes each of them an action and adds the snapshot
(`saved`) and its restoration, whose outcome depends on the order of a hash
map: `RestoreOutcomes` is the set of what can come out.

**Composer.** `phase` is `SubAgent::phase`, `life` and `held` are
`AgentLifecycle::phase` and `held_locks`, `node` the status of the agent's task
node, `graph` that of the graph. The methods take `&mut self` and are atomic.
Those that loop over agents in the order of a hash map take one step per agent,
in any order, and `batch` keeps everything else out until the loop is over.
`StartRefused` is the partial acquisition with its rollback: `RefusedAt` finds
the first path refused in the order of the code.

**RunControls.** `stored` is the status in `task_graphs`, `controls` the rows
of `run_controls` (from their creation in the client on), `client` what the
processes outside have still to call. `Calls` is the order of the calls, which
differs between the surfaces.

**TuiRun.** `run_loop` of the TUI as a program counter: claim, apply, drain the
inbox, check the flags, start, fail the blocked, check for a stall, persist,
exit or select. `spawned`, `terminal`, `paused`, `cancelled` are the variables
of the code; `tasks` is the JoinSet. Steps are cut at the awaits of the store.

**CliRun.** `run_orchestrated` of the CLI likewise. It differs from the TUI in
what a reader would take for details: it stores the graph's own status; it
fails no dependents, so they end in the stall check; it saves an agent before
it spawns its execution; and an error of any save enters
`recover_failed_orchestration` (`Recover`), which aborts, fails and saves what
is left. `unscoped` is the set of agents whose tools
`ToolRegistry::scoped` refuses, fixed in the initial state.

**Scheduler.** `table` is `scheduler_jobs`, `runs` the executions in order of
reservation with their rows of `scheduler_runs`, `mem` the host's map of jobs,
`permits` its semaphore, `handles` its `execution_handles`. The loop is
`FireTick`, `Visit`, `Reserve`, `Persist`, `Record`, `Spawn`, cut at each await;
an execution is `FinishExecution`, `OutcomeLands`, `ReleasePermit`; `Stop` to
`AbortExecution` are `stop()`. A write of the store is its own step after the
abort of the task that made it, because it runs on a blocking thread. A panic
is `Crash`: the release profile (Cargo.toml:97) aborts the process.

**ToolPolicy, ToolGate, ApprovalPromise.** A call is the record of the facts
that PolicyEngine and the ACT phase look at. In ToolGate every critical section
of approval.rs and policy.rs is one step: what looks a request up and then
decides it is two. `status` and `expires` are the requests, `caller` is the
task that waits, `trackers` the rate limits. `KeepsPromise` maps them to the
two variables of ApprovalPromise: decided once, for good, and told so.

**AgentLoop.** `Engine::execute_task` as a program counter over PLAN, ACT,
INSPECT, CRITIQUE, REVISE, VERIFY, DECIDE. The model, tools and operator are
`\E`; texts are kept as what the loop tells apart (see the module's head).

**Fallback.** `BuildChain` is the factory, `Replies`, `ErrorOf` and `Retryable`
the classification of an HTTP answer; a call is `Start`, `PassOver`, `Try` and
what comes of it, each lock of a breaker or a health status one step. `answers`
is a history of what providers answered, against which the breakers are judged.

**Serve, WsHub.** Serve is `raven serve`: `Arrive` to `HangUp` are a chat
request between the awaits of its handler, `DropGuard` and `DropPermit` what
unwinding gives back, in its order; `Signal` to `ServersEnd` the shutdown; the
rest the Discord gateway. WsHub has a connection's read loop and forwarder
task, the registry and the count, which are updated one after the other, as
a client comes and as it goes (`RemoveEntry`, `CountDown`).

**Builtins, ToolRun, Egress, McpClient.** Builtins is the catalog, a tool being
what it runs or writes, its directory check, its clock and its flags. ToolRun
is one call after another: the process group of process.rs with a leader and a
descendant, the tool's limit and the loop's, writes that outlive their call.
Egress is one HTTP call through lookups and redirects with addresses of a few
bits. McpClient is the transport's table of pending ids, its dispatcher and the
callers that a timeout drops at any await; `Notify` is the notification that
ends the handshake, whose failure the client ignores.

**Toolbox, Planner.** Toolbox is the registry a program builds, what validate
and doctor say of it (`Examine` has the doctor's eight checks), and
`capabilities_to_tools` with `scoped`. Planner is the
graph of a plan and the two algorithms over it, step by step; `Behind`, the
transitive closure, is the reference they are judged by.

**Reliability, Memory, AuditLog.** Reliability has the samples in memory and in
the table two programs share; Memory the table of outcomes and both packers of
briefs, a text being its length; AuditLog the buffer, the history and the lines
of the file, with a write cut short (`TornLine`), the rollback, the rollback
that fails as well (`RollbackFails`) and the drop.

**RunStore, StoreSchema.** RunStore has several runs: a row's status as a
column and in its JSON, requests of the four surfaces as scripts of calls
(`HttpCalls`, `DispatchControl`, `DiscordCancel`, `CliCancel`), and owners that
save in between. StoreSchema is `initialize`, a statement a step.

**TuiApp, TuiInput.** TuiApp has the application (`app`), what it is about to do
(`todo`), the two channels (`inbox`, `events`) and the runs as far as they
report. TuiInput is the key handling, a character being its width in bytes.

## 4. What the runs check

An MC module that EXTENDS several components has a variable `family`: a
behaviour is of one of them from its initial state on, the others' variables
stay as they began (and nondeterministic initial values of the others are
pinned). The states of such a run are the sum of its families, not their
product, and a property of one family is as it would be in a run of its own. A
property that joins those of several families names each under `family = ..`
or is a conjunction of theirs.

| run | distinct states | question | properties |
|---|---|---|---|
| file_lock | 45 thousand, up to symmetry | the lock table under every sequence of operations of four agents on one path | ExclusiveWriter, NoLostWakeup, FifoGrant |
| agents | 720 thousand | what stands between a plan and the acts of its agents: families plan (Composer), loop (AgentLoop), gate (ToolGate) | TypesHold; NoConflict, NoOrphanLock, DependenciesHeld, VerdictEarned; SuccessIsEarned, BudgetHolds; ConsentIsSound, PromiseIsKept; EverythingReturns |
| services | 980 thousand | what serves requests: families serve, hub, chain | ServiceIsSound, StreamsAreExact, SkipsOnEvidence, EverythingEndsInTime |
| tools | 990 thousand | what agents share: families machine, web, mcp, box, scores, memory, plan, audit, schema, input | CallsAreContained, AnswersOwn, ToolboxSound, RecordsAreKept, BriefsAreSound, ReadingsAreRight, CursorOnBoundary, CallsEnd |
| surfaces | 730 thousand | the requests users make of runs: families store (RunStore), tui (TuiApp) | RowsAgree, ScreenIsRight, RequestsAreHeard, SilenceIsNoticed |
| tui_run | 520 thousand | the loop of the TUI | LoopIsSound, LoopObeys (implements Composer; a paused run starts nobody), RunsEnd |
| cli_run | 690 thousand | the loop of the CLI, every save of which may fail | LoopIsSound, LoopObeys, PauseStaysStored, RunsEnd |
| scheduler | 2.5 million | dispatch across kills and restarts | DispatchIsSound, NeverTwice, StopSettles |
| scheduler_live | 250 thousand | a store that fails, one permit | JobsRunAndStop |
| plain_agents, pause_stays_stored, ok_is_durable | | violated: see section 7 | |

What the joined properties say: *ConsentIsSound*: what ran was allowed, no
window of the rate limit holds more than its limit, a request whose caller is
gone is closed. *BudgetHolds*: no more iterations, retries and calls than the
budgets, and each call audited. *ServiceIsSound*: a client that is told
success finds it on record; permits and active tasks are accounted for however
a request ends; the servers end after the last answer; only listed principals
are served. *StreamsAreExact*: a client gets its streams, in order, less what
it was too slow for; the count of connections is that of the registry, but for
clients between its two updates.
*CallsAreContained*: nothing of a process group survives a call given up, a
reaped process is not signalled, effects are declared, every hop of an HTTP
call is checked. *RecordsAreKept*: no entry of the log is lost or doubled while
the process lives and every rollback succeeds, and a query misses none; each
rollback that fails (logger.rs:233-238 reports it and returns the batch all the
same) can leave one more copy of an entry and one torn line, which spoils the
line written behind it and so can lose one entry, and never more; a query that
reaches such a line ends with an error. Scores are the same after a restart;
the upgrade of a database loses no row. *ScreenIsRight*: between
events the TUI's mode is that of the run, no agent is listed twice, and each
shows what it reported last. *LoopIsSound*: the loop's sets agree
with the composer, a stall is one, nothing is left behind. *DispatchIsSound*: a
job does not overlap itself, no permit leaks, missed occurrences coalesce, at
most one dispatch begins after `stop()`.

### Bounds, and why they are enough

- file_lock: paths do not interact in FileLock, so one is enough (Composer
  relates several); four agents give a holder, two waiters whose order
  matters, and one that overtakes. The agents are interchangeable and only
  safety is checked, so the symmetry is sound.
- agents: two files wanted in opposite orders give a partial acquisition with
  its rollback, a reader and a dependency the other refusals; two permits for
  four agents make `max_parallel` bite. The loop has an engine with and without
  each attachment, a call of each kind the policy tells apart, four iterations
  (a plan, a failure, a retry, a success) and two calls a turn against a budget
  of one. The gate has three calls, two of one agent (the rate limit is one):
  one that is approved and yet refused for its path, a POST, which has to be
  approved, and a dangerous one that nobody asks for; one operator, and a clock
  that passes each of the three time limits.
- services: one permit for two chats; a channel of one message, so that
  the second is lost to a slow client; two clients, one of which subscribes
  twice; two callers with three calls in all against a threshold of two.
- tools: a leader and one descendant, two calls one after the other; four
  addresses and two hosts; two callers of one server; an MCP tool of every
  shape the validation tells apart; two programs; three workers of which two
  try one task; every plan of one step, and of three whose ids and needs
  coincide in any way; two tasks with two entries each and two failed
  operations on the file, so that a write and its rollback can both fail;
  two programs that open a database, two kills; five bytes of input.
- surfaces: two runs of one goal, an agent that no run owns, two clients with
  two surfaces each, one call that fails; two runs a user starts one after the
  other, three inputs, one control from outside, one failure.
- tui_run: three agents are the least for which handoffs make two of them wait
  for each other (a third has to release both files); a fourth depends on one
  of them. One client with each order of calls and one typed command: two
  commands that arrive together come from the client and from the user.
- cli_run: two agents contend for two files, one depends on the first and may
  be without its tools. Two clients that mark and then signal, so that a pause
  and a resume or a cancel are claimed together or apart; the other surfaces
  make the same calls in another order and are in tui_run.
- scheduler: two jobs, one of them due twice, and two permits; two lives are a
  run before and after a kill, one command a removal at any point. There are
  no enable and disable commands in this run: with them an occurrence can run
  twice (section 7). scheduler_live has one permit and three jobs, one without
  an agent, so that a lost permit is fatal, and writes that fail.

Bounds on time, commands, faults and inputs are constants named `Max..` (and
`AppFaults`) in the guards. Deadlock is checked for file_lock only. The other
systems really stop: a run that has ended, a server that is closed, a scheduler
out of lives and commands.

### Fairness

- TuiRun: WF of the loop's own steps (a tokio task that is never blocked), SF
  of `Claim` (a claim that is tried again and again does not fail for ever) and
  SF of `JoinAny` (executions have an iteration limit and timeouts, and the
  loop polls them every 100 ms between other things). None for the user, the
  clients, a join error or the death of the process.
- CliRun: WF of the loop, which chooses freely between the success and the
  failure of each save; SF of `JoinAny`, as above.
- Scheduler: WF of the loop, of the completion steps after an execution has
  ended, of the deadline and of `stop()`. That an execution ends is not
  assumed: it is the premise of `DueJobRuns` alone.
- AgentLoop: WF of its next step, which may choose any answer of the model.
  ToolGate: WF of the clock and of each caller's own steps; none of operators.
- Serve: WF of the poll of each request (tokio), of the servers and of the
  Discord shards; none of clients or the signal. A handler that never answers
  is ended by its deadline. WsHub: WF of each connection's tasks and of the
  socket, which writes or fails; none of clients. Fallback: WF of each call and
  of the checker; a provider answers or the HTTP client times out.
- ToolRun, Egress, McpClient: WF of the timers and of the program's own steps;
  none of the programs, hosts and servers that are called. Their calls end by
  the timers.
- RunStore: WF of the owner's poll. TuiApp: WF of the drawing loop and the
  tick, SF of the fifteen seconds of silence (typing starves the tick, and the
  user's inputs are finite).

## 5. What is proved

Each theorem holds for every value of the constants, under the assumptions the
modules name and TLC evaluates on its instances. An invariant that the runs
check is seldom inductive; what follows says for each component what had to be
added, and why.

**SharedProofs, of the lock table** (any agents and paths). TypeCorrect,
WriterIsExclusive, QueuesAreLive, SnapshotRoundTrip, WritersInOrder. The
inductive invariant says
of every path of the table, and of every path of the snapshot, that it is sound
(`PathInv`): a write lock is alone, queued agents are distinct, hold no write
lock, and there is a holder while somebody waits. The snapshot is included
because restore re-acquires it: without soundness its outcome would depend on
the order of the map (`RestoreSound` shows that it does not).

**ComposerProofs** (any agents, files, edges and `max_parallel`, under the
assumptions of Composer: sequences of paths, edges between agents, a finite set
of agents, a positive limit). TypeCorrect, LocksStaySound,
RunningAgentsHoldFiles, NoConflictingAgents, NoLockIsOrphaned,
ViewsStayInAgreement, DependenciesStayHeld, VerdictsAreEarned. Inside a loop
over agents the records of one status differ. `IInv` adds what a loop may
assume: `BatchFits` (a loop has left only agents in the phase it is for),
`NodesAgree` (the exceptions in the middle of fail_blocked_dependents) and
`VerdictFits` (those of cancel_all). Every operation on the lock table is
reduced to `TableStep`: it leaves the other agents' locks alone except for
handing some to waiters (`Undisturbed`); `AgentStep` then derives the invariant
once for all actions. NoConflict follows from RunningHoldsFiles and the
exclusion of LockTable. Its last part is for the run loops: an agent that was
refused and still waits is `Barred`, because somebody holds what it wants or a
dependency is not done, and stays so until an agent that runs ends.

**TuiRunProofs, CliRunProofs** (any agents, files, edges, clients, order of
calls, and any failures of the store). *Obedient*: the loop implements Composer,
step by step, and starts nobody while the run is paused; so every theorem of
ComposerProofs holds of both loops. *Sound*: the loop's books are the
composer's, a stall is one, and a run that is over leaves nobody running and
nothing locked. The invariants have a part per variable of the code:
`CallsFit` (no loop over agents is left in the middle), `BooksFit` (`tasks`,
`spawned`, `terminal` and the phases at every place of the loop), `CancelFits`
or `EndFits` (who is left after a cancellation, a recovery or a refused tool),
`PassFits` (a pass that starts nobody leaves every agent it has handled barred:
this is what makes a stall real, and needs the handoffs of LockTable), and
`ClientsFit`, `FlagsFit` (a command is inserted by the client that created it,
applied before the loop goes on, and the flags are what those commands made of
them: this is what keeps a paused run from starting). ComposerProofs is used
through an INSTANCE, with `KeepsProtocol` in place of its specification. The
control commands are proved about once, in TuiRunProofs. *PauseStays*
(PauseStaysStored, of the CLI alone: the TUI violates it, section 7) rests on
`GraphFits`, that the graph of a paused run is not running, and on
`WritesGraph`, that whatever the owner writes to the row is the graph's status.

**StoredProofs, of the scheduler** (any jobs and schedules, number of permits
and lives). *Invariant*, *Soundness* (DispatchIsSound), *Settlement* (StopSettles),
*AtMostOnce* (NeverTwice), *RemovalLasts*. `IInv` says what the loop holds at
each await (`LoopFits`), that what a dead life has left changes nothing
(`LivesFit`), that each live run has a handle (`HandlesFit`), that permits and
running counts add up to the live runs (`PermitsFit`, `CountsFit`, the first
with an argument about cardinalities) and that what is spent stays spent
(`Spent`, `LateOnce`: a missed occurrence is late once). AtMostOnce is proved
for a store that takes every write (StoreOutcomes = {TRUE}) and without enable
and disable (Toggles = FALSE), which are assumptions of that theorem alone:
without them it is false (section 7). Settlement claims a recorded outcome only
where the writes succeed.

**AgentProofs** (any calls, agents, operators, limits, plans and engines).
*GateInvariant*, *Consent* (ConsentIsSound), *TrackersBounded*,
*PromiseKept* and *Promised* (the gate implements ApprovalPromise, and no
approval is late); *LoopInvariant*, *LoopTypesHold*, *Earned* (SuccessIsEarned),
*WithinBudget* (BudgetHolds); *TypesKept* (TypesHold, of the composer, the loop
and the gate). The gate's invariant relates a request to its caller
(`CallersFit`: it exists once the caller asked, is listed while open) and a rate
tracker to the grants it may have forgotten (`RatesFit`: they are out of the
window, also those of a tracker that was dropped when idle; IdleLimit > Window
is the assumption this needs). For the refinement every step is one of six
moves of a request and its caller (`Moves`), and each maps to a step of the
promise or to a stutter. `ClockFits` bounds the model's clock by the lives of
the requests. The loop's invariant adds to the budgets what a turn may still
run (`BudgetsFit`) and, for the verdict, that fewer sub-tasks are completed than
ACT phases were run until the next is credited (`EvidenceFits`). Two
assumptions are of the host: a gate has a policy engine (that of every program
has), and `Engines` are records of `Config`.

**ServicesProofs** (any requests, permits, clients, streams, events, callers and
providers, none of which need be finitely many).
*ServicesInvariance*, *Service* (ServiceIsSound), *Streams* (StreamsAreExact),
*Evidenced* (SkipsOnEvidence). `ServeFits`: the permits that are gone are as many
as the requests that hold one (`PermitsFit`), what is on record depends on how
far the handler got (`RecordFits`), a server is closed when nothing is in
flight (`ClosedFits`). `HubFits`, of each client: its stream begins at its
subscription, what is in the forwarder's hand, in the queue and delivered is in
order and follows upon each other (`OrderFits`), and together with what was lost
is what it is owed (`ExactFits`); and the count runs behind the registry by the
connections in between, those that come (`registered`) and those that go
(`leaving`). `ChainFits`: a breaker is what the answers of its
provider have made of it (`Evidence`), also while a call holds its own copy.

**SharedProofs, of the tools** (any callers, programs, loggers, addresses, tools
of a server, plans and texts, and any number of failed writes and
rollbacks). *ToolsInvariance*
joins the invariants of the ten families of run tools; the others follow.

- *Contained* (CallsAreContained). `ProcessFits` says where the leader and its
  descendant are at each stage of a call, in particular that nothing of the
  group is alive once the answer is a timeout, an overrun or a cancellation;
  `FilesFit` whose content the file may hold while abandoned writes are under
  way. `HopsFit`: what is classified is what was looked up, and a request that is
  not risky is a GET on every hop. That the code's mask covers an address only
  if its leading bits are the network's is arithmetic of powers of two, by
  induction on the exponents.
- *OwnAnswers* (AnswersOwn). `MutexFits`, `QueueFits`: whoever is under way has
  the client's mutex and nobody queues twice; `AnswersFit`: an answer is kept
  only by the caller whose request it names, and only once its call is done.
- *Recorded* (RecordsAreKept). Of the log, `SinkFits`: what a failed write has
  added lies behind the length the rollback cuts to. `EntriesFit` counts in the
  number n of rollbacks that failed: buffer and batch hold an entry once, an
  entry still to be written has at most n copies in the part of the file that
  stays and any other n + 1, at most n lines are torn (one more after the end of
  the process) and a spoiled line follows a torn one. With n = 0 that is an
  entry in one place and whole lines; the step that adds to n is the one that
  makes what a failed write added stay. `QueryFit` is what a query has between
  the history and the file. Of the scores, `AllAgree`: the
  table, followed by what is on its way to it in some order, is what the
  program remembers, for every program that alone records. Of the upgrade,
  `MigrationFits`: past the rename a program is alone, and drops the old table
  only when the rows are copied.
- *Registered* (ToolboxSound). `BoxFits`: the registry is finite, each tool's
  tags say whether it is safe, an agent's part stays within the registry, and
  an agent that may be repeated has read-only names alone.
- *Briefed* (BriefsAreSound). `MemFits`: who may try again has left nothing, in
  the table or on its way to it. A pack leaves room for the closing tag after
  every entry (`PackFits`), so the brief fits.
- *Read* (ReadingsAreRight). `Ordered`: an edge counts in a node's degree until
  its source is sorted, and what is queued or sorted is what has none left.
  `Staged`, `Parted`: a task is in the group after the last one that holds
  something it needs. That a sort which stops early has met a cycle is a
  descent (`CycleIn`): among nodes that each need another of them, one off every
  cycle would need one with fewer upstreams, and so on for ever.
- *Typed* (CursorOnBoundary). The offsets of a text grow, so the cursor is at
  one character; each key gives a text that is spliced at a boundary.

Two kinds of argument are inductive in the length of a sequence or the size of
a set. The induction theorems of the library cannot be used (see below);
instead the set of lengths for which the fact holds is shown to contain Nat by
`SetInduction`, which is proved of sets, from the pigeonhole: if x were missing,
adding one would map the members up to x into themselves without 0.

**StoredProofs, of the runs** (any runs, agents, clients and failures).
*SurfacesInvariance*. *OneStatus* and *RowsKept* (RowsAgree): `StoreFits` says
what the calls left of a request may name. RowsKept assumes that requests name
runs by their ids and that no id is a goal (`ById`): with a goal as a key,
which matches the rows of all its runs, it is false (persistence.rs:520). OneStatus, that the
column and the JSON of a row agree, needs neither. *Screened* (ScreenIsRight):
`RunFits` says whose events and commands are under way, and that a run that has
ended has its last word in the channel; `ModeFits` that, unless a pause or a
resume is still in the inbox, the last event about the mode (or, if there is
none, the mode shown) is what the run is (`Foretold`).

**SharedFacts** holds the lemmas that several of these modules cite: on the
operators of one path, on `Pick`, `Along` and `LastOf` of Positions, and on
sequences of a set. Those on numbers and cardinalities stand at the head of the
module that needs them.

TypeCorrect, SnapshotRoundTrip, LocksStaySound, RunningAgentsHoldFiles,
ViewsStayInAgreement, TrackersBounded, RemovalLasts, OneStatus and the
invariants named above are proved and in no run: the runs check what follows
from them.

Only model-checked: the liveness properties EverythingReturns,
EverythingEndsInTime, CallsEnd, RequestsAreHeard, SilenceIsNoticed, RunsEnd and
JobsRunAndStop, because fairness and ENABLED are out of the prover's reach.
Induction over data is out of its reach as a theorem to cite, since those of
the library take an operator as a parameter; where a proof needs it, it is
stated of a set of numbers.

That limit shapes the modules: `SelectSeq` and the folds of the libraries are
defined by recursion over sequences. Positions has `Pick`, the elements at some
positions, and `Along`, what a loop has made after each turn, in their place;
`Unqueue` cuts an agent out of a queue with `SubSeq`, which removes its one
entry (an agent is in a queue at most once, `WaitsOnce`, which is proved), and
the rate limit trims a tracker likewise.

## 6. What is not modelled

- Errors of `normalize_path`: a file is its normalised path.
- What is shown, and logs; summaries and conflicts of a merge.
- How long the execution of an agent takes inside a run: in TuiRun and CliRun
  it ends, in success or not; AgentLoop is what happens in it.
- `pause_all`, `resume_all` and `run_pending` are called only by tests and
  `restore_from`, `topological_sort` and `chat_stream` by nobody; all but
  `run_pending` are modelled as operations of their components.
- The files and edges of a graph are arbitrary constants of Composer, although
  the decomposition in this commit declares no files: its API takes them.
- In the scheduler: calendar fields (a schedule is its set of minutes), the
  retention of run rows, two hosts on one database.
- A kill of the process of the CLI's loop: nothing of its state outlives it.
- Texts: prompts, the compaction of a conversation, redaction, the parsing of
  pages, the ranking of the full-text search. The models keep what later steps
  tell apart in them.
- Floating point: scores and confidences are the samples or the classes they
  are computed from.
- Wire formats of providers and databases; rendering; the interactive chat;
  skills, evaluation and baseline. PROJECT.json gives the reason for each.

## 7. Disagreements found

Three have a run that TLC refutes.

1. **plain_agents** (`PlainAgentsGetTools`): a goal that names nothing special
   gives its agent the capabilities read and filesystem (composer.rs:1001), whose
   tools (composer.rs:1056) include four that are not enabled by default
   (config.rs:537), and a registry refuses to be scoped to a tool it lacks
   (tool.rs:62). With the default configuration such an agent fails before it
   starts, and so does one without capabilities, whose default toolkit
   (composer.rs:1107) names a fifth.
2. **pause_stays_stored**: the owner of a paused run stores it as running when
   an execution in flight ends (runner.rs:1366), against control.rs's
   "Persisted graph status stays consistent with claimed commands". The CLI's
   loop does not: cli_run checks the same property and it holds.
3. **ok_is_durable** (`OkIsDurable`): log() returns Ok to a task whose entry
   another task's flush has taken, before that flush writes; if it fails, the
   entry is back in the buffer (logger.rs:428).

The following are stated as operators that the models violate; the runs leave
them out. To see one refuted, give it to the run of its module.

| operator | module | what the code does |
|---|---|---|
| DoneIsFinal | Composer | cancel_all cancels agents that are Done (composer.rs:899), a phase lifecycle.rs:44 calls terminal |
| ManagementSignalsOwner | TuiRun | Discord's cancel marks the run and enqueues no command (discord.rs:1085), so the owner never hears of it |
| DisabledStays | Scheduler | a host that loaded a job before it was disabled enables it again with its next dispatch (scheduler.rs:540) |
| OutcomeIsFinal | Scheduler | the outcome an execution reached and the one recorded for an aborted one overwrite each other (scheduler.rs:708) |
| ActIsCurrent | AgentLoop | with two sub-tasks of one id the ACT is prompted with a completed one (engine.rs:323) |
| EscalationIsUnavailable | AgentLoop | a task that uses up its retries, or that DECIDE escalates, ends with "escalation was required but unavailable" although an escalation model is configured (engine.rs:632) |
| StartedRuns | Serve | a Discord channel is told that a task has started which then never reports (discord.rs:499) |
| WithinCapacity | WsHub | with MaxConnections = 1: room is looked up before the upgrade, so two connections take the last place (ws.rs:52) |
| HealthTellsCircuit | Fallback | a healthy status beside an open circuit (fallback.rs:73) |
| MessagesSteer | TuiApp | a message starts a second run after the refresh of the first has failed (app.rs:591) |
| ApprovalIsForTheRun | TuiApp | with MaxInputs = 4: a pending approval outlives its run and cancels the next one (app.rs:700) |
| DoctorsAgree | Toolbox | checking one tool reaches another verdict than checking it among all |
| DefaultIsForNoData | Reliability | after about a thousand half-lives a score is the default again although there are samples (reliability.rs:531) |
| RuntimeBriefFits | Memory | the footer is counted one character short (runtime.rs:268) |
| SnapshotMigrates | StoreSchema | a second program's late RENAME, or a kill, leaves the old snapshot unread (persistence.rs:247) |

Noted while modelling, without an operator: `held_locks` is not cleared when an
agent ends, against the comment at lifecycle.rs:96; a run reserved when the
scheduler's loop is aborted keeps its row at `running`, as do all runs of a
host that is killed; enable and disable write back the `next_run` they loaded,
so an occurrence can run again after a restart; the fixed order of a hash map
can defer a job for ever when the ticks are as far apart as another job's
occurrences; an outside pause is shown by the TUI as a stage only; a garbage
line of an MCP server fails every pending request, and a dropped call leaves
its id pending; dropping the logger cuts a partial write back no more; a
request that names a goal updates every run of it and signals none of them
under its id (persistence.rs:520); unknown needs of a plan are dropped silently
and cycles are not rejected when it is read.

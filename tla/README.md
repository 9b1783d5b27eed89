# Verification of the Keryx miner

This directory holds TLA+ models of the Keryx miner, the TLC configurations that
check them on small instances, and theorems that TLAPS checks for every value of
the constants. The models are translated from the Rust sources; `PROJECT.json`
names, for each definition, the lines it stands for, and under `hazards` the lines
where a behaviour that is hard to test bites.

## 1. The system

The miner is one process. Its threads and tasks are:

* a **connection**: `main()` runs a reconnect loop around one client, either the
  Stratum client of a pool (`client/stratum.rs`) or the gRPC client of a node
  (`client/grpc.rs`, "solo");
* **workers**, one thread per card, which grind the job they are handed
  (`miner.rs`). A `MinerManager` owns them and lives as long as a connection;
* **inference tasks**, blocking threads that lease a card, pause its walk, run a
  language model and give the card back (`slm.rs`, `llama_engine.rs`);
* the **card drivers** (`pom_gpu.rs`, `pom_opencl.rs`), which stage a walk table per
  card and share its memory with the models;
* **supervisors**: the wedge supervisor and the two failover tasks of `main()`;
* the **escrow watcher** (`escrow.rs`), which follows the rewards locked on chain
  and claims them.

| Part | What is hard | What must hold |
|---|---|---|
| Watch channel, `watch.rs` | sends by two threads, sleep racing notify, drop racing sleep | no lost wake-up, nothing marked observed unseen, a register |
| Manager and pause, `miner.rs` | pauses outlive connections; one send happens after the unlock | no job while paused, the newest job afterwards |
| Workers, `miner.rs` | ranges at gaps of the mask and at the wrap, proofs built beside the grind | no nonce twice, none outside the domain, close is obeyed |
| CUDA card, `pom_gpu.rs`, `slm.rs` | walk, install and inference share memory without one common lock | mutual exclusion, live weights, requests end |
| AMD cards, `pom_opencl.rs`, `llama_engine_vk.rs` | one engine hosts the model of one card among several | the same, and no walk outlives the weights it reads |
| llama-server, `llama_vulkan.rs` | a monitor thread, a generation counter, time limits on the handoff | a call that looked and failed leaves no child, a success belongs to the server that is up |
| Serving routes, `slm.rs` | a self-test that ends after its route was withdrawn | no override to a lost route, models are declared again |
| Autotuner, `pom_gpu.rs` | cards that share a profile, savers of one file | claims and permits are returned, no tune is lost |
| Escrow watcher, `escrow.rs` | lost and late answers, reorganisations, crashes | no false claim, no live output written off |
| Pool session, failover, `stratum.rs`, `main.rs` | half-open connections, blocked arms, two tasks on one index | wedges end, jobs come again |
| Stratum shares and tasks, `stratum.rs` | numbers of an earlier connection, followers of a failed flight, forgotten ids | every share is counted once, answers stay openable |
| Solo requests, templates, traces, `grpc.rs` | reconnects, restarts and reorganisations with work in flight | books match work, mining resumes, audits are answered |
| Gate, shutdown, downloads, tree cache | evictions, frozen workers, kills, several processes | opens and ends in the end, files are genuine |
| Plans, commitments, formats | boundaries, zero, padding, versions | agree with a reference definition |

The parts meet in few places. The connection hands jobs to the manager, which sends
them down the watch channel; inferences pause the manager (backends with a global
pause) or one card; a card marks itself ready at the gate; the solo client feeds the
escrow watcher. `MinerPause` uses the channel as the register `WatchRegister`, which
`WatchChannel` is shown to implement, so the two compose without multiplying their
states. The other parts are modelled with their neighbours as an environment that
may do what those neighbours can do; their joint state is not explored.

## 2. Modules

Each module opens with a comment on what a step, a value and a unit of time stand
for; this section says how the modules correspond to the code.

### Jobs and workers

**WatchChannel** follows `watch.rs` one lock acquisition or atomic access at a time.
A value is the number of the write that stored it. `send` is four steps (check,
store under the write lock, increment the id, notify under the mutex), `get_changed`
and `wait_for_change` are the steps of a receiver, the Drop of the Sender is two.
`Spurious` allows spurious wake-ups of the condition variable.
**WatchRegister** is what users rely on: a receiver obtains the content of the
moment, may skip contents, and never goes back.

**MinerPause** has successive managers, their workers and the process-wide pause.
What runs under the mutex of `inference_pause_state` is one action; the send of
`process_block(None)`, which comes after the unlock, is another (`SendNone`).
`newest` is a history variable: what the last `process_block` asked for.

**GpuWorker** is the loop of a CUDA worker with its task root, the cursor over the
nonces of a mask, the launch outcomes and the detached proof builders; **CpuWorker**
the loop of a CPU worker. **WorkerShutdown** has the loop of `MinerManager::drop`,
one watcher thread per handle, and the signal handler.

**RuntimeStats** is the statistics hub: gauges tagged by the generation of the
connection that wrote them, in-flight guards, nested card pauses, escrow figures.

### Cards and inference

**GpuCard** is one CUDA card. A table is an `Arc`, so it is resident exactly while
the map, the quarantine or a thread's handle names it; `StrongCount` is what the
code reads. `pc` names the points between two accesses to shared state.
`uninstall_released` is called from four places, and `then` is where it returns to.
`Stalls` says whether a thread that holds a handle only in passing can be
descheduled for longer than the 30 s barrier. **WalkLaunch** is what happens inside
one launch: batch, backend, shared scratch buffers. **Autotune** is the measurement
before the first batch, the profiles cards share and the file that keeps the result.

**OpenClCard** has a worker per AMD card, the Vulkan engine that may host the model
on one of them, and the request that drains, loads or swaps. A placement record is
the memory planner's verdict, fixed for the process. **LlamaServer** is the child
process: callers that take turns on the lifecycle lock, and the monitor that reaps.
**ServingRoutes** has the books of routes, overrides and claims, each under a lock
of its own, between warmer, installer, live requests and the teardown of a card.

**WaitReady** has the registered and ready sets, the latch and the clock; `holds()`
reads the time before it takes the lock, hence `Ask` and `Decide`. **ModelFiles** is
the download of a model with resume, truncation, digest and kills; **TreeCache** the
possession tree that the processes of a rig build and share.

### Pool and node

**PoolSession** has every arm of the biased `select!` in `listen`, in its order, the
task that writes, the reconnect loop with its backoff and the supervisor that exits
with code 75 (the wrapper starts the process again: `Restart`). Timers are relative
and saturate. `blocked` is an await inside an arm that does not complete.
**PoolFailover** has the monitor and the prober over the one index they share.
**StratumJobs** turns notify messages into jobs and declares models;
**StratumShares** numbers, books and settles; **StratumTasks** is the registry of
detached tasks with leaders and followers; **PoolAnswers** the dispatched requests,
the kept traces and their openings.

**SoloRequests** has the handler as one record. An operation is a function from
handler to handler and an action composes all the operations a message or a 200 ms
tick sets off, in the order of the code. The blocking inference, the replay, the
trace writer and the node run beside it. **SoloTemplates** has the template requests,
the challenge slot and the refresh after a pause; **SoloTraces** the chain log, the
draw, the opening and the store of one audited response; **AttnPhases** the phases
that follow it.

**EscrowWatcher** has the entry as data, how time and a node's answer change it,
`select_claim_batch` as a function, and the handlers with the claims in flight, the
debounced file and the node. Scores are relative to the last block and saturate
where no comparison tells more apart. The node is external: it extends and retracts
its chain, takes or rejects claims, and its answers may be late or lost.

### Functions

**LaunchPlans** (which tier each card mines, how an AMD card lays out weights and
splits a batch), **PossessionTree** (chunk stream, sparse tree, v4 and v5
witnesses), **OpeningCodec** (writers and readers of openings, both Merkle trees),
**TraceOpening** (commitment, draw, opening, checks), **WireFormats** (pool lines,
extranonces, targets, payloads and sealing) are operators. Hashes, keys and
ciphertexts are the terms they are computed from; arithmetic on weights is modulo a
small prime; word widths are scaled down.

### MC modules and proofs

`MCWatchChannel`, `MCMinerPause`, `MCGpuCard`, `MCPool` and `MCSolo` instantiate the
modules of a group and explore them side by side: a variable `part` chooses one of
them in the initial state, that one runs, and the others stay as they begin. Such a
run is the union of the runs of its parts, not their product. `MCAlgorithms` picks
an input of one kind in the initial state and compares the operator with its
reference; the modules that run once are further parts of it.

A definition named under `mutants` in `PROJECT.json` stands just before the one it
varies and is used by no specification: it is the plausible mistake to which the
property is sensitive. Modules named `...Proofs` hold theorems.

## 3. What TLC checks

| Run | Instance | Shows |
|---|---|---|
| watch_channel | channel: 2 senders, 2 receivers, one of them cloned, 3 writes, spurious wake-ups; hub: 2 requests, 2 generations, 2 guards, 1 claim, 3 ticks | `NoLostWakeUp`, `NeverStale`, `ImplementsRegister`, `SleeperIsWoken`; `StatsAddUp` |
| miner_pause | 2 workers, 2 inferences, 2 connections, 2 calls each; GPU worker: 3-bit nonces, batches of 3, 1 permit, 2 jobs; CPU worker: 3-bit nonces, 2 assignments | `PausedChannelHasNoJob`, `WorkersGetNewest`, `NoncesWalkedOnce`, `PauseAndDropReachWorkers`, `CloseIsObeyed` |
| gpu_card | 2 requests, 2 models, 3 tables, 3 engine loads, stalls | `PauseCountsGuards`, `InstallExcludesInference` |
| gpu_card_live | CUDA card: 1 request, 2 tables, 2 engine loads, no stalls; AMD: 1 card, 7 placements, 2 requests, 1 fault; server: 2 routes, 2 starts, 4 calls; routes: 1 model, 2 cards; tunes: 3 cards, 2 profiles | `WalkAndInferenceExclude`, `WalkReadsLiveWeights`, `CardsAreExclusive`, `RoutesAreOwned`, `RequestsAndInstallsEnd`, `ServingSettles` |
| gpu_card_rebuild | as gpu_card | violated: `OneTableResident` |
| escrow_claims | 2 outputs and a phantom, batches of 2, 1 lost answer, no reorganisation, no restart | `LiveIsNotWrittenOff`, `StrandedOutputsDrain` |
| escrow_restart | 1 output, 1 inference escrow, 1 restart, 1 block that may be reorganised while the miner is away, held claims | `ClaimedIsSpent`, `NoGhostIsClaimed` |
| pool_session | session with the idle timeout at the switch tick; 1 pool of 5 numbered lines; 1 model; 1 challenge, 1 chat, 1 task; 1 request and 1 foreign trace, 1 restart; 3 pools | `SessionRecovers`, `CountsMatchVerdicts`, `JobsFitThePool`, `TasksSettle`, `TracesStayOpenable`, `FailoverSettles` |
| pool_idle_timeout | idle timeout above the switch tick, as by default | violated: `SilenceBounded` |
| solo_client | 2 rewarded requests, a queue of 1, 1 lost connection; 1 response on a chain of height 4, 1 reorganisation, 1 fault; phases of depth 1 with 2 children | `BooksMatchWork`, `NoAnswerIsLost`, `RewardIsTracked`, `QueueDrains`; `MinesAgain`; `AuditFollowsTheChain`, `AuditIsAnswered` |
| algorithms | bounded inputs of 16 kinds; 1 download; 2 processes on a tree; 2 cards at the gate; 3 workers at the shutdown | `LaunchPlansHold`, `CommitmentsHold`, `FormatsReadBack`, `StagedIsGenuine`, `StartAndStopEnd` |
| tree_slow_builder | 2 processes, 1 build slower than its lock, no kills | violated: `ExactlyOneBuilds` |

Some properties of the MC modules are conjunctions over parts:

* `NoncesWalkedOnce`: no nonce is launched twice for a job, and only what was
  walked is proved. `PauseAndDropReachWorkers`: `PauseReachesWorkers` and
  `DropTerminates` of MinerPause. `CloseIsObeyed`: both kinds of worker.
* `CardsAreExclusive`: `CardIsExclusive` of OpenClCard; claims and permits of the
  autotuner, the exactness of a chosen tune, and that no saved tune is lost.
  `RoutesAreOwned`: a server call that looked at the server and returns false leaves
  no child (`FalseMeansFree`), and no override points at a lost route.
  `RequestsAndInstallsEnd` is of GpuCard. `ServingSettles`: an AMD pause ends, a
  server call returns, a commit is owned (`CommitIsOwned`), a model some card can
  answer is declared again, every card gets its tune.
* `SessionRecovers`: `JoblessBounded`, `NoHastyRestart`, and, given a pool that
  serves, `StuckSessionEnds` and `ServedAgain`. `JobsFitThePool`: the workers are
  fed only jobs they can mine, and the pool learns the models. `TasksSettle`: the
  registry's books, markers only for what was kept, every task and opening ends.
* `AuditFollowsTheChain`: the draw is the node's, what was sent is on disk, and
  each phase opens the path of the current chain. `AuditIsAnswered`: the opening
  for the current seed, and all phases, are in the end accepted.
* `RewardIsTracked`: an answered request's reward is registered, or one of the two
  cases of section 5 lost it; and what a save of the escrow file wrote stays.
* `LaunchPlansHold`, `CommitmentsHold`, `FormatsReadBack` compare the functions of
  section 2 with their references; the first has the launches of WalkLaunch too.
  `StagedIsGenuine`: the sentinel of a model and the index in use stand beside
  genuine bytes, and one process builds unless a slow builder lost its lock.
* `StartAndStopEnd`: staging ends, every process gets a tree, the gate opens and,
  unless it times out, only with every registered walk installed;
  `MinerManager::drop` returns and signals no worker that left in time.

### Bounds

Each instance is the smallest in which the contested case occurs. Two senders are
needed for a send between another's store and notification, two receivers for a
cloned one. Two guards and two connections give overlapping pauses and a pause that
outlives its manager. Three bits of nonce hold a mask with a gap and a range that
wraps. On a card two requests contend for the lease while the worker installs;
three tables and engine loads are as many as can be resident at once. The
placements of the AMD card are the combinations of planner verdict and identity
that lead to different branches. Two generations of a server are a reader of the
old one and the start of the next.

The escrow batch of two is the smallest that can be halved, and the phantom is the
dead input that makes the node reject it. The restart run gives up batches for
restarts: with both, the state space is out of reach; the theorems of section 4
have both. A queue of one with two requests is the smallest that evicts; both carry
a reward, so that one can be lost on a dying transport and one with an unsaved file.
An answer is sent once (`MaxAttempts` 1) before it is given up. Two
requests never fill the replay filter of `SeenCap` 2 beyond its limit, so its
eviction is not exercised. Five numbered lines stay below `TrackCap` 64, so
`TrackingFits`, the premise of `CountersAreExact`, holds in all of `pool_session`.

In PoolSession the periods are scaled down. Their order is kept where a property
depends on it: `pool_session` takes the idle timeout at the switch tick, the one
setting in which that backstop can act, and `pool_idle_timeout` the default order.
Three pools are the fewest among which the monitor can step down from a pool the
prober has just chosen and still not be at the end of the list.

A depth of two is enough for a reorganisation that takes back the block that
accepted a response and the one that drew its seed. The inputs of the functions are
listed in `MCAlgorithms`; they are chosen on both sides of the boundaries the code
tests. Traces are checked for 121 seeds of one small model.

Deadlock is checked except where a part ends by itself: `watch_channel`,
`miner_pause`, `gpu_card_live` and `algorithms` switch it off, and the MC modules of
pool and solo allow a part to stop where its own bound is reached (`MayStop`).

### Fairness

* WatchChannel: a thread inside a call goes on. The fairness is strong because its
  next step may be a lock that others take again and again; the locks let a
  waiting thread in eventually. No thread is obliged to call.
* MinerPause: a begun operation ends and a worker polls its channel. The second is
  the rule the comment at `miner.rs:651` states; a worker that cannot poll is the
  subject of WorkerShutdown, where workers owe nothing. A CPU worker is scheduled.
* GpuCard, OpenClCard: the worker runs, and a request that claimed the card goes on.
  A generation ends, since it has a deadline.
* LlamaServer: the caller and the monitor run; the monitor gives up once nobody
  listens. Children owe nothing.
* ServingRoutes, Autotune: threads run; a claim, a permit and a request are not held
  for ever; a cooled card becomes a candidate again.
* EscrowWatcher: blocks keep arriving and raise the score; the node answers what
  it receives, up to `MaxLosses` lost answers. In `escrow_claims` answers
  arrive or are lost before the next block (`Prompt`).
* PoolSession: ready tasks are polled and time passes (strong, because no instant
  holds infinitely many steps); a live pool's job is read whatever else is in the
  stream (strong, because the stream is in order). Nothing makes a blocked await
  complete.
* StratumJobs: an announcement is heard if it is sent again and again (strong: lines
  are lost with their connection). StratumTasks, PoolAnswers, PoolFailover: spawned
  tasks run; time passes.
* SoloRequests: the node can be reached again and answers the template request that
  follows a connect (`[]<>m.daa`), the tick keeps firing while a request waits
  (`TimerFires`: `beat` turns with each such tick), tasks end, delays pass, and audit windows run out (`[]<>(m.traces = {})`: the
  prune in `trace_tick`). These are stated as recurring states, not as
  fairness of the tick, which stands for the timer alone.
* SoloTemplates: a node that is asked again and again replies (strong).
  SoloTraces, AttnPhases: the node answers and mines what is in its mempool, faults
  and reorganisations are finitely many.
* WaitReady: the clock advances and the askers ask (once per batch). ModelFiles,
  TreeCache: a process that is not killed runs, and a dead one's lock ages.

### What holds only in part

* `WalkAndInferenceExclude` and `WalkReadsLiveWeights` are checked with `Stalls`
  false. A worker stalled for 30 s between cloning its handle and its second pause
  check outlasts the barrier; the quarantine is the code's answer to that, and
  `gpu_card` shows that the gates stay exact.
* `LiveIsNotWrittenOff` is checked for a chain that loses no block and with prompt
  answers: see the first escrow divergence below. `NoGhostIsClaimed` is checked for
  reorganisations that happen while the miner is away (`LateReorgs` false).
* `CountsMatchVerdicts` is proved under `TrackingFits`: with more than 64 telemetry
  lines (or answers) unanswered the client forgets their numbers, and the reply to a
  forgotten one can settle a share that an earlier connection left behind.
* `RewardIsTracked` excludes answers whose first send failed, and rewards that were
  not yet saved when the connection was lost: see section 5.
* `FalseMeansFree` excludes a start that was denied because inference was evicted
  from the rig: it returns before it looks at the server.
* `WalkReadsItsOffsets`, in `LaunchPlansHold`, excludes the hit of a speculative chase
  noted before an inference took away a table that was not released in time. The
  chase is off by default (`KERYX_POM_V4_CHASE_PREFETCH`).
* `VulkanIsExact`, in `LaunchPlansHold`, speaks of statuses the shared walk knows:
  `pom_mine_v4` takes any other negative one for an offset. What the worker checks
  of a completion (`Completed`) refuses it in the first sub-batch only.
* `TargetIsExact`, in `FormatsReadBack`, gives the value of the code where it is no
  target: see section 5.
* `StuckSessionEnds` speaks of processes that have had a share accepted; the
  supervisor is armed by the first one.
* `CloseIsObeyed` for a CPU worker is checked with masks whose bits below
  `PollEvery` vary; with others the nonce may never be a multiple of it.
* `FailoverSettles` returns to the primary when the other pools stop changing. A
  backup that comes and goes for ever can keep the active pool moving. That a pool
  between others keeps delivering is checked with `Lag` 1, a sixth of the failover
  time; with `Lag` 2 the monitor's window, which a failback does not renew, can run
  out before its first job each time the prober returns to it.
* `StagedIsGenuine` is checked with one download task and two processes, and speaks
  of trees only until a living builder was robbed of its lock;
  `SavedTunesKept` without a lock file left by a crash, and `AuditIsAnswered` for
  responses signed once a chain block was logged: see section 5.

## 4. What TLAPS proves

Every theorem holds for all values of the constants under the assumptions named.
Where a run checks the same definition, `PROJECT.json` links them; `CardIsExclusive`,
`FalseMeansFree`, `CommitIsOwned` and `TracesStayOpenable` are checked in
`gpu_card_live` and `pool_session` through the MC modules. `WatchChannelProofs` extends
`MCWatchChannel`, which joins the channel and the hub and fixes no constant.

| Module | Theorem | Statement |
|---|---|---|
| WatchChannelProofs | `TypeCorrect` | types; the receiver count never goes below zero |
| | `NoWakeUpIsLost` | `[]NoLostWakeUp` |
| | `ObservedIsHandedOver` | `NeverStale` (action property) |
| | `Refinement` | the channel implements `WatchRegister` |
| | `HubAddsUp` | `[]StatsAddUp` of RuntimeStats |
| MinerPauseProofs | `TypeCorrect` | types; the pause counter is the number of armed guards |
| | `PauseHolds`, `NewestIsOffered` | `[]PausedChannelHasNoJob`, `[]WorkersGetNewest` |
| | `EarlyReturnIsSafe` | `process_block(None)` that returns early leaves no job |
| GpuCardProofs | `TypeCorrect`, `PauseIsExact`, `LeaseIsExclusive` | types; `[]PauseCountsGuards`; one holder of the lease |
| | `InstallsAreAlone` | `[]InstallExcludesInference` |
| | `WeightsStay` | no step replaces weights under an installed table (action property) |
| | `WalkIsAlone`, `WalkIsLive`, `TableIsAlone` | if `~Stalls`: `[]WalkAndInferenceExclude`, `[]WalkReadsLiveWeights`, `[]OneTableResident` |
| OpenClCardProofs | `CardsAreAlone` | `[]CardIsExclusive`, on any finite number of cards |
| LlamaServerProofs | `FalseFreesTheCard`, `CommitsAreOwned` | `[]FalseMeansFree`, a denied start excepted; `CommitIsOwned` (action property) |
| EscrowWatcherProofs | `ClaimedOnlyIfSpent` | `[]ClaimedIsSpent` |
| | `ClaimsDoNotCompete` | claims awaiting their answers share no output |
| | `GhostsStayUnclaimed` | `[]NoGhostIsClaimed`, if reorganisations happen while the miner is away and the node still knows the blocks |
| | `LiveIsSpared` | `[]LiveIsNotWrittenOff`, if the chain loses no block |
| StratumSharesProofs | `CountersAreExact` | `[]CountsMatchVerdicts`, which includes hex after a refusal, as long as `[]TrackingFits` |
| PoolAnswersProofs | `AnswersStayOpenable` | `[]TracesStayOpenable` |

None of the safety properties is inductive as it stands. The arguments are:

**WatchChannel.** `Coherent` adds who holds which lock (`WaitLockInv`, `WriterInv`),
that the value is one ahead of the id exactly while a writer is between the two
(`VersionInv`), that nothing newer than the id is recorded as observed
(`ObservedInv`), and how far the Drop has come (`DropInv`). The decisive case is a
receiver that has checked the id and not yet slept: it holds the mutex, so a
notification cannot pass in between. `CountInv`, the receiver count, is proved
apart, with the cardinality theorems. For the refinement, `StoreValue` is the
register's `Send`, the step that clones the value is `Receive`, and all other steps
stutter.

**RuntimeStats.** `AddsUp` splits the hub into connections, attempts, pauses and
escrow, which different steps disturb. The pause clock runs exactly while a guard is
held; a request is counted from the guard's creation to its drop, whichever
connection is current by then. It assumes finitely many requests and a natural
bound on time.

**MinerPause.** `Order` adds that a manager is current exactly while it is live,
what is retained for it, and what a `process_block(None)` between unlock and send
leaves true. The last is why the early return is safe: `is_synced` is already false,
so a guard that drops in between finds nothing to resume. It assumes finitely many
inferences.

**GpuCard.** `Safe` holds even with stalls: which labels a thread can pass, that the
pause count is the number of guards, that a request past its checks found no install
guard (`GuardInv`), that no table is installed once `uninstall_released` took it
(`MapInv`), that the installed table points into the engine load that is resident
(`SourceInv`), and where a thread holds a handle (`HandleInv`). Exclusion of walk and
inference needs `OwnerInv` as well, which says that every handle is on the installed
table or on the one a thread at its barrier took out. A thread stalled past the
barrier breaks `OwnerInv`, and the run `gpu_card_rebuild` shows that `TableIsAlone`
then fails, so `~Stalls` is needed.

**OpenClCard.** `Alone` has the pause and the drain of the request (`RequestFits`),
for each card where its worker holds the setup guard, the miner's mutex and a clone,
and what that excludes for a drained request (`CardFits`), and that `WALK_INFLIGHT`
is the number of shared walks. The last makes the drain sound, since the request sees
only the counter; a worker looks at the pause again once it has the mutex or the
engine's lock. It assumes finitely many cards, at least one, and that `None` is not
a card.

**LlamaServer.** `Fits` relates the caller's place to the place of the newest
child's monitor (`ChildFits`, `PidFits`, `PublishedFits`). Outside a start the pid is
set exactly while a monitor still has a child to reap or its traces to clear, and a
call reaches a launch or a refusal only when it is not set; the server counts as
available only between its publication and the first step of its retirement. The
eviction may come at any moment; a start that finds it set returns as "denied", and
of that return nothing is claimed.

**EscrowWatcher.** `ClaimInv` follows a claim from the wire to the answer: what the
node took is spent, and only such answers record a claim, in memory or in the file.
`DisjointFlights` needs that a batch is chosen among entries in no claim in flight.
`GhostInv` says that an output of a block the chain may have lost awaits its
validation. `LiveInv` says that only dead outputs are blamed and that an orphaned
claim has a dead input; bisection then blames a batch of one only if it is dead. The
selection and the cooldowns are recursive functions over the entries; what the proofs
need of them is proved by induction over sets of naturals (`LeastNat`, `InductNat`).

**StratumShares.** The counters agree with the pool because a reply is matched by
its number alone and the number of a line says what the line was. `Books` states
that: numbers on the wire are distinct and below the next one; the number of a share
is booked and not taken for telemetry or an answer; every other line's number is
tracked as what it is, or too small to be a share's. `Between` says that a
connection that has ended leaves no line. It assumes a pool, and that telemetry is on
or off.

**PoolAnswers.** That an answer stays openable is not inductive, since a restart
keeps only what is on disk. `Recorded` says where the trace of a kept answer is: in
memory with the time it was kept, and with the same time on disk or in the writer's
queue. It assumes that own and foreign requests are disjoint.

Assumptions of constants are named in the modules that declare them and TLC
evaluates them in the runs; those listed above are hypotheses of the theorems.

### What is only model-checked

* Liveness: `SleeperIsWoken`, `PauseAndDropReachWorkers`, `CloseIsObeyed`,
  `RequestsAndInstallsEnd`, `ServingSettles` (but for `CommitIsOwned`),
  `StrandedOutputsDrain`, `SessionRecovers`, `JobsFitThePool`, `TasksSettle`,
  `FailoverSettles`, `QueueDrains`, `MinesAgain`, `AuditIsAnswered`,
  `StartAndStopEnd`. Some of these have safety conjuncts, which are model-checked too.
* The functions of `algorithms`: they are RECURSIVE operators, or their correctness
  is an induction over data, which the provers cannot do. The same holds for
  `StagedIsGenuine`, which is in that run.
* `NoncesWalkedOnce`: the cursor enumerates masks bit by bit, and that two ranks give
  two nonces is an induction over bits.
* `BooksMatchWork`, `NoAnswerIsLost`, `RewardIsTracked`, `AuditFollowsTheChain`:
  these handlers filter and fold sequences (`SelectSeq`, folds with LAMBDA), for
  which tlapm has no usable facts without induction.
* The exact bounds of the escrow cooldowns in its `TypeOK`; `Typed`, without them, is
  what the proofs use.
* `NoOverrideToALostRoute` and the autotuner's books, conjuncts of `RoutesAreOwned`
  and `CardsAreExclusive`, have no proof yet.

## 5. Where code and comments differ

Three differences are runs, recorded under `findings`:

* **`gpu_card_rebuild`.** A request's uninstall that times out fills the quarantine
  without setting `TABLE_STUCK`; the next pass builds a second table beside the one
  that would not drain, although `pom_gpu.rs:2376` says the rebuild is skipped.
* **`pool_idle_timeout`.** The timeout around `try_next` is made anew at each turn
  of the select loop, and the switch check turns it every 3 s, so the idle timeout
  of 120 s cannot elapse. The job watchdog leaves such a connection after 300 s.
* **`tree_slow_builder`.** "exactly ONE process builds; the rest wait" (`pom.rs:1020`).
  A lock counts as stale by its age alone, so a builder that lives but takes longer
  than 90 minutes is robbed of it, and two processes write to one
  `pom-tree.bin.building`. A waiting process tests the age before its own deadline.

Others were met while modelling and are not runs. Those with a name in the modules
can be checked by adding it to the configuration in question.

Jobs and workers:

* `watch.rs:125` reads id and value separately, so a receiver may be handed the same
  value twice. `NeverStale` is what holds. Consequence at `miner.rs:1113`: a worker
  that cleared a mined solo template can be handed it again.
* `miner.rs:225`: the watcher looks at the kill switch and then signals, so a worker
  that exits at the end of the grace period can still be signalled.
* `miner.rs:802` says each worker gets the nonces `(raw & nonce_mask) | nonce_fixed`.
  The CPU worker reads mask and fixed bits only where it blocks for a job; after a
  job taken by the poll it tries nonces of the older assignment (`TriesAssigned`).

Cards and inference:

* `pom_gpu.rs:1275`: "stale offsets can never reach the walk". The note of a
  speculative chase names job, range and batch, not the model. It survives an
  uninstall that did not release the table and that no flag remembers, and a rebuild
  may be of a smaller model or with another cap.
* `llama_vulkan.rs:410`: "Any failure withdraws this route." A start that is denied
  because the engine was evicted returns before it looks; a server that is up stays
  up and available. The caller at `slm.rs:3702` drops the result and asks
  `available_for` itself.
* `pom_gpu.rs:2362`: an empty map counts as released while another thread still
  waits for the owners of the entry it removed.
* `wait_ready.rs:143`: workers register when their backend is built, which can be
  later than 10 s after the first; the gate may then open without them.
* `llama_vulkan.rs:837`: a request failure "closes the exact route just as a natural
  child exit does". A monitor that swaps `AVAILABLE` after `stop_locked` cleared it
  and takes the identity first leaves neither of them to withdraw the proof
  (`FailedRouteIsWithdrawn`).
* `slm.rs:2395`: "only a passed traced self-check" proves a route. The record of a
  passed check outlives the reset of its card, so that a plain answer after the
  reset proves the route again (`ProvenByTrace`).
* `slm.rs:2881`: a swap back un-retires a model and starts a warmer for it. If the old
  warmer has decided to stop but is still registered, the new one ends at once, and
  then the old one leaves (`WarmerSurvivesSwap`).
* `llama_engine_vk.rs:9` says the byte gate guards the shared walk "at every startup".
  A card that passed it keeps its claim when a later request loads another model
  into the engine, and walks over that model's weights (`SharedIsGated`).
* `pom_opencl.rs:1992` explains why a card must not "idle at 0 hash forever". A card
  whose shared engine was unloaded in favour of the server keeps its claim and finds
  no engine to walk on (`EveryCardMines`); and the engine is unloaded for the blob
  when an install was only put off by a pause (`EvictedForVram`).
* `slm.rs:247`: appending is "always consistent" for one writer. Two tasks that stage
  one file can leave a hole under the sentinel (`OkMeansGenuine` with two tasks).
* `pom.rs:1064`: two processes that find a crashed builder's lock stale can both
  remove it, the second removing the first one's new lock (`OneBuilder` with three
  processes).
* `main.rs:498`: "Only consider tiers that ALSO fit this card". The search admits
  `Tier::Light` whatever the memory (`AutoTierFits`).
* The autotuner's lock file left by a saver that died: two savers can both find it
  stale, the second removes the lock the first has made since, and an entry is lost
  (`SavedTunesKept` with `StaleLock`).

Escrow, pool and node:

* `escrow.rs:670`: a claim that expired may have been accepted. If its outputs are
  regrouped, the node rejects the new batch and the outputs that are already spent
  look dead.
* `escrow.rs:1076`: a batch whose amounts do not cover the fee is selected again on
  every block and holds back those behind it, until the bookkeeping of dead entries
  takes it out.
* `escrow.rs:415`: "Worst case on crash we lose a couple of seconds of tracking, which
  is re-derived from the chain". The watcher is also rebuilt from its file by every
  reconnect, and the reward of an inference is not derived again: the answer stays
  marked as given, so its request is not scanned a second time (`forgotten` in
  SoloRequests). `escrow.rs:518`: a red or ghost verdict is never taken back.
* `stratum.rs:2123`: at difficulties in (2^56, 2^57] and (2^120, 2^121] the shift by
  `64 - 0` wraps in a release build and the next word repeats the mantissa; at 2^-71
  and below, 0 included, the index is past the last word and the handler panics
  where a somewhat larger difficulty is refused as "Target is too big".
* `stratum.rs:823`: telemetry is sent with an await on a bounded channel, which can
  block `listen`; `StuckSessionEnds` shows that the supervisor ends it once armed.
* `stratum.rs:449`: an answer counts as delivered "only when that exact submit id is
  accepted". Ids start again with a connection: when a later share under the same id,
  which did not carry the answer, is accepted, the answer an earlier connection
  left behind counts as delivered (`DeliveredWasAccepted`).
* `grpc.rs:1361`: an inference that ended while the connection was down is polled by
  the first tick of the new handler, before the height is known: the answer is
  then of the old unsigned form and its reward is tracked at height 0.
* `grpc.rs:1428`: when the first send of an answer fails the request is finished as
  retryable although the answer is parked and resent; its reward is not tracked.
* `grpc.rs:449`: the timer is there so that mining does not deadlock on a node with one
  producer. On a backend with a global pause nothing asks for a template after a
  replay (`MinesAfterReplay`), or after a challenge orphaned by a reconnect.
* `trace_store.rs:1`: a restart "does not lose an audit in flight". It can for a
  response signed before its connection logged a chain block, which has no anchor
  (`AuditIsAnswered` with `UnanchoredToo`).

## 6. Not modelled

Hash functions, the inference engines, floating-point kernels and device code are
pure functions on full-width data: out of reach of TLC on meaningful inputs. The HTTP
API, telemetry, user interface, IPFS upload, command line and packaging are I/O and
change no mining state. The Metal driver, the legacy plugins, and the Windows variant
of the shutdown (one check after a second, then `TerminateThread`) have no model.

Within the modelled parts: memory accounting of cards is a free choice of the
placement or of the next model; the lengths of delays, deadlines and audit windows
are free choices except in PoolSession, PoolFailover and EscrowWatcher; JSON text,
prompts and sampling are left out; signing, scripts and delegation certificates of
the escrow are conversions; `resend_early_responses` and deadlines of solo openings
are left out. So are failed disk writes of stored traces, the job that a malformed
seed costs, and early returns that only log. `PROJECT.json` lists every component with what is left out of it.

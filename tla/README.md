# TLA+ models of VCSD

VCSD is a fork of the verl reinforcement-learning library. Much of it is tensors: model code,
sharding, kernels. What surrounds them has protocols and bookkeeping of its own, and that is what
this directory models, checks with TLC and proves in part with TLAPS:

* the fully asynchronous trainer (`src/verl/experimental/fully_async_policy/`): rollout and
  training as separate Ray actors that exchange samples through a queue and weights through a
  synchronizer, with bounded staleness and interruptible generation;
* the synchronous and the one-step-off trainer around it: their loops, a step's stages, the way of
  a batch over the ranks, advantages and losses, the engine that training and rollout share;
* what both rest on: checkpoints and resumes, weight transfers, sequence balancing, the reward
  loop and its rate limiter.

Paths below are relative to `src/verl/`; `FA/` is `experimental/fully_async_policy/`.

## 1. Inventory

| component | source | state | operations | interacts by |
|---|---|---|---|---|
| message queue | `FA/message_queue.py` | sample deque, validation deque, version, counters, running | put/get sample, put/get validate, update version, clear, shutdown | RPC; a Condition its consumers wait on |
| rollouter | `FA/fully_async_rollouter.py` | pending and cancel queues, active tasks, paused, staleness count, version, lock + condition | feeder, processor, tasks, monitor, main coroutine, pause / update / resume | one event loop; RPC to queue and servers |
| trainer loop | `FA/fully_async_trainer.py` | batch, local step, version | collect, train, trigger a synchronization, log validations, close | RPC to queue and synchronizer |
| parameter synchronizer | `FA/param_sync.py` | current version, last update/resume handles | `sync_weights`, `wait_last_valid` | RPC to rollouter, queue, workers |
| task runner | `FA/fully_async_main.py` | the two `fit()` futures | start, wait, clear | RPC |
| partial generation | `FA/agent_loop/`, `FA/vllm_rollout/` | paused flag, cancel events, per-request buffers | generate, cancel, resume, continue a turn | RPC from the rollouter |
| fully async weight transfer | `FA/checkpoint_engine.py` | host copies, two halves of a device buffer | register, broadcast in turn, load in a second thread | collectives, ZeroMQ |
| checkpoint engines | `checkpoint_engine/` | two buffers each | stream weights | NIXL reads, NCCL broadcasts, ZeroMQ |
| checkpoints of the Ray trainers | `utils/checkpoint/`, `trainer/ppo/ray_trainer.py` | directories, tracker, list of saved paths | save, prune, load | file system |
| checkpoints of the SFT trainer | `utils/checkpoint/checkpoint_handler.py` | directories, shards, loader states, tracker | save with barriers, resume | file system, barriers |
| one-step-off-policy trainer | `experimental/one_step_off_policy/` | one future, loader position, steps | prefetch, synchronize, train, save | futures |
| PPO trainer: loop | `trainer/ppo/ray_trainer.py` (`fit`) | step, epoch, profiler flags, teacher | epochs, validation, saves, EMA teacher | worker groups |
| PPO trainer: step | `trainer/ppo/ray_trainer.py`, `workers/actor/dp_actor.py` | the batch's columns | generate, score, distil, weigh, update | worker groups |
| batch path | `protocol.py`, `single_controller/`, `utils/seqlen_balancing.py` | order of rows | repeat, pad, chunk, balance, dispatch, split, collect | all of the above |
| advantage estimators | `trainer/ppo/core_algos.py` | none (pure) | one function per estimator | called by `fit` |
| loss aggregation | `core_algos.py`, `workers/utils/losses.py`, both engines | totals of a mini-batch | aggregate, scale, accumulate | all-reduce |
| hybrid engine | `workers/fsdp_workers.py`, `workers/rollout/vllm_rollout/` | what is in the GPU's memory, weights and adapters, prefix cache | wake up, load, sleep | RPC, collectives |
| reward loop | `experimental/reward_loop/` | router's request counts, retries | post, select, retry | HTTP |
| reward limiter | `experimental/reward_loop/reward_manager/limited.py` | token buckets, semaphore | acquire, run, time out | one event loop |
| agent loops, load balancing | `experimental/agent_loop/` | a row's tokens, mask and log-probabilities; sessions per server, a cache of them | choose a server, generate, call tools, interact, pad | RPC, tasks of one event loop |
| tools, sandboxes | `tools/` | token bucket, pools | execute | RPC |
| transfer queue | `experimental/transfer_queue/` | an external package's | fetch by columns | RPC |
| models, kernels, data sets, VLA | `models/`, `utils/`, `experimental/vla/` | numerical | | |

**What is hard.** In the asynchronous trainer, six kinds of coroutine share the rollouter's
`paused`, `active_tasks`, `cancel_queue` and `staleness_samples`; some hold a lock over an await,
some decide before they have the lock; synchronization crosses four actors and returns before its
last two calls are done; interrupted samples move back and forth while they are counted. A
checkpoint is written by several processes, one file after another, while old ones are removed, and
the tracker is a file of its own. Weight transfers overlap filling, sending and loading of two
buffers. A batch is permuted half a dozen times and put back. A step has a dozen options that select
its stages. Two failures, of a replica and of the router, are retried by two loops, one in the other.
`PROJECT.json` lists each hazard at its line with the properties that cover it.

**What makes each component correct.**

* Queue: samples are accounted for once, in order, only the oldest are lost, no wake-up is lost.
* Rollouter: never more tasks than the servers are sized for; a sample is in one place; `pause()`
  waits for everything that generates; nobody sleeps on an unpaused rollout.
* Asynchronous system: bounded staleness; on-policy when synchronous; the end marker is last; every
  version is published in order and its validation logged; weights move while nothing generates
  (where the code achieves that); the program ends.
* Partial generation: no token is generated twice or lost, no request runs over a change of
  weights, the stamped versions cover the tokens'.
* Agent loops: a row's mask and log-probabilities stay those of its tokens, its turns go to one server
  and the rows in equal shares to all, and no length of a tool's response fails a batch.
* Checkpoints: after a crash at any point the tracker names something that can be loaded; progress
  is never lost to a new save; data is neither repeated nor skipped, but for what was in flight.
* Loop and step: every batch once, in an order a resume keeps; teacher and profiler follow the steps;
  every sample is trained with the terms its options ask for.
* Batch: every row keeps its own response; ranks cut the same number of micro-batches.
* Arithmetic: the tokens of tools count for nothing, groups are centred, the loss does not depend on
  how ranks and micro-batches divide a batch.
* Engine: what generates is what was trained; never both in memory.
* Transfers: a buffer stays until it was read; every weight arrives once, whole.
* Rewards: rates hold in every window; retries are bounded, and a request is given up only after all of
  them, or for an answer that holds no score.

## 2. Modules

| module | what it is |
|---|---|
| `MessageQueue` | the queue actor; one action per method, closed by callers in any order |
| `LossyChannel` | abstract: a bounded channel that loses only the oldest, only when over capacity |
| `MCMessageQueue` | the queue as an implementation of the channel |
| `MessageQueueProofs` | five theorems about it |
| `Rollouter` | the rollouter actor: every coroutine of its event loop; closed by a queue that reports any size and synchronizations at any time |
| `RollouterProofs` | five theorems about it |
| `Trainer` | the sequential `fit()` of the asynchronous trainer |
| `ParameterSynchronizer` | `sync_weights` |
| `SampleFlow` | abstract: each sample goes forward once through source, rollout, queue, batch, training |
| `FullyAsync` | the composition of all four actors and the task runner |
| `FullyAsyncProofs` | the system's inductive invariant and thirteen theorems: that it implements `SampleFlow`, staleness, synchronous training |
| `MCFullyAsync` | what the documentation says and the code does not keep, with its runs |
| `PartialGeneration` | the agent loops of a sample and the servers they call, cancelled and resumed around changes of weights; multi-turn with tools or of a single turn |
| `ToolAgentLoop` | a batch of the synchronous agent loops: the choice of servers, the tool agent's states, parallel calls, simulated users, limits and padding |
| `CheckpointManager` | the list of saved paths and what a save removes; used by both checkpoint modules |
| `CheckpointHandler` | the SFT trainer's save by several ranks with its barriers, crash and resume |
| `TrainerCheckpoint` | the save of the synchronous and of the asynchronous trainer: actor, critic, data, tracker; crash and resume |
| `CheckpointProofs` | four theorems about `CheckpointHandler` and, through an instance, four about `TrainerCheckpoint` |
| `OneStepOff` | the one-step-off trainer: prefetched generation, synchronization, training, validation, saves, crash and resume |
| `PPOFit` | the loop of the synchronous trainer: epochs, profiler, EMA teacher, validation, saves, resume |
| `FitProofs` | five theorems about `OneStepOff` and, through instances, five about `PPOFit` and three about `PPOStep` |
| `PPOStep` | one step of it as stages over the batch's columns, for every combination of options |
| `Balancing` | Karmarkar-Karp, balanced and grouped partitions, micro-batches and the inverse, as pure operators |
| `BatchPath` | the rows of a batch from `repeat` to the collected log-probabilities, over agent workers, ranks and micro-batches |
| `Advantages` | twelve advantage estimators as exact fractions |
| `LossAggregation` | the loss of a mini-batch, by both engines, however it is divided |
| `HybridEngine` | workers and vLLM engines that take turns on a GPU: sleep levels, LoRA, offloading, resume |
| `GenerationProofs` | six theorems about `PartialGeneration` and, through instances, two about `HybridEngine` and four about `ToolAgentLoop` |
| `WeightTransfer` | abstract: receivers are handed weights with their values, each at most once |
| `NixlTransfer`, `NcclTransfer`, `BucketBroadcast` | the three engines that implement it |
| `TransferProofs` | five theorems about `NixlTransfer` and, through an instance, five about `NcclTransfer`: that each implements it, and leaves nothing out |
| `RewardLoop` | a batch of reward requests through the router to replicas that fail or reject |
| `RewardLimiter` | token buckets, semaphore and timeout of the rate-limited reward manager |
| `RewardProofs` | three theorems about `RewardLimiter` and, through an instance, four about `RewardLoop` |
| `MCSubsystems` | an instance or two of each of the modules from `PartialGeneration` on, in one specification |

`PROJECT.json` maps every definition to the lines it translates. The operators
that a "Mutant" comment introduces are plausible bugs, used by no specification; each property has
one that breaks it when it takes the place of the definition after it.

`MCSubsystems` joins systems that neither share state nor exchange messages. A variable `system`
says which of the twenty-two runs; the variables of the others stay as their `Init` has them. Its
properties are conjunctions of the modules' named ones, one for each promise, so that a reader
finds `SamplesTrained` in `MCSubsystems` and its parts, `EverySampleTrained` or
`GroupsCentred`, in the modules. The systems' own assumptions on the constants are checked there
as `Assumptions`.

### From code to actions

The asynchronous trainer:

* An asyncio coroutine runs until it awaits something that is not ready. So one action is what a
  coroutine does between two such points. The processor alone takes several actions in a row,
  because the queue it asks for its size moves meanwhile; while it has not stopped at an await
  (`Yielded` is false) nothing else of the rollouter's loop runs. Steps of other processes
  (servers that interrupt or fail a generation, RPC replies, the queue, the trainer) always may.
* `blocked` says what the processor waits for: the lock, a task, the condition, `pending_queue`.
  `asyncio.Lock` hands the lock to its first waiter (`holder`, `waiters`). A coroutine notified by
  `notify_all` takes the lock again before it goes on. Which ready coroutine runs next is
  nondeterministic, a superset of the order asyncio's ready queue gives.
* `active_tasks` is `Live` (tasks that run, by state) plus `reapable` and `failed` (tasks that have
  ended and have not been removed). `done_tasks` is abstracted to "was it ever assigned"
  (`doneBound`), because `pause()` can clear `active_tasks` while the processor waits for the lock
  and the loop then goes over an older, or unbound, `done_tasks`.
* `pending_queue` holds the numbers `taken+1 .. fed`; `DONE` is the number after the last sample.
* A sample in the queue is its number and the version it is stamped with; the end marker is number 0.
* `pause`, `update_param_version` and `resume` are phases of one `control` variable, since the
  synchronizer never has two of them running: `resume` takes the reference of the update's result
  as `dependency_ref`, which Ray resolves before the call, and `wait_last_valid` waits for both
  before the next `pause`.

Steps that are merged, and why: the end of a generation in the server and the stamping in the
task (nothing else reads either); `put_sample`, its reply and the end of the task (the task only
returns afterwards); the pause flag and the cancel RPC (both precede every reaction of a server);
the gather's return, the cache reset and `monitor_loop_trigger = False` (the lock is held and
nothing generates); the resume RPC and the flags (the lock is held). `update_param_version` is
three steps, since it awaits the queue twice with its terms already counted. The model starts where
the two `fit()` calls start, after the initial synchronization, whose validation is in the queue.

The others:

* *Partial generation.* A token is the version of the weights that produced it; tools' tokens are
  -1. A cancel event is set, clear, or absent; `cancel()` and `resume()` reach each server and the
  worker in an order of their own. A synchronization has six phases (`phase`): the lock is held in
  `pause()`, in `update_param_version()` and in `resume()`, and free between them, so the processor may
  submit there if the monitor had decided to recover before the pause. Each submission
  stamps the sample with `current_param_version` (`FA/fully_async_rollouter.py` 513), which is
  one behind the servers' weights from the end of the transfer to `update_param_version()`; a loop that
  terminates takes that stamp for its `param_version_end`.
* *Agent loops.* Of a token its author is kept; a log-probability is the author of the token it is of,
  so one that has slipped is seen. The heap of counts is its order, the cache a sequence. An
  exception in a row, or rows of different widths, fails the batch.
* *Checkpoints.* A checkpoint is a set of shards (or the parts actor, critic, data) of a directory
  named by its step; a crash can come between any two writes, and loses all that is in memory, the
  manager's list of paths included. The asynchronous trainer's tracker can be torn, since it is
  opened for writing; the SFT handler's is renamed into place. Its `data_<rank>.pt` are written in place:
  opening one and writing it are two steps (`OpenData`, `SaveData`), between which it is `Torn`.
  A restart takes a missing one for a loader at its start and raises on a torn one. A shard's two
  barriers come before the tracker's rename, so a torn shard is never loaded and counts as absent.
* *One-step-off, PPO loop.* Weights are a number of updates; a batch is its number in the data.
  The teacher is the set of updates it has taken in.
* *PPO step.* A batch is the set of its columns; a stage adds columns, and needs those the code
  reads. Samples differ in whether a solution for their teacher exists.
* *Batch path.* A row is its prompt and its copy; a response is computed from the row, so that a
  misplaced one is seen.
* *Advantages.* Values are integers and fractions, compared by cross-multiplication; whitening, and
  the small constants added to denominators, are left out. The standard deviation is compared by its
  square. A mask has tools' tokens between turns or at the end.
* *Losses.* A row is its number of tokens and the sum of their losses; a rank's step is the mean over the
  ranks of the sums over micro-batches, for every division of the rows.
* *Hybrid engine.* Weights are versions of base and adapter, or garbage where memory was given up;
  a prefix cache is the set of policies it was filled under. All combinations of LoRA, `load_format`,
  `free_cache_engine`, offloading, `layered_summon` and sleep level are initial choices.
* *Transfers.* A weight is its index; a bucket the indices packed into it; a buffer can be overwritten
  at any time by whoever fills it next. The executor's thread, the other thread, and the peers take
  steps of their own.
* *Rewards.* Time in the limiter is a clock in fractions of a second; timers fire late by up to
  `Late`. A request of the reward loop goes through the router's attempts and the task's retries. A
  fault is a connection that fails before there is an answer (the router sends again), an error
  status (the task posts again), or an answer that is empty or breaks off while it is read, of which the
  router makes `{}` with status 200 (`naive_router.py` 34-48): nothing is tried again then.
* *Trainers' saves.* A save can also be due because the instance is about to expire
  (`should_save_ckpt_esi`), in all three Ray trainers: `\E expires \in BOOLEAN`.

## 3. Runs

| run | instance | what it shows |
|---|---|---|
| `message_queue` | 2 consumers, size 2, 4 puts | `Conservation`, `LatestInOrder`, `NoLostWakeup`, `ShutdownReleases`; implements `LossyChannel` |
| `rollouter` | 3 samples, pending 2, 2 tasks, partial, 1 failure, 1 sync | `ActiveBound`, `NoLostWakeup`, `NoDoubleSubmit`, `GatherOnlyShrinks` for any queue |
| `synchronous` | 5 samples, threshold 0, 2 steps per version | `OnPolicy`, `NothingLost`, `QuiescentTransfer`, `Termination` |
| `stale_stream` | 5 samples, threshold 1, 2 tasks, no partial | `FreshEnough`, `ValidationsLogged`, `VersionOrder` |
| `partial_rollout` | 4 samples, threshold 1, 2 tasks, partial | `StalenessCovers`, `ProcessorSurvives`; implements `Rollouter` and `SampleFlow` |
| `failing_generation` | 3 samples, pending 1, 1 failure | `EndOfStream`, `Termination` |
| `subsystems` | twenty-two systems, next table | the properties below |
| `rollout_num`, `no_new_tasks`, `interrupted_continue`, `rollout_recovery`, `ema_teacher` | 3 to 5 samples; 5 steps | documented behaviour the code does not have (section 5) |

The properties of `subsystems`, and what is in each:

| property | its parts |
|---|---|
| `CheckpointsKept` | the tracker names a complete checkpoint at every instant (`Resumable`); retention keeps what it should (`Rotates`); a restart fails on a torn tracker only (`OnlyTornFails`) |
| `NeverLosesASave` | no restart resumes from before a save that all ranks finished, and each rank finds the position of its loader in it; one fails only on a torn data file of a later save, which the tracker names before every rank has finished it |
| `DataOnce` | no sample twice, only those in flight skipped, every batch once, over crashes |
| `FitResumes` | profiler, data, last step and teacher follow the steps, over crashes |
| `OneStepOffPolicy` | one policy per batch, one update old; a validation at most one behind |
| `ResponsesWhole` | across interruptions nothing is regenerated, and the mask marks the model's tokens; in the synchronous loops mask and log-probabilities stay those of the tokens (`RowsIntact`), sessions are sticky and balanced (`SessionsBalanced`), and a batch fails only for a reason (`FailsIfUnsupported`) |
| `VersionsKnown` | no request over a change of weights; events set exactly while paused; stamps cover tokens, but for one version when the last submission fell between `pause()` and `update_param_version()` |
| `SamplesTrained` | a completed step has trained every sample; a failed one had unsupported options; the estimators pass over tools' tokens, centre groups and agree with their vectorized forms; the loss does not depend on the division of a mini-batch |
| `BatchInOrder` | rows keep their responses; loads of ranks are close; groups stay together |
| `BuffersStay` | buffers stay until read; buckets partition the weights; a rank that returns has loaded them all |
| `Transfers` | each engine implements `WeightTransfer` |
| `EngineHoldsActor` | every rollout is of the actor's last policy, prefix caches included (`GeneratesWithActor`); actor and engine are never in memory together (`MemoryShared`) |
| `RewardsServed` | rates hold in every window; the router counts no less than it sends; retries are bounded, and exhausted before a request is given up, unless one of its answers held no score (`GivenUpForCause`) |
| `Completes` | what was started ends: the training of each trainer (or, resumed, it fails for want of data or on a torn file), steps, batches, samples, pauses, transfers, requests, rollouts |

**Bounds of the asynchronous runs.** `TotalSamples` bounds everything: the number of versions
follows from it, and the counters from that. With one sample per version and threshold 1 the limit
is two samples, so four or five samples fill the queue, reach the staleness limit, drop from a full
queue and pass several synchronizations. Two concurrent tasks give every interleaving of a pair of
samples. A pending queue smaller than the data set exercises the feeder's wait; five samples are the
least with which a wrong stamp or order can break `FreshEnough`. `MaxFailures` bounds the
generations that raise, `MaxPuts` and `MaxVersion` the calls in the stand-alone modules. No
symmetry is used: samples are ordered numbers, and runs with liveness exclude it.

**Bounds of the subsystems.** Each instance is written out in `MCSubsystems`, sized so that its
hazard occurs. Two crashes (`MaxCrashes`) let a resume be interrupted itself; four to five steps with
retention of two and three let checkpoints be removed by both of two processes' lists. Agent loops
have a turn that can be interrupted before, in and after a tool call. In one instance two of them share a
server through a synchronization; in another one has two servers and two synchronizations, so that it can
be submitted in one and interrupted or finished in the next, as in a third, of a single turn. In the
synchronous loops two rows share a worker with two servers: one instance has parallel calls and a
cache of one session, so that turns are sent elsewhere; the other a prompt that is cut, tools that say
more than fits, and validations whose responses may be shorter or longer than the training's. Twelve rows on two data-parallel ranks of two sequence-parallel
ones come in four sets of lengths: mixed, such that ranks need different numbers of micro-batches, such
that none can be filled, and with ties. Six weights in buckets of three make buckets that are
exactly full, and one more bucket than buffers; the ring of three agents has one in the
middle. The estimators see all batches of three responses out of five masks, four score vectors and
two groupings; `Gamma` = 2 and `Lam` = 3 stand for discounts, since a factor other than 1 must be
seen and no property needs it to be below. The loss is checked for every assignment of rows to two ranks and
every partition into micro-batches. The hybrid engine has two replicas, any combination of options, a
checkpoint or none, and two updates. The reward loop has three requests, one of which may be
malformed, two replicas, two of three attempts and two of sixteen retries: enough for a retry that
succeeds, one that is exhausted, and one inside the other.

**Fairness.** In the asynchronous system: weak fairness for each coroutine, actor and task: an event
loop runs what is ready, a server ends every generation it starts, Ray executes every call, the
monitor wakes from its sleep. Weak is enough because the lock queue is first come first served.
Nothing is assumed of failures. In `MessageQueue` a notified consumer tests again. The subsystems
each have their own, in their `Spec`: weak fairness of every process's steps (a rank, thread,
transfer, timer or coroutine that can go on does; of the next-state relation where every step is progress), and none of crashes, failures of
replicas or interruptions. A peer that never answers is therefore not modelled; the code would wait
for ever in most such places (section 5 names one).

**Deadlock** is checked in the runs of the asynchronous system; the only state allowed to stay is the
end (`Terminated`). `subsystems` turns it off: each of its systems ends, and what it ends in is
what `Completes` says.

## 4. Proofs

The proofs hold for every value of the constants that satisfies `QueueAssumption`,
`RolloutAssumption`, `FullyAsyncAssumption`, `HybridAssumption`, `HandlerAssumption`,
`CheckpointAssumption`, `OneStepOffAssumption`, `PPOFitAssumption`, `NixlAssumption`, `NcclAssumption`,
`PartialGenerationAssumption`, `ToolAgentAssumption`, `LimiterAssumption` and
`RewardLoopAssumption`: sizes and limits are
positive, a batch has finitely many requests, no weight is larger than a bucket (`send_weights` asserts it), the
concurrency limit does not exceed `max_required_samples` (the code takes the minimum of both), the
staleness threshold is any fraction not below zero, every worker is a rank of exactly one replica, and
the server's context has room for a response of `response_length`.

* **Queue.** `TypeCorrect`; `SamplesConserved` and `OrderKept` from the inductive `Accounts`, which
  joins types, conservation and order: a drop keeps the order only if the length and the counters
  agree. `WakeupsKept` is inductive alone. `QueueImplementsChannel`: each action maps to a step of
  `LossyChannel` or a stutter; it needs `Accounts` because the set of queued numbers has as many
  elements as the sequence only if the numbers are consecutive.
* **Rollouter.** `TypeCorrect`; `WakeupsKept`; `GatherShrinks` from `LockHeld` (while `pause()`
  gathers, the lock is held by the control coroutine, so the processor cannot submit);
  `SubmittedOnce` (`NoDoubleSubmit` with types); `ActiveBounded` from `Admitted`, which says that
  the room found by the limit test is still there when, a lock and a condition later, the task is
  added, because only the processor adds tasks. The lemmas after these say what each step may do to
  what the system counts (`LoadStep`, `CountedStep`, `RollingStep`, `WhoStales`, `WhoStamps`).
* **Asynchronous system.** Every theorem rests on `SystemInv`, the conjunction of five parts.
  `Rollout` is the rollouter's own invariant; `RolloutImplemented` says that the system's rollouter
  is the one specified alone, so the lemmas on it are used as they are. `Kinds` are the types.
  `Training` says where batch and step count are in each phase. `Handshake` says where a
  synchronization is: since `wait_last_valid()` returns only when the last one is over, each of the
  five copies of the version is a function of the phase and of the control coroutine's place, of
  which `VersionsOrdered` is a consequence. `Accounts` counts samples: what the rollouter carries and
  what was put is at most what was taken, and every version took a sample; so the versions are
  bounded, which `SystemTypes` needs.
  `AllValidationsLogged` adds `ToLog`: in each phase the validations that wait and the one that may
  still come fit the logging steps left. `StreamEnds` adds that no marker is queued before the main
  coroutine is past the stream.
* **Sample flow.** `FlowImplemented` needs `OnePlace`: a sample is in one of hand, task, cancel queue,
  message queue and batch, or is not fetched, or gone. Then every step is one of `SampleFlow`'s, and
  an overflow loses the oldest only of as many as the capacity.
* **Staleness.** `StalenessCovered` from `StalInv`, which counts what is under way (`RP!Load` and the
  queue) against `staleness_samples`; `Counted` says that what `update_param_version()` counted stays
  counted while it awaits the queue. `FreshTrained` numbers the samples the trainer passes: a sample
  at place p of the queue is the (`Passed` + p)-th, `FreshInv` bounds that number by the version on
  the sample, and `Told` is a version that nothing put from now on is more than one behind.
  `OnPolicyTraining` and `QuietTransfer` are about `StaleNum = 0`. Their `SyncInv` says that the samples
  claimed for a version (collected, under way, or all of them from its last training step until
  `update_param_version()` is over) are no more than `staleness_samples` and than one version takes.
  So nothing is under way during a synchronization, and all that is queued carries the trainer's
  version (`Current`).

* **Hybrid engine.** `EngineTypes` and `EngineSafe` (`EngineHoldsActor`: every rollout is of the
  actor's policy, prefix caches included, and actor and engine take turns on the GPU) from the
  inductive `EngineInv`, for every number of replicas and updates, all options and every checkpoint.
  That a generating engine holds the target says nothing of what a sleep leaves and the next load
  completes, so `EngineInv` follows the weights round the cycle: `Staged` (where the workers can be while
  the trainer is where it is), `Synced` (whose `base_sync_done` is set, which decides what is
  collected), `Gathered` (what is collected is what will be loaded), `Filled` (an adapter is only
  ever loaded over base weights that a sleep at level 1 has kept or that are handed over again),
  `Freed` (what is in memory at which stage) and `CacheOf` (a cache is of the target and is empty
  before any of its replica's workers sleeps). The last part needs replicas that are not empty.

* **Nothing lost.** `NothingLostInSync`, in synchronous training (`StaleNum = 0`) with generations that
  do not raise (`MaxFailures = 0`), with partial rollout or without. Each hypothesis is needed: a
  generation that raises is a sample gone; with a threshold above 0 what a synchronization
  interrupts while the processor finishes is lost (section 5). The invariant follows a sample from the
  fetch on. `Kept`: what was fetched is with the rollouter, queued, collected or trained on.
  `LastRoom`: whoever fetched the marker left room for it, so with `SyncInv` no put finds the queue full.
  `Calm`: the servers are paused only from `pause()` to `resume()`, while nothing is live, and the
  monitor does not clear `paused` in between; so nothing is ever cancelled, which
  `PartialRolloutIdle` says by itself (`FA/README.md` 152: partial rollout "only actually takes effect when
  staleness_threshold>0"). That the monitor does not is a matter of the lock's order: it only
  decides to recover before `pause()` asks for the lock, as from then on `staleness_samples` is at its limit,
  and `asyncio.Lock` is first come, first served (`MonitorFirst`). `AtClose`: at the end marker
  all that is left untrained was in the trainer's batch, less than `required_samples`.
* **The processor lives.** `ProcessorLives` needs `NeverStarved`: `pending_queue` holds more than
  `max_concurrent_samples`, or `max_required_samples`, or the whole stream. With a pending queue of one and
  one task at a time TLC does reach the unbound `done_tasks`; the code's has 128 places, and
  `max_concurrent_samples` is 16 per server. `FirstWait` says why: until the processor has waited for
  a task once it is alone in its first run over the stream (`FirstRun`), in which it neither
  waits for the feeder nor sees a synchronization.
* **SFT checkpoints.** For any number of ranks, steps, crashes and any retention limit but 1
  (`MCKeepOne` shows what 1 does): `TrackerNamesWhole` (`Resumable`: the shards of all ranks),
  `SavesKept` (`NeverLosesASave`) and, for every limit, `RotationBounds`. `SavesKept` says which restarts
  go well: all but those that find the tracker at a save that was not finished and a data file of it torn
  (`TrackedTorn`; `MCAutoResume` reaches one); `Tracked` gives that a *finished* save
  has all its loader positions, so that a restart from it neither fails nor starts a loader anew. The
  invariant says which files of the
  directory being written exist at each rank's place between the barriers (`Written`), that the tracked
  directory is the last of the manager's list or older than this process (`Listed`, `Tracked`), and that
  the list is ascending and never longer than the limit; so what a save removes is never what the
  tracker names, as there is a second entry behind it.
* **Checkpoints of the Ray trainers.** `TrainedOnce` and `SkipsBounded` for every limit, from the counting
  part of the invariant (`CountInv`: the weights in memory, those in each saved actor and the
  feeder's position are functions of the steps and of what each resume skipped). `OnlyTornStops` for
  limits other than 1 (`MCActorKeepOne`), from `PathInv`: the list of each group's paths ends
  with the tracker's version or, once it is saved, with the one after it, and all on the list is on disk.
* **One step off.** `StaysOneStepOff` (`OnePolicyPerBatch` and `OneStepOffPolicy`), `BatchesOnce`
  (`EveryBatchOnce`) and `ValidationClose`, for every size of the data, number of steps and of
  crashes, frequency and warm-up. Of the invariant's parts `OneBehind` says which of the three versions
  (actor, servers, batch generated ahead) are equal where in a step: the servers' changes only when the
  future is ready, and the warm-up may leave the actor's unchanged. `NewBatches` says that batch in
  training, batch generated ahead and what was trained are apart and none is past the stream's position;
  as a checkpoint saves that position, a resume skips the batch generated ahead instead of training a batch
  twice. `DataAhead` bounds what is skipped by the crashes, which `TypeCorrect` needs.
  `FailsOnlyResumed` limits what `MCEndsGracefully` shows: if total_epochs epochs hold a batch
  for every step (`EnoughData`, the default of `total_training_steps`), no step of a process that was not
  resumed finds the stream exhausted; the iterator of a resumed one ends at most total_epochs epochs
  after the start of the one it is in, the batches skipped included.
* **PPO loop.** `ProfilersFollow` (`ProfilesItsSteps`), `StepsFollowData` (`DataFollowsSteps`),
  `TeacherInStep` (`TeacherFollows`) and `LastStepSaved` (`EndsWithLastStep`), for every number and length
  of epochs, last step, set of profiled steps, frequency and number of crashes. Step, epoch and
  loader are three counts, and a resume restores the first and the last and divides to get the second.
  `Counted` relates them in every place of the loop, also after a resume at the end of an epoch, where the
  epoch is one ahead (`Lost`) for the rest of the process; `SavedAt` says that every checkpoint, one
  of such a process too, is consistent in itself, so the difference does not add up over resumes.
  `EpochOf` is the division. `Limits` bounds the steps: a process
  that dies between its last save and its return makes the next one train one step more.
  The first form of `ProfilesItsSteps`, profilers off whenever `fit()` has returned, passed on the small
  instance; its proof failed where the epochs run out, and TLC then refuted it with epochs of two batches
  and steps 4 and 5 of six profiled: after a lost epoch the loop ends before its last step (section 5).
* **A synchronous step.** `OneLossEach` (`EverySampleTrained`), `StepFailsIfUnsupported`
  (`FailsIfUnsupported`) and `StepTypes`, for any set of samples and every accepted configuration. `StepInv`
  says which columns the batch has at each stage, as a function of the options (`PassesDone`,
  `TeacherGiven`, `AdvantagesGiven`), so that a column a stage misses points to the option that leaves it out.
  The arguments meet at two stages. At the advantages, `WithoutRewards`: a batch without rewards needs
  some only where bypass mode took the driver's `vopd` away or a sample's teacher had nothing. At the actor,
  `Selects`: all it selects is there if and only if the configuration is supported, which gives
  both halves of `FailsIfUnsupported`.
* **Weight transfer by NIXL.** `TransferImplemented` (the chain implements `WeightTransfer`),
  `NothingLeftOut` (a receiver that has returned was given all weights, in order), `BucketsStay`,
  `ReturnsClean` and `TypeCorrect`, for any number of ranks, weights of any sizes and any bucket
  that the largest fits in. `AnnouncedStays` is not inductive: that a bucket is overwritten only once it was
  read depends on the notification that gives its buffer back, and that a rank gets the right weights on
  where its neighbour is in the stream. So the invariant is local: `Place` and `Holds` say where
  each of a rank's two buffers is and that it holds a `Span` of the weights, of which `received` is
  always the first so many; `Link`, between neighbours, says that an announced buffer is waiting for
  its reader, being read or given back, one of the three, and that what the one has sent (`Sent`) is what the
  other has read or is about to (`ReadTo`). A step of a rank disturbs its own parts and two links;
  `Together` puts them back into the whole. `First` has a corner of its own: a bucket that was
  just announced is empty, and cannot be announced again as the next weight fits into an empty bucket.
* **Weight transfer by NCCL.** `NcclImplemented` (the broadcast implements `WeightTransfer`),
  `NcclNothingLeftOut`, `InFlight` (`InFlightStays`), `MissedIsForever` (`MissedBlocks`) and `NcclTypes`,
  for any number of receivers, also none, all weights and every bucket. The broadcast is the only
  moment at which all ranks are in step, so the invariant measures everyone against `Reached`, the weights
  whose broadcast is over: a receiver that has unpacked has exactly those at hand, one that has not
  swapped yet lacks the bucket in its other buffer (`Stream`). `Published` says that the metadata
  a receiver reads is that of the broadcast it then enters, never of an earlier bucket, and `Stuck` what a
  missed subscription leaves: a receiver outside the broadcast with nothing to read, on whom all
  the others wait. So the theorem covers both outcomes: no schedule hands over a wrong weight, and
  the lost message costs the transfer's end, not its result.
* **Interrupted generation.** `MaskAligned`, `NothingTwice`, `RequestsOfOneVersion`, `StampsCover`,
  `CancelsMeet` and `TypeCorrect`, for any number of loops and servers, lengths and limits, number of
  turns, tool calls and synchronizations, with tools or of a single turn. `Response` is the invariant of a
  loop: its arrays are aligned (`Aligned`), its tokens are of the versions since its stamp (`Within`), its
  last stamp covers them but for the one version that `StampsCoverTokens` names (`Stamps`), what
  was generated for it is what the model wrote of the response and what its running request has. Each
  rests on the others: a token appended by the request is of the current version only because the
  weights change while all loops are out of their worker, and then no request has any output
  (`Phases`), in which it needs that a loop submitted during a
  synchronization is turned away by every server until `resume()`; and a reply fits into the context only because the
  request's share of it was counted.
  `Event` says that a request's cancel event is set exactly while its server is paused, which holds
  across a request that returned early and left its event behind, as the next one registers its own. The
  lemmas `Generated` and `GeneratedByTools` count the tokens of a concatenation.
* **Synchronous agent loops.** `RowsReturnedIntact` (`RowsIntact`), `SessionsStayBalanced`
  (`SessionsBalanced`), `BatchFailsIfUnsupported` (`FailsIfUnsupported`) and `AgentTypes`, for any
  number of rows, workers and servers, all lengths, limits and configurations. `RowAligned`
  joins tokens, mask and log-probabilities; a tool's tokens get zeros only where log-probabilities
  are there already, so it needs that the model says something first, which `Going` carries from the server's
  refusal to generate nothing. `ResponseIs` is the slice of `prompt_ids` by the mask's length.
  `Going` also bounds a row wherever it may ask again, which leaves room in `max_model_len` for at least
  one token; only what a simulated user says escapes it (section 5). `Sessions` says that a cache has one
  entry for a row, of its own worker's rows; so by `RoomForOne`, an injection from entries into rows, an entry
  is only ever dropped by a worker with more rows than the cache holds. The heap needs no invariant but
  `Balanced`.
* **Reward limiter.** `RateIsKept` (`RateKept`), for any requests and processes, all costs, limits and
  timeouts: in a span of time no more passes a bucket than it holds (or one request costs, if that is
  more), what it refills in that span and in the time a timer may be late. What passed when does not
  decide that: a request larger than the bucket takes its tokens at once and sleeps until they are
  there, and the next may be charged while it sleeps. So the invariant is about due times. `Paced` says that there is an
  assignment of them, for all that have been given tokens or owe them, with three properties: a request
  passes at its due time or as much later as timers are; any span has only as many due times as
  it has room for; and those after an instant leave room for what the bucket has now. The lemmas on an
  acquire extend the assignment by the one that takes its tokens; the clock alone only adds room.
  `LimiterTypes` gives that no bucket holds more than a second's refill. `CoroutinesLimited` is
  `ConcurrencyLimited` for a `compute_score` that is a coroutine (`~Executor`); for a plain function it
  is false (section 5).
* **Reward loop.** `LoadsCounted`, `SendsLimited`, `GivenUp` (`GivenUpForCause`) and `LoopTypes`, for any
  number of requests, replicas, retries and faults. `GivenUp` separates the two ways to lose a request: all
  posts failed, each by a fault of its own unless the request is malformed; or one answer without a score,
  which costs one fault and no retry. `Attempts` bounds how often a request was sent by where task and
  router are with it, so that the two loops multiply and do not add. `Loaded` strengthens `LoadCounted`:
  while no post has failed the count of a replica is exact, so the one the router selects has no more
  to do than any other, and as all replicas' requests are disjoint (`Shared`) no more than its
  share. After a failure the counts are too large for good, and only the first half is kept.

`LagBound` is not the bound first written down. `MaxRequired \div PerVersion + 1` was what the
small instance showed; the proof did not go through, and TLC refuted it on a larger one (12 samples,
two per version, threshold 1/2): a sample may be stamped two versions back when it enters the last
place of the queue. Both agree for the constants of `stale_stream`.

Only model-checked: liveness (`Termination`, `ShutdownReleases`, `Completes` and the recovery run),
which is out of the prover's reach; the transfer by buckets, whose buckets are a fold over the weights
(`BucketsOf`), so that what they hold is an induction over data; for the same reason
advantages, losses, sequence balancing and the order of rows on the batch's path. `CountsReleased` and `RejectedOnce` of the reward
loop do not hold (section 5).

## 5. What the models disclose

### Listed runs

Each of these runs checks one sentence of the documentation and is violated by the model of the
code. The four of `MCFullyAsync` do not depend on a starved coroutine: three use the action
constraint `PromptLoop`, which lets the rollouter's processor and tasks do all they can before
anything else happens, and the fourth violates its property under fairness.

* `rollout_num` (`FA/README.md` 142): `update_param_version` counts active tasks, `cancel_queue` and
  the queue, but not the sample the processor has taken and not submitted yet. So one sample more
  than `max_required_samples` can be under way, and `put_sample` then drops the oldest.
  `StalenessCovers` is what does hold: one more, never two.
* `no_new_tasks` (`FA/README.md` 237): the monitor decides to recover, waits for the lock `pause()`
  holds, and clears `paused` after it, in the middle of the transfer; the processor then adds tasks.
  The same property holds of synchronous training (`synchronous`).
* `interrupted_continue` (`FA/README.md` 246): after `DONE` the processor only waits for
  `active_tasks`; a synchronization that interrupts the last ones leaves them in `cancel_queue`.
* `rollout_recovery` (comment at `FA/fully_async_rollouter.py` 634): a sample submitted in the window
  of `no_new_tasks` is interrupted at once, its task still in `active_tasks`, itself in
  `cancel_queue`; the reset counts it twice, and with the limit reached the processor and the
  monitor keep the rollouter paused while the trainer waits on an empty queue.
* `ema_teacher` (`README.md` 31, `workers/config/actor.py` 69): `save_checkpoint` writes the EMA
  teacher (`workers/fsdp_workers.py` 1195-1201), `load_checkpoint` (1258) loads the actor only,
  and at start the teacher is the freshly loaded reference model (931). After a resume the student is
  distilled from the initial weights plus the updates since.

`ProcessorSurvives` (the unbound `done_tasks` at 452, 479 and 490 is never read) is checked with a
pending queue that holds all samples, and proved for one that `NeverStarved` admits. With a smaller
one the model does reach that read, but only if the woken processor is kept waiting while a pause
gathers; it is reported here and not as a finding.

### More disagreements, with a configuration each

These configurations are not among the runs; each finds every property it lists violated
(`tlc -continue -config MCKeepOne.cfg CheckpointHandler`, and so on). A row without a configuration
is another property of the one above it.

| configuration | module | what it shows |
|---|---|---|
| `MCKeepOne` | `CheckpointHandler` | `Resumable`: with `max_ckpt_to_keep` = 1 the previous directory is removed inside the engine's save, before loader state and tracker are written; a crash in between leaves a tracker that names nothing. `checkpoint_manager.py` 148: "we keep the existing checkpoint until the new save completes successfully" |
| | `CheckpointHandler` | `SameIterator`: rank 0 writes the tracker before the barrier that waits for the others' `data_<rank>.pt`; a rank without one starts its loader anew beside one that resumes. `checkpoint_handler.py` 104: "it's identical in each dp rank" |
| | `CheckpointHandler` | `KeepsAtMost`: `previous_saved_paths` starts empty in a new process: what an earlier one saved is kept for good. `sft_trainer_engine.yaml` 68: "Maximum number of checkpoints to keep" |
| `MCAutoResume` | `CheckpointHandler` | `ResumesIfAvailable`: rank 0 renames the tracker (`checkpoint_handler.py` 116-122) before the barrier at 131, while another rank may be writing its `data_<rank>.pt` in place (113). After a crash there `torch.load` (167) raises on the torn file at every restart, where a missing one draws a warning (177); the whole checkpoint before it stays unused. `sft_trainer.yaml` 75: "resume from last checkpoint if available" |
| `MCActorKeepOne` | `TrainerCheckpoint` | the same of `max_actor_ckpt_to_keep` = 1 in the Ray trainers: the tracker names a folder without an actor |
| `MCAtomicTracker` | `TrainerCheckpoint` | the tracker is emptied, then written; after a crash in between no resume succeeds. `fully_async_trainer.py` 440: "for atomic usage" |
| `MCEndsGracefully` | `OneStepOff` | at the end of the stream the awaited task yields `None`, which `fit()` unpacks. Its README, 101 and 116, ends the loop there |
| `MCToolCallsAnswered` | `PartialGeneration` | a tool call whose beginning was generated before an interruption is not recognized, as only the rest of the turn is parsed; `FA/README.md` 526: resumed "rather than starting over" |
| `MCAdapterFirst` | `HybridEngine` | LoRA with `load_format: dummy`, the default: the first wake-up loads base weights only, so the first rollout, also after a resume, is of the base model without its adapter |
| `MCRewardLoop` | `RewardLoop` | `RejectedOnce`: a replica's 4xx is raised in the router, reaches the task as 500 and is posted again up to 16 times. `reward_loop.py` 136: "Do not retry on 4xx client errors" |
| | `RewardLoop` | `CountsReleased`: `request_counts` is given back on success only; each failure makes its replica look busier for good |
| `MCDocumented` | `MCSubsystems` | `ValidationLonger`: `vllm_async_server.py` 482: "Validation can request a longer response length"; the servers grant it, but `ToolAgentLoop` ends and cuts at the training's `response_length` (`tool_agent_loop.py` 124, 198, 248) |
| | `MCSubsystems` | `AggregationInvariant`: `core_algos.py` 1037: "invariant to fsdp/megatron parallelism"; `seq-mean-token-sum-norm` has no factor `dp_size`, so with data parallelism its loss is too small by that factor |

### Further properties stated in the modules that the code does not have

* `PPOStep!NeverConsumesRewards` (comment at `ray_trainer.py` 2676): reward-free
  self-distillation leaves the rewards out, but advantages are skipped (2705) only if every sample has a
  teacher; otherwise they are computed from rewards that are not there, and the step fails. `PPOStep!DecoupledRecomputes` (comment at
  2605): the reuse of rollout log-probabilities (2621) leaves the decoupled correction nothing to
  compare with.
* `ToolAgentLoop!Interacts`: what a simulated user says is added without a test of the length
  (`tool_agent_loop.py` 392-403), so the next turn may have no room left in `max_model_len`; the server
  then refuses it and the batch fails. Of a validation with a *shorter* response length the tool
  agent's rows may be longer than the padding, and cannot be concatenated (in `FailsIfUnsupported`).
* `RewardLimiter!ConcurrencyLimited` and `EnforcedAcrossWorkers` (`limited.py` 182-184, 196-198): a
  function that times out runs on in its executor while its place is given to another, and each
  process has its own buckets.
* `BatchPath!MicroBatchesFit` (docstring of `rearrange_micro_batches`): the number of micro-batches
  is enough for the sum of the lengths, but a partition into that many may exceed the maximum.
* `LossAggregation!LegacyTokenMean`: the loss of `dp_actor.py` in its default mode depends on the
  micro-batches, since each averages over its own tokens; what does hold of it is `LegacyInvariant`.

### Observed while modelling

* A reward model's answer that is empty, or whose connection breaks while the router reads it, is answered
  `{}` with status 200 (`naive_router.py` 35-44). The task's `output["data"]` (`reward_loop.py` 213, 220)
  then raises outside the loop that would post again: one such fault fails the batch, where one
  of any other kind costs a retry (`RewardLoop!EmptyAnswer`, `GivenUpForCause`).
* A sample that the monitor lets through between `pause()` and `update_param_version()` is stamped with the
  version before the synchronization (`FA/fully_async_rollouter.py` 513) and generated, once the servers
  resume, with the one after: its `param_version_end` is one too low (`StampsCoverTokens`).
* REINFORCE++ sets the running return to zero at every masked token, so a tool's tokens cut
  the outcome off from the turns before; the properties say "of its own turn" for that reason.
* The score sits on the response's last attended token (`agent_loop.py` 848-854). If that is a tool's,
  GAE and ReMax, which skip or mask it, never see the score.
* RLOO gives a group of one its score, its vectorized form 0. `VectorizedAgree` excludes groups of one.
* `compute_advantage` passes the token-baseline estimators a `config` and not `old_log_probs` and
  `sum_pi_squared`, so neither can be selected; both are modelled as functions.
  `handle_zero_tail` uses a number of tokens as a position, which is one only without tools.
* An epoch that ends exactly at a save resumes with an exhausted loader, and that epoch of the count is
  lost (`ray_trainer.py` 2448): `fit()` then returns before its last step, without its validation
  and save, and with continuous profiling may leave the profilers on.
* The comment at `ray_trainer.py` 2764-2770 makes a positive `save_freq` mandatory for a save; the
  condition saves the last step without one.
* Bypass mode writes its loss mode into the driver's configuration (`rollout_corr_helper.py` 1074) when
  the workers have copies of theirs, so the loss of `config/algorithm.py` 121-123 is not the one they use.
* In `rollout_mode` the LoRA branch for sleep level 2 uses `device`, which is bound only if the
  base is not synchronized; no value there is a `DTensor`, so it is never evaluated. The first `sleep()` of
  the agent loop manager precedes any `rollout_mode` and replaces the generators' seeds.
* `_post_request` has no timeout (`ClientTimeout(total=None)` under a comment that asks for one), and the
  router's `timeout` is unused: a replica that never answers stops the batch. A retry of the router
  goes to the same replica. If scoring raises, the reward model is left awake.

## 6. Not modelled

* Of the asynchronous trainer: metrics, statistics, contents of validations; failure of a whole
  actor and the runner's `ray.cancel`; failure of the feeder; `use_trainer_do_validate`, which
  imports a module that is not in the repository.
* Policy losses, KL controllers, rollout correction's weights and rejection: functions of a token
  and its neighbours with real arithmetic; TLC has no exponentials, and nothing of them is a protocol.
* Model code, kernels, sharding, optimizers, data sets, reward functions: the same.
* Megatron's workers and checkpoints, SGLang's and TensorRT's engines: variants of what is modelled for FSDP
  and vLLM.
* `keep_minibatch` of `_balance_batch`, which drops rows that do not fill a mini-batch; that the weights of one bucket do not overlap in its buffer
  (in the transfers a bucket's `offset` only says how full it is).
* Images and routed experts in agent loops, interactions of interrupted ones; engine errors.
* Set-up: resource pools, worker groups, process groups, topologies of several checkpoint engines.
* `resume_mode` other than `auto`, copies to HDFS.
* Random states of the hybrid engine; the time a generation takes.
* Transfer queue: its driver mirrors `fit()` over an external package. VLA: an environment loop
  whose worker classes are not in the repository.

## 7. Plan

Done: everything in section 2. Next:

1. Failure of an actor in the asynchronous system, with the runner's cancellation.
2. `TransferQueue`: what its client assumes of columns that arrive in parts.
3. Proofs: what the folds compute (`BucketsOf`, `BatchPath`), with a prover for induction over data.

# OpenWAM: verification project

TLA+ models of the parts of OpenWAM whose correctness depends on the order in
which things happen, or on many pieces of code agreeing on who sees, counts or
owns what: how robot actions are generated and served, how a policy is evaluated
by many processes, how training samples are chosen and put together, how a
training run survives crashes, and how attention and denoising do in deployment
what they did in training.

Paths are relative to the repository. `X:n` is line n of file X.

## The system

### Components, their state and their operations

| component | source | state | operations |
|---|---|---|---|
| Asynchronous executor | `openwam/deploy/executors/async_executor.py` | action buffer, pending future and the step it was submitted at, resolved delay, step count, lock, one-thread pool | `predict_action`, `reset`, `shutdown`, the pool's `_infer` |
| Synchronous executor | `openwam/deploy/executors/sync_executor.py` | action buffer | `predict_action`, `reset`, `shutdown` (nothing) |
| Policy facade | `openwam/deploy/policy.py` | none beyond the executor | builds conditions, forwards, projects binary dimensions |
| Policy server | `openwam/deploy/server.py` | the policy, shared by all connections; request counters | obs, reset, ping per message; errors become error messages |
| Transport client | `benchmarks/utils/transport.py`, `client.py` | one socket | `predict` and `reset` (reconnect once and resend), `predict_once`, `ping` |
| Denoising | `openwam/deploy/engine.py`, `denoise_schedule.py`, `optimizations/dit_cache.py`, `openwam/model/architectures/base.py`, `dual_system/idm.py` | latents of two streams, position in the schedule, cached velocities and skip counter | generate, recompute or reuse, update, reset |
| Attention | `openwam/model/architectures`, `video_backbone` | hidden values per layer, key-value cache | the joint loop; training forward, video step, prefill and action loop of the inverse-dynamics model |
| LIBERO scheduler | `benchmarks/libero/scheduler.py` | `queue.Queue`, worker threads, stop event, process registry, result files | worker loop, client run, server start, queue wait, terminate, summary |
| LIBERO-plus scheduler | `benchmarks/libero-plus/scheduler.py` | the same code, copied | the same |
| Labtasker policy pool | `benchmarks/utils/task_policy.py`, `owned_processes.py`, `resource_process.py` | the worker's one policy server and its identity, two process registries, a guardian process per command | load or reuse, close, spawn, terminate |
| Labtasker submission, manifests, runtimes, workers | `benchmarks/utils/labtasker_utils.py`, `eval_manifest.py`, `eval_sharding.py`, `benchmarks/{libero,robotwin}/labtasker_*.py` | sealed manifests, their index, task records on the server | build, publish, resolve, split, submit, claim, finish, list, summarize |
| RNG domains, manifest builders | `benchmarks/utils/rng_domain.py`, `benchmarks/*/eval_manifest.py`, `eval_policy_wrapper.py` | module-global generators, the state of an episode's domain | activate, scan candidates, replay an episode |
| Sample plan | `openwam/dataloader/mixture.py`, `utils/lerobotv3.py`, `bases/multi_lerobot_v3_reader.py` | buckets left, shares of a budget, index map per epoch, the workers' copies | load, water fill, select, shuffle, fork |
| Dataset readers | `openwam/dataloader` | episode index, offsets into shards, retries | construct, read a window |
| Statistics | `openwam/dataloader`, `utils/stats_computation` | the statistics file, its temporaries and shards, the run's copy | scan, pool, replace, poll, load, verify |
| Checkpointing | `openwam/train/utils/checkpointing.py` | weights files, full-state directories with a completeness marker | save, load, discover, prune, final cleanup |
| Trainer | `openwam/train/openwam_trainer.py` | `global_step`, `opt_step`, epoch, position in the data, accumulation cycle | the batch loop, save, resume, finish |
| Other model code, transforms, progress reports, scripts | `openwam/model`, `openwam/dataloader`, `benchmarks`, `docker`, `scripts` | tensors, layouts | not modelled, see below |

### How they interact

A benchmark bridge sends an observation over a WebSocket; the server's event
loop handles one message at a time, calls the policy facade, and this calls the
executor, which answers from its buffer or lets the engine generate. With
`execution_mode: async` the executor's pool thread calls the same engine while
the server goes on serving. A generation is a loop over noise levels in which
every step is a forward through the attention layers or a reused velocity.

Evaluations are run in two ways. The LIBERO scheduler starts policy servers and
bridge clients as subprocesses; its threads share a queue and a process registry
with the main thread. Labtasker workers claim tasks from a server outside the
repository; each keeps one policy server across tasks, runs a client per task,
and puts a guardian process between itself and both. Tasks name a manifest that
other tasks built and published through a directory, and the client replays the
random numbers the manifest records.

The trainer and its checkpoint files meet only on disk: what a crashed run
leaves is what the next one resumes. The same is true of statistics, which
several jobs may build and read, and of which a run keeps a copy. Samples reach
the trainer through DataLoader workers that have a forked copy of the index map.

### What is hard about it

* **Asynchronous execution.** Actions are positional: the fifth action of a chunk
  is right only at the fifth step after its observation. A chunk generated in the
  background is adopted later, by a different call, possibly after failures,
  resets or a shutdown that ran in between.
* **The scheduler.** Task counts, requeues, cool-downs, sentinels and the stop
  event are spread over six exits of one loop body; Ctrl-C arrives anywhere.
* **Processes that own processes.** Interrupts are exceptions, so they arrive
  between a spawn and its registration and inside the cleanup; workers, guardians
  and commands die in any order, and the next worker uses the same port.
* **Distributed evaluation.** Builders, submissions and summaries are commands that
  are interrupted and repeated while others run; an accepted result must be one
  that a single process would have produced.
* **Crashes in training.** Saving takes many steps by many ranks; pruning and the
  final cleanup delete directories entry by entry; a resume has to choose a
  complete state and go back to the start of an accumulation cycle.
* **Silent errors.** A window addressed one row off, statistics of other data, a
  mask that closes one way too few or a cached velocity of another run raise
  nothing: the policy is only worse.
* **Transport.** A resend after an ambiguous failure repeats an operation that is
  not idempotent, on a server that may still be serving the first request.

The full list, with lines, is under `hazards` in `PROJECT.json`.

### What makes each component correct

| component | properties |
|---|---|
| executors | every action is executed at the step it was planned for, in its own episode, within an age bound, never from an older plan than the last one; the engine has one caller at a time; calls and shutdown return |
| transport | an answer belongs to the call that gets it; the robot executes actions of its own episode, at their step or with a bounded lag; calls return |
| denoising | every prediction is made and applied at the noise level the latents have; reused ones are of this run, recent, and of one forward |
| attention | deployment computes what training computed; nothing travels where the masks close the way, on whichever backbone they are the only way |
| scheduler | no job is lost, run twice at once, or again after its result; the exit code is earned; it ends; nothing it started outlives it |
| policy pool | a result comes from the model its task names; a worker has one server and clients never share one; nothing outlives its worker; a revoked task is given up |
| manifests, submissions | a queued task finds the manifest it names; an accepted summary counts every trial once |
| RNG domains | an episode draws the same numbers wherever it is run |
| sample plan | a budget is shared fairly and spent; an epoch consists of its own samples, each once, whatever crashed |
| readers | a sample's rows, frames and prompt are those of one window of an admitted episode; no window is missing |
| statistics | the file is complete and of the data; a run keeps one coordinate system for life; waiting for it ends |
| training | what a resume takes is complete; a crash loses only what was not saved; resumed training computes what uninterrupted training does; weights and states are pruned together |

## Modules

| module | models | checked through |
|---|---|---|
| `ActionStream` | what a policy promises: receding-horizon execution | |
| `AsyncExecutor` | the asynchronous executor | `MCServing` |
| `SyncExecutor` | the synchronous executor | `MCServing` |
| `PolicyTransport` | client, connections and server, composed with `SyncExecutor` | `MCServing`, itself |
| `PolicyWorker` | a Labtasker worker, its server, clients and guardians | `MCServing`, `MCEvaluation` |
| `EvalManifests` | building, publishing, submitting, evaluating, summarizing | `MCEvaluation` |
| `EpisodeReplay` | random numbers of manifests and of their replay | `MCEvaluation` |
| `DynamicScheduler` | the evaluation scheduler | `MCDynamicScheduler` |
| `DurableTraining` | what saving and resuming promise | |
| `TrainingRun` | training loop and checkpoint files | `MCModel`, itself |
| `SamplePlan` | buckets, budgets, the mixture, epochs and resumes | `MCModel`, `MCSamplePlan` |
| `TrainingWindows` | how a window is addressed and read | `MCModel` |
| `NormalizationStats` | building, sharing and keeping statistics | `MCModel`, itself |
| `AttentionFlow` | masks, passes and the key-value cache | `MCModel`, itself |
| `Denoising` | noise levels, velocity cache, pinned dimensions | `MCModel` |
| `MixtureConfigs`, `WindowTables` | the instances of `SamplePlan` and `TrainingWindows` | |

| module with proofs | about |
|---|---|
| `AsyncExecutorProofs` | `AsyncExecutor` |
| `DynamicSchedulerProofs` | `DynamicScheduler` |
| `PolicyTransportProofs` | `PolicyTransport` |
| `TrainingRunProofs` | `TrainingRun` |
| `DataProofs` | `SamplePlan` and `TrainingWindows`, and the sums and glued sequences of the community modules they compute with |
| `ServingProofs` | `MCServing`: the executors and the transport, of which two have their own module |
| `ModelProofs` | `MCModel`: statistics, attention and denoising in this module, training, the sample plan and the readers from theirs |
| `EvaluationProofs` | `MCEvaluation`: workers, manifests and episodes |

`MCServing`, `MCModel` and `MCEvaluation` each put several systems side by side,
told apart by the variable `system`. The systems never meet in a state: each has
its own `Init` and `Next`, and the others' variables stand still at `None`.
Nothing is composed by that; it lets one run answer one group of questions. Sets
and bounds of the systems are constants of these modules (`ServingAssumption`,
`ModelAssumption` and `EvaluationAssumption` say what they must satisfy), and the
cfg gives them values, so that a theorem about the run's specification holds for
all values. The modules that do compose are `PolicyTransport` (over `SyncExecutor`) and
`PolicyWorker` (worker, guardians, commands and the port they contend for).

Operators whose comment begins with "Fault" are plausible mistakes in the code.
No specification uses them; the mutants of `PROJECT.json` put each in the place
of the definition it distorts, to see that a property notices.

### ActionStream

The abstract specification. `served` is the control step, `delivered` the last
action handed out with the observation it was planned from and its index in that
observation's chunk. `Deliver` allows an action only if `step = obs.step + index`,
the plan is of the same episode, younger than `MaxAge`, and not older than the
plan of the previous action.

### AsyncExecutor

| variable | code |
|---|---|
| `buffer`, `pending`, `startStep`, `delay`, `step` | `_action_buffer`, `_pending_future`, `_pending_start_step`, `_resolved_inference_delay_steps`, `_current_step` |
| `phase`, `conds` | where the holder of `_lock` is blocked, and with which conditions |
| `queued`, `running`, `results`, `pool` | the `ThreadPoolExecutor`: submitted, started and finished work, and its shutdown |
| `episode`, `served`, `delivered`, `error` | bookkeeping for the properties; the code does not decide on them |

An observation, a future and the conditions it was submitted with are one name:
the episode and step of the observation. Everything from taking `_lock` to the
next blocking call is one step, because the lock is held and nothing else reads
the state it protects. The blocking calls are `engine.generate` in the caller
(`phase = "generate"`), `future.result()` (`"adopt"`), and the wait in `reset`
(`"drain"`). The worker's start and end are steps of their own, since
`future.cancel()` distinguishes them. `shutdown` is three steps: its reset under
the lock, then, without the lock, the pool's refusal of new work and its end.

`Unpack` follows `_unpack_result` in the order of its tests and stores: a result
that is rejected leaves the state as it was, a stale one is found after the delay
was stored and the buffer cleared. Lengths of chunks are all the engine's result
amounts to; values of actions are never looked at.

### SyncExecutor

The same naming, one thread, no pool. It implements `ActionStream` with the
horizon as the age bound.

### PolicyTransport

| variable | code |
|---|---|
| `buffer`, `episode`, `served`, `delivered`, `raised` | the server's policy: the variables of `SyncExecutor`, changed only by its actions |
| `call`, `pc`, `attempt`, `socket` | `WSPolicyClient`: the request in `_roundtrip`, its place and attempt, `_ws` |
| `wire`, `answers`, `broken`, `opened` | connections: what neither side has read, and which have ended |
| `robotEpisode`, `robotStep`, `executed` | the control loop of the bridge |
| `plan`, `once`, `client` | the client's name for the observation behind the buffer; which kind of bridge runs; how many processes ran |

The server numbers steps by the requests it served, the robot by the actions it
executed; the difference is what the module is about. Between `Send` and the
end of the call the server may serve the request at any time, also after the
client has given it up (`GiveUp`), or never (`Lose`). `_connect` runs outside the
`try`, so its failure ends the call whatever the attempt. An exception ends the
client process, as it does in the bridges; the next process pings and resets
first. A bridge chooses `predict` or `predict_once` once and for all (`once`).

The steps from reading a message to writing its answer are one (`Serve`):
`predict` is synchronous and blocks the event loop. Requests are served in the
order they were sent, because a client has one outstanding request and a new
connection needs the event loop for its handshake. A reordering that only a
delayed network could cause is not modelled.

### DynamicScheduler

| variable | code |
|---|---|
| `queue`, `unfinished` | `queue.Queue` and the count behind `join` |
| `pc`, `held`, `streak`, `failed` | each `_dynamic_worker`: its place, task, `consecutive_failures`, failed jobs |
| `alive`, `exited0`, `valid` | client processes, their exit codes, results that `_latest_valid_result` accepts |
| `registered`, `snapshot` | `ProcessRegistry` and the copy `terminate_all` works on |
| `servers`, `main`, `stop`, `rc` | managed servers, the main thread's place, `stop_event`, `return_code` |

A worker's step ends where another thread can see a difference: at the queue, the
stop event, the registry, a subprocess. `Popen` and `registry.add` are two steps.
The tests of the stop event and the work after them are two steps too, where
that matters (`Check`, then `Launch`). Servers are started one after the other, and
starting may fail before, between or after them (`StartFails`). A pause (stagger, retry delay, cool-down)
is the step that ends it, by time or by the stop event. Sentinels are tasks.

### PolicyWorker

| variable | code |
|---|---|
| `pc`, `task`, `revoked`, `interrupted` | the worker's place, the model its task asks for, `cancellation_requested()`, a signal taken |
| `process`, `identity` | `WorkerPolicyServer.process`, `.identity` |
| `owned`, `snapshot`, `todo`, `then` | the two `ProcessRegistry`, what `terminate_all` took out of one, the registries still to terminate, the place to go on |
| `client`, `proc` | the task's client; every guardian with the command it runs |
| `foreign`, `kills`, `spoiled`, `proc[_].misled` | a stranger's server on the port; faults counted; history |

A task is the model it asks for. `spawn_resource` and `ProcessRegistry.add` are two
steps, and so are the swap under the lock, the signals and the wait of
`terminate_all`, because `Interrupt` raises at any of them; `todo` then holds what the
`finally` clauses on the way out terminate. `Crash` is a SIGKILL of the worker: the
operating system closes its pipes, which guardians see as end of file. Guardians
may be killed and commands may not die (`MaxKills`); a process that outlived its
guardian or cannot be killed is `Beyond` the worker's control and excepted by name in the
properties. A dead process is reduced to what can still be read of it (`Settle`), and
the lowest free identifier is used, so that identifiers are as good as unlimited.

Abstractions: a server that another worker loads binds its port only after the guardians
of earlier workers have ended what they own (loading a checkpoint takes minutes, a
guardian gives its command five seconds); a guardian is not killed while its server
loads; a stranger may hold the port only at first. Model files stay fixed, as
`task_policy.py:27` asks of users.

### EvalManifests

`stored` and `index` are the files below a manifest root, `builder` the workers of the
build route, `submitter` and `summary` a submit and a summarize command,
`task` the Labtasker server's records of one submission. A manifest is its content, so
its hash and its path are the content too. A publication is two steps (content,
then index), a submission one step per task and may stop after any of them and be repeated
with another command, and a listing reads a page per step while tasks change. Manifests
are resolved one index at a time. `MaxTotal` bounds how many entries a command may ask for. Power loss is not modelled: what was written stays.

### EpisodeReplay

`rng` is the module-global generator of the process, `domain` the state that
`GlobalRngDomain` keeps for the episode, `outside` what `activate` put aside. A
generator is a cursor: the seed and how many numbers were drawn. A simulator call draws
one number or two, depending on the cursor, so being off by one shows. `entries` is the
manifest: where an episode's numbers start, and which scene the builder saw. The
evaluator makes the calls of `single_eval.py` and `eval_policy_wrapper.py` in their
order, inside the domain or outside. RoboTwin's `close_env` in the builder is left out (the
next candidate starts a domain of its own); the progress file is not modelled.

A process has the generators of Python, NumPy, torch and CUDA, and `activate` swaps all of
them alike. A behaviour follows one of them, `generator`, and says where it starts: RoboTwin
seeds all with the seed of the entry and CUDA's once more behind the set-up
(`_canonicalize_torch_cuda`); LIBERO's manifest stores NumPy's state only, and
`from_numpy_state` starts the others at seed 0 in every episode, while the builder's go on
from trial to trial. So that the builder and the evaluator see the same scene is claimed of
the generators the manifest tells of (`Told`); that an episode replays, of all.

### TrainingRun and DurableTraining

`weights` is the sequence of accumulation cycles the weights were computed from,
so "the same weights as an uninterrupted run" is a comparison. The ranks are one
process (every step of the loop ends in a collective) except in `save_state`,
where each writes its shard in two steps. Weights files are opened and closed in
two steps, `rmtree` starts by removing any part of a directory and ends in
another step. `Crash` may come between any two steps and keeps what is on disk;
`Resume` does what `setup_output_dir`, `find_latest_accel_state`,
`load_full_state` and `compute_resume_position` do, and `Restart` is a user who
begins anew because no usable state exists. `Resume` is not enabled from an
incomplete state: loading it fails, and `LatestComplete` is the property that
says it is never chosen.

`DurableTraining` is the abstract specification: a counter of updates and the
part of it a crash cannot take back.

### SamplePlan

`Load`, `Fill` and `Select` are `build_multibucket` with `water_fill_hours` round by
round and `subsample_episodes_by_hours` bucket by bucket; footage is counted in frames
and shares in `Scale`-ths of a frame, where `Scale` is a multiple of every number of
buckets that may share, so that they divide (sixths in the run, for up to three). `kept` is,
of each source built so far, the set of episodes kept of each bucket. The
rounding of hours to floats and the slack of 1e-3 h are not modelled. `Deal` and `Map`
are the index map before and after its shuffle; a shuffle is a rotation by the epoch,
because only its being a function of the epoch matters. `map` is the parent's epoch,
`forked` the workers'. `CrashAndResume` brings back weights, epoch and position, and a
new process with the map of epoch 0.

### TrainingWindows

`disk` is a dataset as it was recorded; a row or a frame is named by the episode and
time it was recorded at, and reading is done where the code computes it should be done,
from offsets that each family of readers adds up in its own way (`DataOffsets`,
`VideoOffsets`, `RepairedShard`). `index` is `_eps_df` after splits and exclusions: a function
of the episodes that are left, whose windows follow one another in the order of the episodes.
VLABench's data sets are those whose shards hold the episodes in their order
(`openwam/dataloader/vlabench.py:112` says this of them). Where the metadata has
`from_timestamp`, the episodes of a video shard may lie anywhere in it, apart from each other
(`Filmed`), and the readers of the LeRobot v3 family take their places from there. A short
window is filled up with its last sampled frame, or, by RoboTwin and RoboDojo, which fill
before they sample, with the episode's last frame (`FillTime`). Splits are as `info.json` has
them: missing, a range, or, for EBench, everything or without an end, which it puts at the
number of episodes that are not excluded.
`Deliver` puts a sample together and `Fail` is a read that raises, with the retries of
`_safe_get` and of EBench's reader, which raises errors of the data at once.

### NormalizationStats

`rank` is where each rank of each job is, `file`, `tmp` and `shards` are on disk, `scan`
is in rank 0's memory, `run` is the copy in the run directory. Statistics are the pool
they were taken over: a version of the data per root, 0 for a root that is missing, and
the negative of the version if files of it are missing. RoboTwin's scan passes over files
it cannot read and keeps what it got as the root's shard, and passes over a root without
episodes; so its pool may lack both, and `PooledStats` says that it lacks nothing else.
Roots whose files may be unreadable are `Unreadable`; the others' readers fail on such a
file. The kinds of reader differ in the temporary's name, the shards, the fingerprint and
the schema test. `np.save` of the final file is two steps. A shard's own temporary, pooling
and `copyfile` are atomic here. The data change, or the file is deleted, only while
nobody is about to read it. The number of launches is bounded, so `BuildReturns` says
`<>[]`.

### AttentionFlow

All tokens of a group (a frame of a branch, the action, the text) see the same keys, so
each group is one token; padded text and understanding tokens are one of two. A token's
value is the term it was computed by, and two passes agree if their terms are equal; the
inputs that reach a token are kept beside it. A step is a layer of the running pass: the
joint loop, or the training forward, stage 1, the prefill and stage 2 of the
inverse-dynamics model. Training and deployment are run on the same inputs, so their
terms can be compared.

The masks are not the only ways. VACE makes a hint for each of its layers, in blocks of its
own that know no mask and read the text with its padding, and adds it to every frame of the
branch (`Hint`; in the model, behind every second layer). CosmosPredict25 pads its text and
attends to it without a mask (`unmasked`). Both ways are modelled and are exceptions in
`ClosedWays`, `PaddingInert` and `VisibilityHonored`. `TrainDeployAligned` needs no exception:
the hints are computed alike in the passes it compares. Hence a causal
`video_attention_mask_mode` does not keep frames of a VACE video apart. That VACE reads padding
is known in `openwam/model/video_backbone/wan_backbone.py:53` and `wan/variants/vace.py:18`.

### Denoising

A noise level is its rank on the stream's grid: shifts change the sigmas, not their
order. `level` is what is left in the latents of the video, of the action, and of the
action dimensions that no loss trained; a prediction is named by its run and step.
Whether predictions are alike enough for reuse is open. The joint forward predicts both
streams, the passes of the inverse-dynamics model their own; it takes no guidance, and
its stage 2 does not consult the cache. A schedule has at least one step; inactive
dimensions are assumed to exist. `level.video` is of the frames that are made: a clean first
frame, where the backbone has one, is put back after each update and has no level. Nothing
in the repository passes `input_video_latents`, so every run starts from noise.

## Runs

| run | question |
|---|---|
| `serving` | do robots, callers and workers get what they are promised, and does nothing outlive its owner? |
| `model` | do crashes, data, statistics, attention and denoising leave training and deployment as they are meant to be? |
| `evaluation` | is a distributed result one that a single process would have produced? |
| `scheduler_core` | safety of the scheduler and its prompt stop, with Ctrl-C anywhere |
| `scheduler_faults` | its termination and cleanup when workers and servers die |
| `scheduler_interrupt`, `transport_timeout`, `training_rewrite`, `training_finalize`, `stage1`, `stats_together`, `mixture_coverage` | findings, see below |

The instances:

| system | instance |
|---|---|
| `async` in `serving` | chunks of 4, horizon 4, delay 3, 9 steps, 3 episodes, failures |
| `lengths` in `serving` | chunks of 0, 1, 2 or 5, horizon and delay derived from the chunk, 7 steps, 3 episodes |
| `sync` in `serving` | chunks of 0, 2, 3 or 4, horizon 3, 7 steps |
| `transport` in `serving` | chunks of 3, 4 steps, 2 episodes after the first reset, 2 clients |
| `worker` in `serving` | 2 models, 2 processes, one kill or process that does not die, a stranger on the port |
| `workers` in `evaluation` | the same with 3 processes |
| `manifests` in `evaluation` | 2 keys (one of RoboTwin), 2 builders, 2 generations, 2 builds, 2 submit commands of up to two trials, pages of one |
| `replay` in `evaluation` | 2 episodes of up to 2 steps, 2 attempts, every feasible set of candidates |
| `scheduler_core` | 2 jobs, 2 workers, 2 attempts, limit 2 |
| `scheduler_faults` | the same, managed servers, raising prints, limit 1 |
| `aligned` in `model` | 8 steps, saves every 2, cycles of 2, 2 ranks, 2 kept, 2 crashes |
| `cycles` in `model` | epochs of 5, cycles of 2, saves every 3, ended after 9 steps, 2 crashes |
| `plan` in `model` | 3 buckets under every budget; mixtures of 2 sources under every strategy, and one without weight, 2 epochs, 1 crash |
| `windows` in `model` | 7 kinds of reader, 3 episodes over 2 files, with time stamps and without, exclusions, damage, splits of every form, 2 pairs of strides |
| `stats` in `model` | 2 jobs of 2 ranks, 2 roots, one of them with files that cannot be read, either or both empty for RoboTwin, 4 kinds, 2 versions of the data, 3 launches |
| `flow` in `model` | every configuration of masks and padding, with a conditioning frame in the latents or not, with VACE's hints or not, with unmasked text or not; 3 frames, 3 layers |
| `denoise` in `model` | 5 steps, every lead and delay, 2 skips, 2 requests |

### Why the bounds are enough

* *Executors.* Nine steps are more than two chunks of four, so a prefetch is
  adopted, its successor submitted and adopted in turn; the longest legal delay
  (one less than the horizon) makes prefetches overlap the whole buffer. Three
  episodes let a reset or the shutdown meet a prefetch of the episode before and
  leave one after. The proofs remove the bounds.
* *Transport.* Four steps cross a chunk boundary with and without losses. Two
  episodes and two processes let a request of one be served in the other. Drops,
  timeouts and losses are not bounded: each call makes at most two attempts.
* *Scheduler.* Two workers and two jobs: one worker can hold the last task while
  the other finds the queue empty; two attempts are a requeue and an exhaustion.
  The limits 1 and 2 make the cool-down come at once or after a requeue. No
  counter is cut off: attempts are bounded by the code.
* *Worker.* Two processes are what a worker has at a time. The third in `evaluation` is
  one that an earlier worker left while the next loads its own. Workers, tasks,
  interrupts, revocations and crashes are unbounded.
* *Manifests.* Two submit commands are an interrupted and a repeated one; pages of one
  make every change of the tasks fall between two pages.
* *Replay.* An episode is run alone, first and second in a batch, and again after a
  failure.
* *Training.* Two crashes are a crash of a resumed run. Eight steps with saves
  every two and two kept prune twice. In `cycles`, save interval (3),
  cycle (2) and epoch (5) have no common divisor, so saves fall in mid-cycle and
  epochs end in short cycles; the bound of 9 ends the run in mid-cycle as well.
* *Data.* Budgets from 1 to above the whole footage; episodes shorter than a window,
  buckets without one, and files that hold one, two or three episodes. Windows of three
  frames with a video stride of 2 run over the end of an episode behind a frame that is not
  sampled. Three tries are
  fewer than the windows of a table and more than its damaged episodes.
* *Statistics.* Three launches are a build that dies, one that resumes it, and a run
  that is resumed. With unreadable files in one of two roots, a pool may have an
  incomplete shard beside a complete one.
* *Attention.* A path through the masks that closes needs at most one layer per group on
  it; three layers are enough for first frame, later frame, action, and the visibility
  relations are transitive except through the action.
* *Denoising.* Five steps leave room for two warm-up forwards, two skips and a
  recomputation; the second request meets the cache of a first that ended or failed.

### Fairness

* `AsyncExecutor`: calls of the engine end, the pool's thread is scheduled, a
  call that can return does. Nobody is assumed to call anything. A generation
  that never ended would block the code, and is the one thing excluded.
* `DynamicScheduler`: every thread is scheduled; main's waits are polls, so
  weak fairness of its enabled step is what its loops give. Clients are assumed
  nothing: `Terminates` has "every client exits" as its premise, because the code
  puts no limit on an attempt, and `PromptStop` has none.
* `PolicyTransport`: the client's `send` returns and its `recv` is bounded by a timeout.
  Nothing is assumed of the server or the network.
* `PolicyWorker`: the worker's and each guardian's loop go on. Servers need not load,
  clients need not end, and nobody need start another worker.
* `NormalizationStats`: ranks go on, and time passes for a rank that waits. Nobody need
  launch anything.
* The other specifications state no fairness and are checked for safety.

Deadlock is not checked: calls stop at the bounds, the scheduler and the training
run end.

### What the runs found

1. *A client may survive Ctrl-C* (`scheduler_interrupt`). `terminate_all` copies the
   registry under its lock and kills the copy while workers still run. A worker
   between its stop test (`benchmarks/libero/scheduler.py:687`) and `registry.add`
   (613) starts its client after the copy, sees the stop event, and returns with
   the client running. The LIBERO-plus copy is the same.
2. *A step saved twice may be marked complete too early* (`training_rewrite`). A
   resume from a mid-cycle save goes back to the cycle's start and later saves
   the same step again, over a directory that still has the marker of its first
   save (`openwam/train/utils/checkpointing.py:229`). A crash while the shards are
   rewritten leaves a marked, incomplete state. It needs `save_steps` or the
   epoch to be no multiple of the accumulation.
3. *A crash in the final cleanup* (`training_finalize`). `rmtree` removes entries in any
   order, and finalize goes over the newest directory too, so a crash there can
   leave a marker without its shards. The `model` run excludes only this window
   (`CrashInFinish = FALSE`) so that it can check the rest.
4. *An observation is resent after a timeout* (`transport_timeout`). `_DROP_ERRORS` is
   meant for a dropped socket, and `TimeoutError` is an `OSError`. The lost action is
   within the lag that `AnswersMatch` allows, and healed when the next chunk is generated.
5. *Jobs that build RoboTwin statistics at once may publish half of a file*
   (`stats_together`). `atomic_save_stats_npy` uses the same temporary name in every
   process
   (`openwam/dataloader/utils/stats_computation/robotwin_stats_computation.py:80`). In
   `model` only kinds whose temporaries are their own run side by side.
6. *The video is denoised without the mask it was trained with* (`stage1`). Stage 1 of
   the inverse-dynamics model passes no mask
   (`openwam/model/architectures/dual_system/idm.py:772`); with a causal
   `video_attention_mask_mode` deployment differs from training. `TrainDeployAligned`
   claims the video's agreement for the bidirectional mode only; the action's holds in
   every mode, given the condition video.
7. *Windows that no epoch reaches* (`mixture_coverage`). A source with fewer samples
   than windows contributes its first ones in every epoch; `set_epoch` changes their
   order only (`openwam/dataloader/mixture.py:208`).

## Proofs

TLC checks instances; the theorems below hold for every value of the constants that the
named assumptions allow, and without the bounds playing any role. Almost no property is
inductive by itself. Each proof therefore has an inductive invariant, of which the property
is a part or a consequence, shown to hold initially and to be preserved by every action,
one lemma per action or family of actions. The invariants were checked with TLC on small
instances before their proofs were attempted, except that of `AttentionFlow`, which has an
existential quantifier over histories.

The theorems of `ServingProofs`, `ModelProofs` and `EvaluationProofs` state the runs'
properties as they stand in `MCServing`, `MCModel` and `MCEvaluation`: of all systems side
by side. Their invariants are conjunctions of "if this system runs, then its invariant".

| theorems | statement |
|---|---|
| **`AsyncExecutorProofs`** | |
| `Invariance`, `TypeCorrect` | `[]IInv`, `[]TypeOK` |
| `Exclusion`, `Quiet` | `[]EngineExclusive`, `[]PoolQuiet` |
| `Refinement` | the executor implements `ActionStream` |
| `Timely`, `Prefetching` | with one chunk length, `[]NeverStale`; with a delay of at least one, `[]NoStall` |
| **`ServingProofs`** | |
| `AnswersBelong` | `[]AnswersMatch`: answers, episodes and lag of the transport |
| `PromiseKept` | `EndToEnd`: with `predict_once`, what the robot sees implements `ActionStream` |
| `StreamsKept` | `OtherStreams`: so do the synchronous executor and the asynchronous one with chunks of all lengths |
| **`DynamicSchedulerProofs`** | |
| `ExactCount`, `AllAccountedFor` | `[]Accounting`, `[]NothingForgotten` |
| `OneClientPerJob`, `ExitCodeZero` | `[]ExclusiveRun`, `[]HonestExit` |
| `ResultsKept` | `NoRework` (an action property) |
| `NoOrphansUninterrupted` | without Ctrl-C, `[]NoOrphans`, of clients and servers |
| **`EvaluationProofs`** | |
| `ResultsOfTheModel`, `ProcessesExclusive` | `[]RightModel`, `[]OneOfEach` |
| `ManifestsStay`, `CoverageExact` | `[]Replayable`, `[]AcceptedCoverage` |
| `EpisodesReplay` | `[]EpisodeReplays` |
| **`TrainingRunProofs`, `ModelProofs`** | |
| `RunIsDurable`, `TrainingDurable` | a run implements `DurableTraining`; `Durable` |
| `TrainingExact` | `[]ExactTraining` and `[]SeedMatches`, also where saves fall inside a cycle |
| `ArtifactsWhole` | `[]LatestComplete`, `[]CleanArtifacts` |
| `LinesInLockstep` | `Lockstep` (an action property) |
| **`DataProofs`, `ModelProofs`** | |
| `PlanInvariance` | `[]PlanInv`, of the plan alone |
| `BudgetsFair`, `EpochsExact` | `[]FairBudget`, `[]EpochExact` |
| `ReadingInvariance` | `[]ReadingInv`, of the readers alone |
| `SamplesAligned`, `WindowsComplete` | `[]Aligning`, `[]Exhaustive` |
| **`ModelProofs`** | |
| `ModelInvariance` | the invariants of all seven systems |
| `StatisticsWhole`, `TransformForLife` | `[]PooledStats`, `[]OneTransform` |
| `DeployedAsTrained`, `WaysStayClosed` | `[]TrainDeployAligned`, `[]ClosedWays` |
| `SamplesOnSchedule`, `PredictionsFresh` | `[]OnSchedule`, `[]FreshPredictions` |

### The arguments

**Asynchronous executor.** That an action is at its step depends on where its chunk was cut,
so `IInv` relates buffer, pending future and counters. `PhaseInv`: what the lock holder waits
for fixes the rest of the locked state. `PoolInv`: a future that is held is in exactly one
place of the pool, and without one the pool is empty; this gives `EngineExclusive` and
`PoolQuiet`, and makes the result an adoption finds the right one. `BufferInv`: the buffer
is a run of one chunk whose head belongs to this step, no older than the last plan, inside
the age bound. `PendingInv`: a prefetch is filed under the step of its observation and at
most `delay` actions before the end of the buffer; without the inequality nothing would
bound the number of elapsed steps when it is adopted. `Refinement` shows that `Pop` of such a
buffer is a `Deliver`, that resets are `NewEpisode`, and that everything else stutters.

**Transport.** `NetInv` says why a retry cannot receive the answer to the request before it:
a connection that was given up is closed, so what can still arrive is the answer to the
request in progress, and once it has arrived the server has nothing of this client left to
read. `EpisodeInv` bounds the lag: the next action's lag plus the requests the server has
not read is at most the number of requests sent for this step, on top of what the plan's
own age allows (`Slack`). `predict_once` sends one request per step, so the slack is zero.

**Scheduler.** `TokenInv`: a job circulates once, in the queue or at one worker. `ClientInv`:
a client that runs is registered or about to be, and is the one its worker watches, unless a
stop abandoned it. `JobInv`: while nobody stops the scheduler or dies, a job circulates or has a final
result. `MainInv` relates main's place to the workers': after the join nobody holds a task
and only sentinels are queued. `Accounting` is a cardinality of a set of positions and
workers, and every action's lemma says which element it adds or removes. `NoOrphans` has
`~MayInterrupt` as its hypothesis because with Ctrl-C it is false (finding 1). `NoRework`
excludes `PrintsFail` itself, in its statement.

**Worker.** `OneOfEach` and `RightModel` need each other's state. `OwnersInv`: a process that
is the worker's own and may still run its command (`Potent`) is held, registered or being
waited for, unless the worker is on its way out. `OneInv`: of each kind at most one is
potent and the worker's own. `PortInv`: once a server of this worker has bound the
port, nothing of an earlier worker can run (`Alone`); this uses `ServerBinds`'s guard, the
timing assumption under *Abstractions* of `PolicyWorker`. `ModelInv`: whoever answers on the port now or later
has the model of the identity and of every potent client (`SettledOn`). `FreshInv`: a client
that did not finish spoils its server until that is gone. Since guardians and commands move at any time,
all of these are shown to be closed under processes getting older (`Evolves`, `Aged`), once.
The attempt found a flaw of the model: a worker whose cleanup was interrupted and that ended
then kept a server, an identity and registries that belong to a process which no longer
exists, and the next worker would have begun with them. `Leave` now clears them, and the
invariant says that a worker that is off holds nothing.

**Manifests.** `StoreInv` to `TasksInv` say that what is named was stored before and that
nothing is removed. `AcceptedCoverage` is the arithmetic behind `validate_submission_coverage`:
sorted ranges that begin at 0, continue where the one before ends, and end at the total
partition the trials. The proof takes the first range that ends beyond a trial
and shows that no other contains it.

**Episodes.** `EpisodeInv` says which of the two streams is in the generator: inside the domain the
origin of the episode plus the numbers drawn, or after RoboTwin's second seeding the origin
again, while `outside` keeps the other.

**Training.** `LoopInv` gives position, weights and open cycle as functions of epoch and
index, those of a run without interruptions; so a resume, which goes back to a cycle's
start, lands on the same sequence. `TornInv`: a half-written weights file is one
that the run will write again before it ends. These hold whatever is saved when
(`Safe`). `SaveInv` and `LineInv` need `Durably`: full states, saves at the end of
accumulation cycles, no crash in the final cleanup. Without the second, finding 2
contradicts them, without the last, finding 3. They say that at most one save is under way beyond the
latest complete state and that pruning takes only lower ones. The proofs count
accumulation cycles with `DivMod` and `NextCycle` lemmas about short cycles at an epoch's end.

**Sums and sequences.** The plan and the readers compute with `SumFunctionOnSet` and
`FlattenSeq` of the community modules, which are folds. `DataProofs` first proves what
they return: the fold over a finite set exists and does not depend on the order of its
elements (`FoldExists`, `FoldsAgree`), hence a sum splits (`SumSplit`), is monotone
(`SumPart`), has one more term (`SumUpto`), a number below a sum of counts is among those of one of its terms
(`Located`), and element j of the k-th sequence stands at the lengths of those before it plus j
(`Flatten`). Induction takes the form of membership: the set of numbers, or of finite
sets, of which the claim holds contains the least one and with each the next (`Inductive`,
`InductiveSets`), because the set of those left out would have a minimum (`WFMin`).

**Sample plan.** `FairBudget` speaks of the end of the water fill, `FillInv` of its rounds: the
shares given away and what remains are the budget; every bucket that has a share has all of
its footage, and so little that each bucket still waiting will get as much (`Capacity(b) *
Cardinality(active) <= remaining`). Without the last, the level of a later round could be below a share
of an earlier one. `SelectInv` hands this over to the choice of episodes: each bucket that
was dealt with holds its share and less than an episode more, whatever the permutation,
and the sum over the buckets gives `BudgetInv`, of the sources that are done. `BuildInv` says that a source that
is mixed has a window, so that no remainder is by zero. `LoopInv` makes what was trained a
function of epoch and position (`History`), for the saved state as well; a crash
therefore leads to a history that the run without it has too, and `forked = epoch` says that it
was the workers' own map. That each window is in the map exactly once under proportional weights
(`OneEach`, `OnceInMap`) follows from `Flatten` and `Located`.

**Readers.** `ReadingInv` is short: the index is the one of this reader and data set, what is being
read is one of its windows, and what was delivered is aligned. The work is in the
arithmetic of one window. `ShardPlace`: the offset of an episode, the sum of the lengths
of those before it in the same file, is where a shard glued together of all
episodes has its rows. `Repaired`: for VLABench the shard found by its
number of rows is the one the episode is in, provided it has rows and the shards are in the
order of the episodes; the rows before a shard are then those of the episodes in earlier shards
(`ShardStarts`). `WindowsApart` and `WindowFound`: the windows of admitted episodes are disjoint intervals that fill
`0 .. Windows - 1`, so each window is of one episode, and, with stride 1, each start is a window
(`EveryWindow`). `StartsInside` says that the counts of windows leave, in a window's episode, a row where it
begins, and a second one for readers that take the next pose or row as the target; from that
`SupervisedAre` shows that no supervised target lies beyond the episode. `SampleRight`
puts these together, and a retry only chooses another window.

**Statistics.** `BuildOf` says what rank 0 has in hand at each step of a build: the shards
of the roots before `next` exist, unless the root was empty, the pool has all of them, the temporary under the job's own name is
whole. A file that appears meanwhile is somebody else's of the same data. `LoadedInv` and
`TransformInv` follow: what is loaded is full, up to RoboTwin's empty roots and unreadable files, and ranks of a
run that have not looked yet will find what its directory keeps, because the file stays until they have.
The assumption `Together \cap Stats!OneName = {}` (no two jobs build at once through one
temporary name) is what finding 5 violates.

**Attention.** `ClosedWay` lists, per pass, which token may not reach which; `OpenOnly` says
that the inputs behind every token's value came by no closed way. It is preserved because the
masks are closed under composition: if a key is open to a query and an input is open to
the key, it is open to the query (`JointOpen`, `TrainingOpen`). VACE's hints open what they
carry (`HintOpen`), and behind that the masks are still closed. The read-only tokens have to be
part of it, as a way around through them is the obvious mistake.
For `TrainDeployAligned` the invariant keeps a trace `h` of the training pass, layer by
layer, which is not a variable, hence `\E h`. The passes of deployment are in step
with it where they may be (`InStep`): stage 1 if the video is bidirectional, the prefill and stage 2
if the condition is clean; and the cache holds the condition's values of every layer. A layer
of such a pass has the same keys, values and positions as the layer in training
(`LayerFollows`), also after a fall-back from the compiled loop, which begins at the inputs.

**Denoising.** `ScheduleInv` says that the run is inside the schedule of some lead and
delay, `CacheInv` that what the cache holds is of this run and as many steps old
as were skipped. That both streams end at zero noise, and that a stream that has begun to move does not
stop, are lemmas about `MakeSchedule`.

### What stays with TLC

* Liveness, which needs fairness and `ENABLED`: `EveryCallReturns`, `NothingLeft`, `GivesUp`,
  `PromptStop`, `Terminates`, `BuildReturns`.
* Liveness apart, every property of a run that passes is a theorem. Runs that expect a
  violation refute theirs and prove nothing: `EveryWindowReached`, for one.
* That the operators are the code. A mixture's shuffle, a draw of episodes, a failed read are
  arbitrary in the model, but the sums, divisions and comparisons were translated by hand.
* The constants' assumptions are part of the theorems. Besides the ranges of numbers they say
  that `None` is no member of the sets it marks the absence from (no model value of TLC is)
  and, for the plan, that shares divide (`Scale`), and for the statistics what is quoted above.

## Assumptions

* `project.seed` is set, so that a resumed dataloader repeats the order.
* Accelerate's `load_state` starts with an empty accumulation cycle, as
  `compute_resume_position` expects. This is outside the repository.
* `save_state` writes one shard per rank; a rank's shard is torn from when it is
  opened until it is closed.
* One Ctrl-C. A second one in the scheduler's `terminate_all` or shutdown would
  interrupt the cleanup itself; a Labtasker worker ignores the second.
* `PrintsFail` stands for a worker whose `print` raises (its stdout is closed or
  its disk full).
* SIGKILL ends a process, unless it is stuck in the kernel (`ChildWedges`).
* The Labtasker server keeps a task by its identifier, refuses another definition
  under the same one, and refuses the result of a revoked task.
* LIBERO's resets draw from the generators that `GlobalRngDomain` captures.
* Files that were written and renamed survive a crash of their process.

## Not modelled, and why

* Networks, kernels, losses, video codecs, image and state transforms, rotations,
  statistical estimators, vendored models: numerical programs whose state does not
  depend on order. They are most of the repository's lines (`openwam/model` alone is
  about half of its Python), and are why the map covers only a small share of them:
  what is mapped are the control and the agreements around them.
* Model loader, observation preprocessing, policy facade, argument parsing, command
  lines, containers: start-up and data conversion.
* The scheduler's plan, resume signature and preflight: they read a directory once,
  before anything is concurrent.
* The LRU of prompt embeddings: a bounded `OrderedDict` of a pure function, used by one
  thread at a time (`EngineExclusive`).
* The deploy assets other than statistics: copied once, at the start of a run, and read
  by nothing the run decides on. The lost update that two jobs of different action modes
  can cause in `_write_deploy_normalizer_stats` is documented there and refused at
  deployment.
* Progress reports: replaced atomically and only displayed.
* `opt_step` after a resume is recomputed and differs from the saved one when an epoch
  ends in a short cycle; it feeds only the progress output and is not checked.

## Plan

Done: the executors, the transport, both kinds of evaluation, training, data, statistics,
attention and denoising, each with the hazards that `PROJECT.json` lists for it; and
proofs of every safety property that the passing runs check.

What would come next, in order of importance:

1. An abstract ledger of jobs (open, held, done, given up) that `DynamicScheduler`
   implements; `Accounting`, `ExclusiveRun` and `NoRework` are its parts, and proved.
2. Two live clients on one policy server, which no launcher of the repository starts.
3. Collation and the loader of observations in deployment, as far as they decide which
   dimensions and frames are valid.

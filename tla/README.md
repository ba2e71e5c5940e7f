# A TLA+ model of MLP-Mask

MLP-Mask trains language models with reinforcement learning. It is a copy of
the verl framework (`src/verl/`) with nine research recipes on top
(`src/recipe/`): six that train under masked or reweighted channels of the actor's
MLP layers, and three that train on noised or truncated reasoning prefixes under a
curriculum. This directory holds TLA+ modules for
the control of that system, TLC configurations that check them on small
instances, and TLAPS proofs about nine of them.

Numbers are not modelled: tensors, losses, tokens and text are replaced by where
they come from (which step, which mask version, which weights). What is modelled
is everything that decides *which* data a step uses, in what order state changes
hands, what a checkpoint holds, and what a run does after it died.

    tlc -workers 2 -config MCDualRouteTraining.cfg MCDualRouteTraining
    tlc -workers 2 -config KeepOne.cfg MCCheckpointRotation
    tlapm DualRouteTraining_proofs.tla

## 1. The system

One driver process runs a trainer's `fit()`. It calls worker groups (one process
per GPU) through `single_controller`, and every such call is synchronous and
reaches all ranks. Each worker holds an FSDP actor and a vLLM engine that shares
its GPU ("hybrid engine"): the engine sleeps while the actor trains and is woken,
with fresh weights, to generate. State that outlives a process is in the checkpoint
directories and in the tracker file `latest_checkpointed_iteration.txt`.

| component | state | operations | talks to |
| --- | --- | --- | --- |
| mask controller (`mlp_channel_mask/intervention.py`), one for the actor and one for the rollout in each worker | mask and its version, activation baseline, selection score, causal contrast and gap, pending batches, route, registered buffers | `refresh_mask`, `observe_causal_ablation`, `_accumulate_score`, `set_route`, `set_active_buffers_available`, `state_dict`, `load_state_dict` | worker; the patched MLP layers |
| dual-route trainer (`mlp_channel_mask/trainer.py`, `worker.py`) | `global_steps`, `mask_version`, whether the next mask is prepared | `fit`, `_refresh_mask`, `_save_checkpoint`, `_load_checkpoint` | worker group, files |
| route switch (`worker.py`, `fsdp_workers.py`) | engine awake or asleep, its weights, prefix cache, mask buffers | `generate_dual_sequences`, `generate_sequences`, `rollout_mode`, `trainer_mode` | vLLM |
| checkpoint files (`ray_trainer.py`, `fsdp_checkpoint_manager.py`) | directories on disk, the tracker, and in memory each rank's `previous_saved_paths` | `save_checkpoint` on every rank with two barriers, rotation on rank 0, `find_latest_ckpt_path` | all ranks, file system |
| per-sample curricula (`denoise_v2`, `correct_prefix`) | active batch, cursor, round, a noise ratio and its history for each row, counters | `update`, `state_dict`, `load_state_dict` | denoise trainer, a JSON file |
| denoise trainer (`denoise_v2/dapo_ray_trainer.py`; `correct_prefix` has the same loop) | `global_steps`, the rollouts kept from earlier rounds, round counter, data iterator, profiler | `fit`, `_train_step_dapo`, `_train_step`, checkpoints and resume | curriculum, worker group, files |

| rows of a step (`mlp_channel_mask/trainer.py`, `protocol.py`, `decorator.py`, `seqlen_balancing.py`, `dp_actor.py`, `loss_aggregation.py`) | the order of the driver's rows, each rank's shard, micro-batches, accumulated loss, pending score sums | build, shard, generate, balance, recompute log-probs, update, reduce the score | driver and all ranks, which must enter the same collectives |
| agent loop and search tool (`agent_loop.py`, `tool_agent_loop.py`, `search_tool.py`, `vllm_async_server.py`) | a coroutine for each row, its token lists, tool calls in threads, instances, the tokens of a rate limiter, engines awake or asleep | `generate_sequences`, `run`, `_call_tool`, `execute`, `acquire`, `release`, `wake_up`, `sleep` | rollout servers, search service |
| reward router (`experimental/reward/router/naive_router.py`) | the count of each worker | select, send, retry, release | the reward model's workers |
| channel-statistic recipes (`mlp_channel_rarity`, `mlp_channel_relative_update`, `mlp_channel_consistency`) on the base loop (`RayPPOTrainer.fit`) | on every rank a running average or scores over MLP channels, next to the weights | collect, reduce, weigh or scale or resample, save, load | the other ranks, files |

The rest of the repository (Megatron, SGLang, reward functions, datasets, SFT,
models) is listed in `PROJECT.json` with the reason each part is or is not modelled.

### What is hard about it

* **Deaths and resumes.** A checkpoint is several writes by several processes:
  shards by every rank, a mask or curriculum file by one, a tracker by the driver.
  A job may die between any two, and rotation deletes older directories meanwhile.
* **State in two or three copies.** The mask version is held by two controllers and
  by the driver; the curriculum by the driver, a file, and the rows in flight; a channel
  statistic by every rank, which decides from its own copy.
* **Order inside a step.** A score must be consumed after the update that produced
  it and before the checkpoint; a baseline is updated after it was used; the
  curriculum is fed before the filter drops what it needs to see.
* **Data carried over rounds.** Dynamic sampling keeps rollouts until a batch is
  full, across rounds but never across an update.
* **A sleeping engine with captured graphs.** Masks act through buffers whose storage
  is suspended between calls, and prefix-cache keys know nothing of masks.
* **Collectives and barriers.** Ranks move at their own pace and derive from their own
  rows which collectives they enter; a rank without rows of a route, without pending
  sums or without a baseline enters others and hangs the job.
* **Two routes in one batch.** Rows are interleaved, sharded, generated by route,
  balanced, packed into micro-batches and put back, joined by position each time.
* **Threads and coroutines.** Rows wait for engines, searches and limiter tokens in any
  order, fail in the middle, and share one manager that puts the engines to sleep.

### What makes each part correct

* controller: every batch enters the score once, against earlier batches only; a
  reward gap is credited to the mask that caused it.
* dual-route loop: one mask per step in all three forward passes; the mask of step
  *t* is the same whether or not the run died; the only refusals are intended ones.
* route switch: every row runs the route, mask and weights asked for, also for what
  it takes from the prefix cache.
* checkpoints: whatever the tracker names can be loaded.
* curriculum: no row is skipped or repeated in a round, a round ends only after the
  whole pool was sampled, and what is restored is what was saved.
* denoise loop: an update takes a full batch sampled by the current weights; every
  round feeds the curriculum once; shards and curriculum file agree.
* rows of a step: every row comes back with its own uid and log-probs, the loss is
  that of the undivided shard, and every rank is at the same collective.
* agent loop: prompt, mask and log-probs stay aligned over the turns, no engine sleeps
  under a request, tokens and instances are given back, the batch is answered.
* reward router: the count a worker is ranked by says what it holds and what failed.
* channel statistics: replicas agree, statistic and weights tell one history in memory
  and on disk, and what a step trains with was measured before it.

## 2. The modules

| module | models | used by |
| --- | --- | --- |
| `MaskController` | the controller as a record and its operations as operators | `DualRouteTraining` |
| `DualRouteTraining` | `fit()` of the mask recipe, its checkpoint of three writes, deaths and resumes | `MCDualRouteTraining`, the proofs |
| `ResumableTraining` | the abstract promise: one live state, one saved state, resume continues from the saved one | `DualRouteTraining` (refinement) |
| `RolloutRoute` | the hybrid worker below `generate_dual_sequences` and validation | `MCRolloutRoute`, proofs |
| `CheckpointRotation` | ranks, barriers, rotation, tracker | `MCCheckpointRotation`, proofs |
| `NoiseCurriculum` | both per-sample curricula | `MCNoiseCurriculum`, proofs |
| `DenoiseTraining` | `fit()` of the denoise recipes | `MCDenoiseTraining`, proofs |
| `SeqlenBalance` | Karmarkar-Karp partitions and dynamic micro-batches, as operators | `RouteSharding` |
| `LossAggregation` | the weight of a token in a loss accumulated over micro-batches, as operators | `RouteSharding` |
| `RouteSharding` | the rows of one dual-route step on every rank | `MCRouteSharding`, proofs |
| `AgentLoop` | one `generate_sequences` call of the tool agent | `MCAgentLoop`, proofs |
| `RewardRouter` | the request router of the reward model | `MCRewardRouter`, proofs |
| `ChannelStateTraining` | three recipes with a statistic on every rank, on the base loop | `MCChannelStateTraining`, proofs |

The proofs about a module `M` are in `M_proofs`; those about the small `RewardRouter` are
in `AgentLoop_proofs`, those about `NoiseCurriculum` in `DenoiseTraining_proofs`. `SeqlenBalance_proofs` holds what
`RouteSharding_proofs` uses about sequences, sums, sorting and the differencing method.

### MaskController and DualRouteTraining

A controller is a record of provenance: `baseline` is the sequence of steps folded
into `activation_ema`, `score` the sequence of what was folded into
`selection_score` and against what it was measured, `pending` the batches not yet
consumed. `RefreshMask` is the whole of `refresh_mask()`: consume, score, update the
baseline, select, count the version. `StateDict` and `LoadStateDict` carry exactly
the fields the code carries; pending batches are not among them.

`DualRouteTraining` has one action for each statement group of `fit()`, in the order
of the code: `StartFit` (load, the refusal at version 0, the prepared mask),
`ResampleMask`, `GenerateDual`, `ComputeOldLogProb`, `ObserveCausalEffect`,
`UpdateActor`, `RefreshAfterStep`, then `SkipSave` or `SaveShards`, `SaveMaskFile`,
`WriteTracker`, and `EndStep`. Ranks execute these calls alike and are one worker.
Weights are the sequence of steps whose update was applied. `Restart` may happen at
any point and clears everything except directories and tracker. A configuration is
drawn at the start from those that `_validate_recipe_contract` accepts. The rows
inside a step, on every rank, are the subject of `RouteSharding`.

`LiveSnapshot` and `SavedSnapshot` map the loop to `ResumableTraining`: the tracker
write is the point where a checkpoint made of several files becomes the saved state.

### RolloutRoute

A call to the worker is a sequence of operations (`DualCall`, `CleanCall`,
`BuildCall`) that it executes front to back. `engine` holds what vLLM holds: awake or
asleep, weights, the content of the mask buffer (the version of the mask it was
copied from, 0 for ones), and the blocks of the prefix cache, each named by the
buffer and weights it was computed under. Waking may lose a buffer's content: what
vLLM restores is its own business, and the recipe rewrites the buffers anyway. The
driver around it refreshes, validates, updates, saves or not, in the order of
`fit()`; *whether* it refreshes, validates or saves at a given step is left open, so
that every configuration is covered (`DualRouteTraining` settles it per
configuration). `free_cache_engine` is a variable: without it the engine never
sleeps and nothing but the recipe's own resets empties the cache. An exception
inside a call ends the run and is the same as a death.

### CheckpointRotation

`_save_checkpoint` with its ranks: for each worker group in turn, rank 0 rotates
(`Rotate`), all meet at a barrier, create the directory and write (torn until
finished), meet again, then the driver truncates and writes the tracker. A death
may fall between any two of these; `Restart` reads the tracker and the directories
as `find_latest_ckpt_path` and `load_checkpoint` do and loses `previous_saved_paths`.

### NoiseCurriculum

`update()` of the per-sample controllers: a ratio moves by
`alpha * (accuracy - target)`, is clipped and appended to a bounded history; rows
with a flat enough least-squares slope leave and the next rows of the pool take
their places; an update that finds the pool exhausted starts the next round instead.
Ratios are floats: `Floats` is a set of multiples of a unit that thins out as values grow,
and the feedback, every partial sum of `MeanRho` and its quotient are rounded to the nearest
of them, ties to even (`Rounded`). The mean is not clipped, as in the code, and rounding can
put it beyond a bound. NumPy adds batches of eight or more in eight interleaved sums, the
model always from first to last; only the last bits depend on that. The slope test compares
integer moments exactly. `direction` is -1 for `correct_prefix`, whose feedback has the
opposite sign. A checkpoint is the saved record, and loading repeats its checks; a refused
one ends the run.

### DenoiseTraining

`fit()` with both step functions: `_train_step_dapo` draws generation rounds, feeds
the curriculum, filters problems with no spread of reward, and either asks for
another round or updates on the first `TrainBatch` problems; `_train_step` updates
after every round. Data come from the active batch of the curriculum (v2) or from
the dataloader. The model includes the resume that skips batches, the cap on rounds,
the profiler, the two calls that save one state, the relabelling of uids by problem,
and the checkpoint at the end of the epochs. The trajectories of one problem in one
round are one element, tagged with the weights that sampled it.

### SeqlenBalance, LossAggregation and RouteSharding

`RouteSharding` is one step of the mask recipe, row by row. A row knows the prompt and
route it was generated for (`out`) and the uid and log-prob the driver joined to it by
position. `GenerateDual` shards the batch over tensor-parallel groups, runs one route
after the other and restores the order; `BalanceDualRouteBatch` is the route-aware
balancer, refused when a route cannot be divided evenly. For log-probs and for the
update every rank gets a *program* of collective operations derived from its own rows,
as `dp_actor.py` does: agree on a number of micro-batches (a MAX reduction), forward,
step, reduce. A collective completes when all ranks are at one of its kind; `Hung` is a
state where they are not and none will be. `SeqlenBalance` translates both forms of the
largest-differencing method with the code's tie-breaks, so micro-batches and shards are
those the code builds; lengths are multiples of 256 tokens, which keeps integers small.
`LossAggregation` gives each token's weight as an exact fraction.

### AgentLoop

The manager wakes the servers, sends each worker its chunk, waits for all answers or for
the first exception, and puts the servers to sleep. A row is a coroutine: `pending`,
`waiting` for an engine, `tools`, `interacting`, then `terminated` and `scored`, or
`error`; an action ends where the coroutine next awaits. Its three lists are sequences of
token kinds. A tool call goes through `queued`, `acquiring`, `executing`, `returned`,
`answered`: a thread of the execution pool, a token of the rate limiter, the search, the
release message in flight (`releases`), and the coroutine that resumes. A refused request
raises in its row and then in the manager; other rows run on.

### RewardRouter

A request is a coroutine that selects the worker with the lowest count, is retried on the
same worker and gives its count back only when it is answered. Actions are the pieces
between two awaits.

### ChannelStateTraining

The three recipes share `RayPPOTrainer.fit`: load, then for every step the old log-probs,
the update, the checkpoint, the tracker. Each worker-group call hands every rank a program
of own operations and collectives, as in `RouteSharding`, but here ranks also carry state
from step to step. `level` and `score` are the lists of measurements folded into a rank's
averages and scores, each naming the parts of the batch or model that were summed;
`updates` is the list of `update_actor` calls behind the rank's weights, each with what it
trained with. That makes the questions of a distributed statistic direct: do all replicas
list the same, and does the list belong to these weights? An update may be skipped for its
gradient norm; the recipes differ in whether such an update enters the statistic.

## 3. The runs

| run | question | states |
| --- | --- | --- |
| `dual_route` | Do masks, scores, weights and checkpoints stay consistent, does the loop implement `ResumableTraining`, and does training end? | 366,599 |
| `route_sharding` | Do rows, log-probs, losses and scores get back to where they belong, and does every rank pass every collective? | 188,239 |
| `rollout_route` | Does every generation run what was asked for, on prefixes of its own kind, without touching sleeping storage? | 71,097 |
| `rotation` | Can a restarted job always load what the tracker names, and does every rank get through the barriers? | 9,103 |
| `curriculum` | Do batch, cursor and rounds agree over the life of a pool, and what does a restart restore or refuse? | 364,052 |
| `denoise` | Are updates on policy, is the curriculum fed once a round, do the files of a checkpoint agree? | 1,740,938 |
| `channel_state` | Do replicas of a channel statistic agree with each other, with the weights and with the checkpoint, and did what a step used exist before it? | 497,540 |
| `agent_loop` | Are rows aligned, do requests fit, are tokens and instances returned, do engines sleep only when idle, is the batch answered? | 135,930 |
| `reward_router` | Does a worker's count say what it holds and what failed on it? | 42,631 |
| `rotation_keep_one` | *violated:* keeping one checkpoint removes it before the next exists | |
| `denoise_state_missing` | *violated:* a death between the two saves leaves a tracked step without curriculum state | |
| `denoise_relabel` | *violated:* relabelling by problem merges the groups of two rounds | |

The violated runs are disagreements between the code and what its comments, scripts or
documentation say; each is quoted in `PROJECT.json` under `findings`.

### Other disagreements

Met while modelling, and kept here because no run is spent on them:

* `_load_checkpoint` of the mask recipe reads version 0 as a missing mask file, also when
  the file is there.
* A run resumed from its last checkpoint trains one step beyond `total_training_steps`
  (`StepBound` in the proofs counts these steps).
* The limit on kept checkpoints holds within one process; a restarted job forgets the
  directories of the earlier one and never removes them.
* The tracker is truncated and then written; a death in between leaves an empty file.
* A curriculum checkpoint that the code writes can be one it refuses. Rows enter at `np.mean`
  of the batch (`per_sample_curriculum.py:142`, `:210`), which is not clipped: three ratios at
  `max_rho` 0.1 give 0.10000000000000002, three at 0.8 give 0.8000000000000002, and
  `load_state_dict` (`:369`) raises. `test_per_sample_curriculum.py:140` promises the round
  trip, and `correct_prefix` starts at the bound. `RefusedOnlyForFreshRatio` says when a
  checkpoint is refused: while a row that has not been sampled yet has such a ratio, and only
  then.
* A worker of the reward model on which requests failed keeps their counts, so the router
  passes over it while it is idle (`naive_router.py:173`, `:176`).
* `max_token_len` is documented as a bound on a micro-batch (`seqlen_balancing.py:275`);
  the partition bounds only the average.
* The route-aware balancer gives the heaviest part of both routes to the same rank:
  `EvenLoad` bounds each route by itself, not their sum.
* A user's words are appended without asking whether they leave room, and the exception
  that follows leaves the engines awake; `RequestsFit` therefore excludes interactions.
* The gradient score of the consistency recipe takes in a non-finite gradient of an update
  that is skipped for it.

### Bounds, and why they are enough

* `dual_route`: 3 steps, 2 deaths. A mask is used one step after it is selected, and a
  score is measured against the step before, so three steps hold a step with a
  predecessor and a successor. Two deaths give a resume from a checkpoint of a resumed
  run. Every strategy, score, resampling mode and every-step flag is there with saving
  every second step (a death then loses a step), and sparse schedules with late
  warm-ups and a critic warm-up save at every step.
* `route_sharding`: seven configurations of 4 to 12 rows on 2 or 4 ranks, with every
  assignment of two or three lengths to rows. They cover tensor-parallel groups as wide as
  the world and narrower, balancing on and off, dynamic and fixed micro-batches, all four
  aggregation modes, and both strategies. The last three cannot give every rank or shard
  the same number of rows of both routes and must be refused or hang; the others must not
  (`EvenQuota`).
* `rollout_route`: 3 steps, 2 deaths; everything one call can leave behind (route,
  mask, weights, cache) is visible to the next call, and three steps put each kind of
  call before and after each other.
* `rotation`: 2 ranks (one rotates, one only writes), actor and critic in sequence,
  4 steps with 2 actor checkpoints kept: rotation happens twice in a process, and again in
  one that was restarted and forgot its list.
* `curriculum`: a pool of 5 in batches of 3, 2 accuracies, a window of 3: rows leave
  together and one at a time, the pool runs out with stable rows too many, a second round
  starts; 6 updates cover that with one restart. Floats have significands of five bits,
  the fewest with which the mean of three equal ratios can be a greater one: with bounds 22/32 and
  26/32 it can be 21/32 and 27/32, so both ways out of the bounds occur, the upper one after
  two updates with every ratio at `MaxRho`.
* `denoise`: 3 problems, rounds of 2, updates of 2, 3 draws, 2 steps, 2 deaths, over 32
  configurations: a step takes one, two or capped rounds, and keeps more, exactly or
  fewer problems than it needs.
* `channel_state`: 2 ranks with 2 rows each, 3 steps, 2 deaths, nine configurations. The
  first step has no baseline, the second is compared to one batch, the third to an average;
  any update may be skipped; saving every step and every other one (or early, at expiration
  of the job) makes a resume lose no step or one.
* `agent_loop`: one or two rows on one or two workers and servers, prompts of at most 2 and
  responses of 4 tokens in pieces of at most 2, one limiter token and one or two threads.
  A response can be filled by the model, by a tool and by a user, exactly and with one
  token over; two calls of a row, or of two rows, compete for one token.
* `reward_router`: 2 workers, 5 interchangeable requests, 3 attempts: a worker can hold
  several requests in every mixture of retrying, answered and failed. Symmetry over
  requests is sound, as the run checks no liveness.

Deadlock is checked everywhere except in `agent_loop` and `reward_router`, which model
calls that end; elsewhere finished, refused and hung states stutter explicitly, and
`NoRankLeftWaiting` says where a hang may not be. In `ChannelStateTraining` there is no
such stutter, so a rank at a different collective is a deadlock TLC reports.

### Fairness

* `DualRouteTraining!FairSpec` is `WF_vars(Fit)`: the driver is one thread whose
  synchronous calls return, so while `fit()` has a next statement it executes it
  (`EventuallyTrained`).
* `CheckpointRotation!FairSpec` is `WF_vars(Run)`: as long as some rank or the driver can
  take a step, one of them does (`EventuallyEnds`).
* `AgentLoop!Spec` has `WF_vars(Next)`: threads and coroutines go on while any can, engines
  and searches answer or time out (`EventuallyAnswered`).

That much any scheduler gives, and it is enough because no process can take steps for ever
while another waits. Deaths are never fair and are bounded. The other modules state safety
only.

## 4. What is proved

Eight modules of proofs for every value of the constants that satisfies the named
assumptions of the modules (positive sizes, configurations the code's start-up checks
accept). Every `pass` property that a theorem states is also checked by a run.

| module | theorem | says |
| --- | --- | --- |
| `DualRouteTraining_proofs` | `TypeCorrect` | `Spec => []TypeOK` |
| | `OneMaskPerStepHolds` | rollout, old log-probs and update of a step use one mask |
| | `MaskOfStepHolds` | with resampling, step *t* runs the *t*-th mask, over any deaths |
| | `OnlyIntendedFailuresHolds` | the version check never fires; the other two refusals arise only as intended |
| | `ImplementsResumableHolds` | the loop implements `ResumableTraining` |
| | `UpdatedOnceHolds` | no weights contain the update of a step twice |
| | `ScoredExactlyOnceHolds` | the score lists every due batch once, in order |
| | `ScoredAgainstThePastHolds` | relative scores are measured against earlier batches |
| | `CausalPairingHolds` | a reward gap is paired with the mask that caused it |
| `RolloutRoute_proofs` | `GeneratesAsAskedHolds` | every generation runs the route, mask and weights asked for |
| | `PrefixesOfOwnForwardHolds` | on prefixes computed alike |
| | `SleepingStorageUntouchedHolds` | and no step writes a sleeping buffer |
| `CheckpointRotation_proofs` | `ResumeSucceedsHolds` | with a limit other than one, what the tracker names can be loaded |
| `DenoiseTraining_proofs` | `FedOncePerRoundHolds` | the curriculum was fed the rounds behind the weights |
| | `SavedTogetherHolds` | shards and curriculum of the tracked directory are of one moment |
| | `DataInOrderHolds` | the *n*-th step trains on the *n*-th batch, over any resumes |
| | `OnPolicyHolds` | an update trains on distinct groups of the weights it starts from |
| | `EveryActiveMeasuredHolds` | every active problem has an accuracy when one is asked for |
| | `RowsBeforeCursorHolds` (of `NoiseCurriculum`) | rows enter in pool order without a gap |
| | `WholePoolSampledHolds` | a round ends when every row was sampled |
| | `LeavesOnceHolds` | a row leaves once a round, with a defined slope |
| | `RefusedOnlyForFreshRatioHolds` | a checkpoint restores what it was taken from, or is refused for the ratio of a row not yet sampled |
| `AgentLoop_proofs` | `EnginesAwakeHolds` | no request reaches a sleeping engine |
| | `OutputAlignedHolds` | ids, mask and log-probs of a row stay aligned, however it is cut |
| | `RequestsFitHolds` | no request lacks room without an interaction |
| | `ResourcesReturnedHolds` | tokens and instances are accounted for |
| | `CountsExplainedHolds` | in the router, a count is what is held and what failed |
| `RouteSharding_proofs` | `RowsReturnedHolds` | a row keeps the uid of its prompt and route |
| | `CallInvHolds` | a call forwards each row of a shard once |
| | `LogProbsOfOwnRowHolds` | a row gets back its own log-probs |
| | `LossOfWholeShardHolds` | a rank's loss has each of its rows once, at its weight in the undivided shard |
| | `ScoreOfAllCleanRowsHolds` | the score counts each clean row of the step once, on every rank |
| | `NoRankLeftWaitingHolds` | routes that divide evenly are never refused, and no rank waits at a collective another does not reach |
| | `EvenLoadHolds` | after balancing, loads differ on a route by at most the widest group of neighbours |
| `ChannelStateTraining_proofs` | `StateOfUpdatesHolds` | statistic, weights and tracked checkpoint list the same updates |
| | `ReplicasAgreeHolds` | all ranks trained from the same statistics, in memory and on disk |
| | `GivenByThePastHolds` | what an update trains with was measured before it |
| | `WeightOfOwnRowHolds` | a row is trained with the weight of its own prompt |

### The arguments

**DualRouteTraining.** *Type correctness* needs `TypeInv == TypeOK /\ StepBound`:
directories are indexed by step, and a step beyond `TotalSteps` exists only because a run
resumed from its last checkpoint goes on (one step for each death), so the step must be
bounded by the deaths so far. *The mask properties* share `MaskInv`. None of the three is
inductive. That the three forward passes agree needs `ForwardsOfStep` (what ran so far ran
the rollout controller's current mask) and `CollectedBeforeRefresh` (no refresh falls
between them). That they agree on the *right* mask needs `Synced` (two controllers and
driver hold one version) and `VersionOfStep` (the version is a function of the step and of
where in the step the driver is). A death throws all of this away, so `FilesOfStep` says
the same of every complete directory: the mask file of step *t* holds version *t*, or
*t*+1 when the next mask was prepared. Loading re-establishes `VersionOfStep`, which is
where a resume that sampled again, or not at all, would fail.

**Resumes.** The refinement maps the tracked directory to the abstract saved state. Steps
between two tracker writes must leave that directory alone: `SavedInv` keeps the running step
beyond the tracker until it is tracked, so writes go elsewhere, and says that shards and
mask file of the step hold what is live when the tracker moves to it. `UpdatedOnce` follows from `OnceInv`: weights are `UpTo` a step, an
increasing list without a step after the current one, live and in every directory. The
score properties share `ScoreInv`: `PendingOfStep` (what waits in a controller is the batch
of this step), `LiveScore` (what was folded in is what was due, by step and place in the
step) and `SavedScore`, the same of each directory.

**RolloutRoute.** The inductive fact is *where in the executed call* the worker stands:
`Positioned` relates the remaining operations to engine, buffers and route (after the reset
the cache is empty, after `set_route` the buffers hold the controller's mask, and so on).
`Stamped` adds that the driver asks for the mask the rollout controller has.

**CheckpointRotation.** `RotationInv`: paths are remembered in the order of steps, none
is younger than the tracked directory until the new checkpoint is written, and the shards
a rank has returned from are whole. Rotation removes from the front, which with a limit
other than one is never the tracked directory: the complement of `rotation_keep_one`.

**NoiseCurriculum.** `WellFormed` states what a controller record is: active and sampled
rows together are exactly those before the cursor, and every active row has a history.
`NotAhead` says the same of the checkpoint, which is of no later round. Rows that enter
together take the places of those that leave by rank, and ranks have no gap (the pigeonhole
argument over finite sets). `RefusedOnlyForFreshRatio` rests on `SoundInv`, which is about
live and saved controller at once: a ratio is within the bounds once its row was sampled
(`Row`), as feedback clips it. Of the ratio a new row starts from it says only that it is an
integer of the model, which `MeanIsFloat` and `RoundedIsFloat` give for any set of floats;
whether it lies within the bounds depends on that set, and in the run's it need not.

**DenoiseTraining.** `Ahead` keeps a step above the tracker until it is tracked, and
`WrittenLast` says that the curriculum file comes last and that shards being saved are
those of the live weights; `Fed` and `InOrderOfSteps` give the curriculum's and the
dataloader's position from the rounds trained and the place in the step. `SamplingInv` is
about what is accumulated: groups that wait are of the live weights (`Waiting`), and what an
update took stays what it was until the curriculum was fed from it (`Used`). That groups are
distinct needs the round number, since rounds may draw one problem again.

**AgentLoop.** `Typed` first. `EnginesInv`: every engine is awake from the dispatch of the
rows on, and the manager puts them to sleep only once every row is scored, which it stays. `FitsInv` bounds a context by the prompt and the response before every request,
which is the check that an observation leaves room. `AlignedInv` says where a mask bit is set
(behind the prompt, on a token the model wrote) and that lists have one length; an action adds
a word by the same `Repeat` to all, which `Longer` states by elements. `ResourcesInv` ties tokens and
instances to the phases of all calls.

**RewardRouter.** `CountsExplained` is inductive with the type invariant and `AttemptLeft`:
a request that is being sent has an attempt left, so it is counted once, and the clamp at
zero never acts.

**RouteSharding.** `SeqlenBalance_proofs` says what the operators compute: joined, split and
selected sequences, the sort of `Argsort`, sums over sets, and the differencing method, for
any number of parts (`PartitionOf`: disjoint lists that cover the rows, all of one length in
the equal form). `RowsInv` says that the driver's rows are a permutation of the built batch
with positions, routes and uids in place; of the interleaving of routes it needs that chunks
of the batch rejoin to the batch. `CallInv` is the fact about ranks: `RankProgress` says that
what a rank has forwarded and what its program still holds list each position of its shard
once, for *whatever* index lists the packing returns, so that it survives the agreement on
their number. At the end of a call nothing is left, and `LogProbsAre` takes the two inverse
permutations back. `LossInv` reads a rank's loss off the same lists: its entries are the rows
forwarded so far, each at the weight it is due in the undivided shard. `SameWeight` is the
arithmetic of that, mode by mode: the fraction inside the micro-batch times the micro-batch's
share of the whole cancels. `ScoreInv` keeps the pending sums equal to the clean rows forwarded; a rank
with any enters the reduction, so none is missing from the sum.

*No rank left waiting* needs `WaitInv`: from the balancer on every rank has as many rows of a
route as every other, and some (`Even`), and in a call any two ranks have programs of one
shape (`OneShape`): as long, and at each place the same operation on the same route. A
shape is the same for all ranks when programs are made, because it depends only on how many
rows there are (`DispatchShape`). Every forward and optimizer step then takes one operation
from every rank's program (`TailsShape`), and the number of micro-batches the ranks agree on
expands a route's turn alike without exceeding any rank's rows (`AgreeShape`). Before that,
the rollout's contiguous shards must have both routes (`RolloutAccepted`). With as many
masked rows as clean ones this follows from the round robin: routes take turns, and a shard
has an even number of rows (`EvenTurns`, `TurnsHaveBoth`); otherwise the quota supposes one
rollout shard.

*Even loads* is `LoadInv`, about the moment after the balancer. `LevelPartitionIs` proves of
the differencing method that two states within a bound merge into one within it when the
heaviest part of one meets the lightest of the other; the induction is over the states left to
merge. The bound is a maximum over the groups of the weights *as listed*, and the balancer
reorders the rows it was computed from. `WidestOfAlike` shows that the groups' spreads do not
depend on the listing: the *i*-th smallest weight of two listings of the same rows is equal,
which `NoLighter` gets by counting the weights below it.

**ChannelStateTraining.** A rank is between two collectives almost everywhere, so
`TrainingInv` says where in its call each rank stands (`Placed`: what is left of its program,
and what level, score, weights and files are there), what ranks agree on at every such point
(`Alike`), that every update trained with what its past gave (`AllSound`), and all of this of
the tracked directory (`Tracked`). Rarity folds a step's statistic in before the update that
may still be skipped, so `Scored` claims the invariant for both outcomes. One lemma per
action keeps the invariant. `DueLevelGrows` and `DueScoreGrows` say how one more update changes
what a replica should hold; `OwnRowsAreOwn` that a rank cuts its own rows out of the
flattening of all ranks' rows, for any number of rows each.

### Only model-checked

* Liveness: `EventuallyTrained`, `EventuallyEnds`, `EventuallyAnswered`. The prover does not
  reason about fairness or ENABLED.

Induction over data is within reach where a set says it: the library's induction theorems take
an operator as a parameter, but `WFMin` takes a relation, and `SetInduction` (every natural
number is in a set that holds 0 and successors) follows from it. The facts about `FlattenSeq`
and about sums over sets are proved so, about those particular recursive functions.

## 5. What is not modelled

* Numeric content: scores, thresholds of the selection, advantages, losses, gradients,
  KL, entropy, Adam's moments. Which data enter them is modelled, their values are not.
* Random number generators: a selection is a new mask, without saying which.
* `dynamic_rho`, which is one clipped number that is not saved.
* In `DenoiseTraining`, ratios: a curriculum file that is there is accepted. The one check it
  can fail is the subject of `NoiseCurriculum`.
* Prompt noising, prefix cutting and answer folding: pure functions on text with tests.
* HDFS copies, `del_local_after_load`, explicit resume paths, LoRA, offloading.
* On the base loop: rollout, rewards, advantages, validation, the critic and its warm-up;
  in the consistency recipe the auxiliary masked forward and the `updated_fraction` score.
* In the agent loop: images and video, the server's eviction of old request ids, and the
  limiter's `current_count`, which is read without a lock and only reported. Prompts are
  taken to be at most `prompt_length` long, as the datasets filter them.
* In the reward router: cancelled requests and the reward model itself.
* The antithetic and rdrop recipes, which share the checkpoint and refresh structure of the
  mask recipe, and the predecessor of `denoise_v2`.
* Megatron, SGLang, datasets, SFT, model definitions: not part of the recipes' own logic,
  or not used by them. `PROJECT.json` lists each.
* Three hazards have no property, as the code promises nothing there: the mask recipe's
  dataloader position (`ray_trainer.py:857`), a torn tracker (`ray_trainer.py:867`), and a
  dialogue that fills its context (`tool_agent_loop.py:423`).

## 6. Plan

Done: the core (`MaskController`, `DualRouteTraining`, `ResumableTraining`), then
`CheckpointRotation`, `NoiseCurriculum`, `DenoiseTraining`, `RolloutRoute`, then
`RouteSharding` with `SeqlenBalance` and `LossAggregation`, `AgentLoop`, `RewardRouter`,
`ChannelStateTraining`, and the proofs of section 4.

Next:

1. The antithetic recipe (complementary masks) and rdrop (two masks per step under one
   version) as variants of `MaskController` and `DualRouteTraining`.

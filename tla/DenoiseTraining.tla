--------------------------- MODULE DenoiseTraining ---------------------------
(***************************************************************************)
(* RayDAPOTrainer.fit of recipe/denoise_v2 (recipe/correct_prefix has the  *)
(* same loop): with DAPO dynamic sampling a step draws generation rounds   *)
(* until enough problems survive the accuracy filter, then updates once;   *)
(* without it every round is a step.  With the v2 curriculum the rounds    *)
(* are drawn from the active batch of a per-sample curriculum, which takes *)
(* feedback from every round; without it they come from the dataloader.    *)
(*                                                                         *)
(* One driver process runs the loop and may die at any point; a new one    *)
(* resumes from the checkpoint the tracker names.  The curriculum is seen  *)
(* as the number of rounds it was fed and its active problems: which rows  *)
(* are replaced is the matter of NoiseCurriculum.  The N + K trajectories  *)
(* of one problem in one round are one element, a group.                   *)
(***************************************************************************)
EXTENDS Integers, SequencesExt, FiniteSetsExt

CONSTANTS
  Configs,        \* the configurations considered
  Problems,       \* problem ids, numbered in pool order
  GenBatch,       \* data.gen_batch_size: problems of a round
  TrainBatch,     \* data.train_batch_size: problems of an update
  Draws,          \* total_epochs * len(train_dataloader)
  TotalSteps,     \* total_training_steps
  Profiled,       \* global_profiler.steps
  MaxCrashes      \* bound on the number of process deaths

ConfigSpace ==
  [v2 : BOOLEAN, dapo : BOOLEAN, saveFreq : Nat, cap : Nat,
   continuous : BOOLEAN, problemAsUid : BOOLEAN]

ASSUME ConfigsAssumption == Configs \subseteq ConfigSpace
ASSUME ProblemsAssumption == Problems \subseteq Nat /\ IsFiniteSet(Problems)
ASSUME BatchAssumption ==
  /\ GenBatch \in 1..Cardinality(Problems) /\ TrainBatch \in Nat \ {0}
ASSUME StepsAssumption ==
  /\ Draws \in Nat /\ TotalSteps \in Nat \ {0} /\ MaxCrashes \in Nat
  /\ Profiled \subseteq Nat

\* A finished run may be started again, each time adding a step or a
\* checkpoint after the last draw.
Steps == 1..(TotalSteps + MaxCrashes + 1)

VARIABLES
  config,       \* the run's configuration
  \* the driver
  pc,           \* the next thing fit() does
  step,         \* global_steps
  inner,        \* inner_global_steps
  drawn,        \* batches drawn from the epoch iterators of this process
  prevProfile, currProfile,
  acc,          \* dapo_state
  curriculum,   \* the controller: rounds it was fed, active problems
  failure,      \* the exception that ended fit(), "none" while there is none
  \* the workers
  weights,      \* the steps whose update was applied
  profiling,    \* profiler starts minus stops
  \* durable files
  dirs,         \* the global_step_N directories
  tracker,      \* latest_checkpointed_iteration.txt; 0: no such file
  \* observers
  rounds,       \* rounds sampled since training began, along the weights' line
  update,       \* groups of the update made in this step
  crashes       \* processes that died

profiler == <<prevProfile, currProfile, profiling>>
driver == <<pc, step, inner, drawn, acc, curriculum, failure>>
disk == <<dirs, tracker>>
vars == <<config, driver, profiler, weights, disk, rounds, update, crashes>>

Batches == kSubset(GenBatch, Problems)

\* dapo_state: the kept groups ("none" before the first round of a step).
EmptyAcc == [started |-> FALSE, batch |-> << >>, kept |-> 0, gen |-> 0]

\* A group: the problem, the round of the step, and the policy's version.
Group(p, gen) == [problem |-> p, gen |-> gen, policy |-> Len(weights)]
InOrder(S) ==
  CHOOSE f \in [1..Cardinality(S) -> S] : \A i, j \in DOMAIN f : i < j => f[i] < f[j]

\* The first pool rows are active.
FirstActive == {p \in Problems : Cardinality({q \in Problems : q < p}) < GenBatch}
NewCurriculum == [fed |-> 0, active |-> FirstActive]

Missing == [by |-> 0, weights |-> << >>, rounds |-> 0]
MissingState == [by |-> 0, saved |-> NewCurriculum]
NoDirectory == [shards |-> Missing, state |-> MissingState, dump |-> FALSE]

Process == crashes + 1
IsLastStep == step >= TotalSteps
DirectoryExists(s) == dirs[s] # NoDirectory

\* The non-DAPO path has one batch size.
ValidConfig(cfg) == cfg.dapo \/ GenBatch = TrainBatch

Init ==
  /\ config \in {cfg \in Configs : ValidConfig(cfg)}
  /\ pc = "boot" /\ step = 0 /\ inner = 0 /\ drawn = 0
  /\ prevProfile = FALSE /\ currProfile = FALSE /\ profiling = 0
  /\ acc = EmptyAcc /\ curriculum = NewCurriculum /\ failure = "none"
  /\ weights = << >> /\ dirs = [s \in Steps |-> NoDirectory] /\ tracker = 0
  /\ rounds = 0 /\ update = << >> /\ crashes = 0

Goto(from, to) == pc = from /\ pc' = to
Raise(message) == pc' = "failed" /\ failure' = message

----------------------------------------------------------------------------
(***************************************************************************)
(* _load_checkpoint, _load_v2_state and the start of fit().  The restored  *)
(* curriculum stands where it was saved, so nothing is skipped for it; the *)
(* dataloader starts from its first batch.                                 *)
(***************************************************************************)
StateRefused == config.v2 /\ tracker > 0 /\ dirs[tracker].state.by = 0

\* Mutant: no batch is skipped on resume.
ResumedInner_AtStep == tracker

ResumedInner == IF config.v2 THEN tracker ELSE 0

ResumedStep == tracker + 1

\* Mutant: the curriculum starts over.
ResumedCurriculum_Fresh == curriculum

ResumedCurriculum ==
  IF tracker > 0 /\ config.v2 /\ ~StateRefused
    THEN dirs[tracker].state.saved ELSE curriculum

LoadCheckpoint ==
  /\ pc = "boot"
  /\ weights' = IF tracker = 0 THEN << >> ELSE dirs[tracker].shards.weights
  /\ rounds' = IF tracker = 0 THEN 0 ELSE dirs[tracker].shards.rounds
  /\ curriculum' = ResumedCurriculum
  /\ IF StateRefused
       THEN /\ Raise("missing_state")
            /\ step' = tracker /\ UNCHANGED <<inner, currProfile>>
       ELSE /\ pc' = "draw" /\ UNCHANGED failure
            /\ step' = ResumedStep /\ inner' = ResumedInner + 1
            /\ currProfile' = (ResumedStep \in Profiled)
  /\ UNCHANGED <<config, drawn, acc, prevProfile, profiling, disk, update, crashes>>

\* A batch the checkpointed steps are taken to have used.
SkipBatch ==
  /\ pc = "draw" /\ drawn < Draws /\ inner < step
  /\ drawn' = drawn + 1 /\ inner' = inner + 1
  /\ UNCHANGED <<config, pc, step, acc, curriculum, failure, profiler, weights,
                 disk, rounds, update, crashes>>

\* The problems of the next batch.
Drawn == IF config.v2 THEN {curriculum.active} ELSE Batches

StartProfiling ==
  profiling' = IF (IF config.continuous THEN ~prevProfile /\ currProfile ELSE currProfile)
                 THEN profiling + 1 ELSE profiling

(***************************************************************************)
(* PerSampleNoiseCurriculum.update with the accuracies of the given        *)
(* problems: every active problem must have one.                           *)
(***************************************************************************)
Unmeasured(measured) == ~(curriculum.active \subseteq measured)

FeedCurriculum(measured) ==
  IF Unmeasured(measured)
    THEN UNCHANGED curriculum
    ELSE \E active \in Batches :
           curriculum' = [fed |-> curriculum.fed + 1, active |-> active]

(***************************************************************************)
(* _dapo_step up to the decision: roll out a round, feed the curriculum    *)
(* from all of it, keep the problems that are neither always right nor     *)
(* always wrong.                                                           *)
(***************************************************************************)
\* Mutant: the curriculum is fed what the filter kept.
Feedback_Kept(sampled, kept) == kept

Feedback(sampled, kept) == sampled

NewGroups(kept) ==
  [i \in 1..Cardinality(kept) |-> Group(InOrder(kept)[i], acc.gen + 1)]

Accumulated(kept) ==
  [started |-> TRUE, batch |-> acc.batch \o NewGroups(kept),
   kept |-> acc.kept + Cardinality(kept), gen |-> acc.gen + 1]

StartsStep == ~acc.started

\* What a round leads to, given dapo_state after it.
Outcome(after) ==
  CASE after.kept >= TrainBatch -> "update"
    [] after.kept < TrainBatch /\ config.cap > 0 /\ config.cap <= after.gen -> "cap"
    [] OTHER -> "draw"

SampleRound ==
  /\ pc = "draw" /\ drawn < Draws /\ inner >= step /\ config.dapo
  /\ drawn' = drawn + 1 /\ rounds' = rounds + 1
  /\ IF StartsStep THEN StartProfiling ELSE UNCHANGED profiling
  /\ \E sampled \in Drawn : \E kept \in SUBSET sampled :
       IF config.v2 /\ Unmeasured(Feedback(sampled, kept))
         THEN Raise("missing_accuracy") /\ UNCHANGED <<acc, curriculum, inner>>
         ELSE /\ IF config.v2 THEN FeedCurriculum(Feedback(sampled, kept))
                              ELSE UNCHANGED curriculum
              /\ acc' = Accumulated(kept)
              /\ IF Outcome(acc') = "cap"
                   THEN Raise("cap")
                   ELSE pc' = Outcome(acc') /\ UNCHANGED failure
              /\ inner' = IF Outcome(acc') = "draw" THEN inner + 1 ELSE inner
  /\ UNCHANGED <<config, step, prevProfile, currProfile, weights, disk, update, crashes>>

\* Mutant: what the update does not use stays in the accumulator.
AfterUpdate_Surplus ==
  [started |-> TRUE, batch |-> SubSeq(acc.batch, TrainBatch + 1, Len(acc.batch)),
   kept |-> acc.kept - TrainBatch, gen |-> 0]

AfterUpdate == EmptyAcc

\* The rest of _dapo_step: whole groups up to train_batch_size, one update.
UpdateFromAccumulated ==
  /\ Goto("update", "dump")
  /\ update' = SubSeq(acc.batch, 1, TrainBatch)
  /\ acc' = AfterUpdate
  /\ weights' = Append(weights, step)
  /\ UNCHANGED <<config, step, inner, drawn, curriculum, failure, profiler, disk,
                 rounds, crashes>>

\* train_batch: one round, one update.
TrainBatchStep ==
  /\ pc = "draw" /\ drawn < Draws /\ inner >= step /\ ~config.dapo
  /\ pc' = "dump"
  /\ drawn' = drawn + 1 /\ rounds' = rounds + 1
  /\ StartProfiling
  /\ \E sampled \in Drawn :
       update' = [i \in 1..GenBatch |-> Group(InOrder(sampled)[i], 1)]
  /\ weights' = Append(weights, step)
  /\ UNCHANGED <<config, step, inner, acc, curriculum, failure, prevProfile,
                 currProfile, disk, crashes>>

----------------------------------------------------------------------------
(* save_rollout_with_token_level_reward_sum creates the directory.         *)
DumpRollout ==
  /\ Goto("dump", "feed")
  /\ dirs' = IF config.saveFreq > 0 /\ step % config.saveFreq = 1
               THEN [dirs EXCEPT ![step].dump = TRUE] ELSE dirs
  /\ UNCHANGED <<config, step, inner, drawn, acc, curriculum, failure, profiler,
                 weights, tracker, rounds, update, crashes>>

\* Mutant: the curriculum is fed on both paths.
FeedsAfterUpdate_Always == config.v2

FeedsAfterUpdate == config.v2 /\ ~config.dapo

FeedAfterUpdate ==
  /\ pc = "feed"
  /\ LET measured == {update[i].problem : i \in DOMAIN update} IN
       IF FeedsAfterUpdate
         THEN /\ FeedCurriculum(measured)
              /\ IF Unmeasured(measured)
                   THEN Raise("missing_accuracy")
                   ELSE pc' = "save" /\ UNCHANGED failure
         ELSE pc' = "save" /\ UNCHANGED <<curriculum, failure>>
  /\ update' = << >>
  /\ UNCHANGED <<config, step, inner, drawn, acc, profiler, weights, disk, rounds, crashes>>

MustSave == config.saveFreq > 0 /\ (IsLastStep \/ step % config.saveFreq = 0)

SkipSave ==
  /\ Goto("save", "end") /\ ~MustSave
  /\ UNCHANGED <<config, step, inner, drawn, acc, curriculum, failure, profiler,
                 weights, disk, rounds, update, crashes>>

(***************************************************************************)
(* _save_checkpoint and then _save_v2_state: shards, tracker, curriculum.  *)
(* The same two calls follow the last epoch.                               *)
(***************************************************************************)
SaveShards ==
  /\ \/ Goto("save", "save_tracker") /\ MustSave
     \/ Goto("tail_save", "tail_save_tracker")
  /\ dirs' = [dirs EXCEPT ![step].shards =
                [by |-> Process, weights |-> weights, rounds |-> rounds]]
  /\ UNCHANGED <<config, step, inner, drawn, acc, curriculum, failure, profiler,
                 weights, tracker, rounds, update, crashes>>

WriteTracker ==
  /\ \/ Goto("save_tracker", "save_state")
     \/ Goto("tail_save_tracker", "tail_save_state")
  /\ tracker' = step
  /\ UNCHANGED <<config, step, inner, drawn, acc, curriculum, failure, profiler,
                 weights, dirs, rounds, update, crashes>>

SaveState ==
  /\ \/ Goto("save_state", "end")
     \/ Goto("tail_save_state", "done")
  /\ dirs' = IF config.v2
               THEN [dirs EXCEPT ![step].state = [by |-> Process, saved |-> curriculum]]
               ELSE dirs
  /\ UNCHANGED <<config, step, inner, drawn, acc, curriculum, failure, profiler,
                 weights, tracker, rounds, update, crashes>>

LeavesLoop == IsLastStep

\* stop_profile and the end of a step.
EndStep ==
  /\ pc = "end"
  /\ LET next == step + 1 \in Profiled
         stop == IF config.continuous THEN currProfile /\ ~next ELSE currProfile
     IN  /\ profiling' = IF stop THEN profiling - 1 ELSE profiling
         /\ prevProfile' = currProfile /\ currProfile' = next
  /\ IF LeavesLoop
       THEN pc' = "done" /\ UNCHANGED <<step, inner>>
       ELSE pc' = "draw" /\ step' = step + 1 /\ inner' = inner + 1
  /\ UNCHANGED <<config, drawn, acc, curriculum, failure, weights, disk, rounds,
                 update, crashes>>

\* Every epoch is exhausted: a last checkpoint unless its directory exists.
ExhaustEpochs ==
  /\ pc = "draw" /\ drawn = Draws
  /\ pc' = IF DirectoryExists(step) THEN "done" ELSE "tail_save"
  /\ UNCHANGED <<config, step, inner, drawn, acc, curriculum, failure, profiler,
                 weights, disk, rounds, update, crashes>>

(* The process is killed or has ended, and the job is started again.       *)
Restart ==
  /\ pc # "boot" /\ crashes < MaxCrashes
  /\ crashes' = crashes + 1
  /\ pc' = "boot" /\ step' = 0 /\ inner' = 0 /\ drawn' = 0
  /\ prevProfile' = FALSE /\ currProfile' = FALSE /\ profiling' = 0
  /\ acc' = EmptyAcc /\ curriculum' = NewCurriculum /\ failure' = "none"
  /\ weights' = << >> /\ rounds' = 0 /\ update' = << >>
  /\ UNCHANGED <<config, disk>>

Ended == {"done", "failed"}
Terminated == pc \in Ended /\ UNCHANGED vars

Run ==
  \/ LoadCheckpoint \/ SkipBatch
  \/ SampleRound \/ UpdateFromAccumulated \/ TrainBatchStep
  \/ DumpRollout \/ FeedAfterUpdate
  \/ SkipSave \/ SaveShards \/ WriteTracker \/ SaveState
  \/ EndStep \/ ExhaustEpochs

Next == Run \/ Restart \/ Terminated

Spec == Init /\ [][Next]_vars
----------------------------------------------------------------------------
(* Every group that waits for the update, and every group the update used,  *)
(* was rolled out by the very weights it updates: nothing of an earlier     *)
(* step or of a dead process is left in the accumulator.  An update trains  *)
(* on exactly train_batch_size distinct groups.                             *)
OnPolicy ==
  /\ acc.kept = Len(acc.batch)
  /\ pc = "dump" => Len(update) = TrainBatch /\ IsInjective(update)
  /\ \A i \in DOMAIN acc.batch : acc.batch[i].policy = Len(weights)
  /\ \A i \in DOMAIN update : update[i].policy = Len(weights) - 1

(* The curriculum is fed once for every round, before the next one is       *)
(* drawn, whichever path updates it and however often the run resumes.      *)
FedOncePerRound ==
  config.v2 /\ pc \in {"draw", "update", "save", "tail_save"} => curriculum.fed = rounds

(* Every active problem has an accuracy when update() asks for it.          *)
EveryActiveMeasured == failure # "missing_accuracy"

(* Weights and curriculum of the tracked directory belong together: the     *)
(* same process wrote both, and the curriculum was fed exactly the rounds   *)
(* sampled until the weights were saved.                                    *)
SavedTogether ==
  LET d == dirs[tracker] IN
    tracker # 0 /\ d.state.by # 0 =>
      d.shards.by = d.state.by /\ d.state.saved.fed = d.shards.rounds

(* Without dynamic sampling a resumed run goes on with the first batch of   *)
(* the dataloader that no checkpointed step has used.                       *)
DataInOrder ==
  ~config.dapo /\ ~config.v2 /\ pc = "dump" => drawn = step

----------------------------------------------------------------------------
(* ray_trainer.py: "latest checkpointed iteration tracker (for atomic       *)
(* usage)": what the tracker names can be resumed from.                     *)
TrackedHasState == failure # "missing_state"

(* dapo_ray_trainer.py, of use_problem_id_as_uid: "relabel uid with         *)
(* problem_id (still per-problem grouping, but human-readable)": the        *)
(* advantage groups are those of the uids assigned per round.               *)
Uid(g) == IF config.problemAsUid THEN <<g.problem>> ELSE <<g.problem, g.gen>>

RelabelKeepsGroups ==
  \A i, j \in DOMAIN update :
    Uid(update[i]) = Uid(update[j]) => update[i].gen = update[j].gen
=============================================================================

------------------------ MODULE ChannelStateTraining ------------------------
(* The recipes that run on the driver loop of the base class and keep a       *)
(* statistic over MLP channels, one replica per rank, which decides how later *)
(* steps train: loss weights from activation rarity, step sizes from update   *)
(* history, masks of an auxiliary loss from scores.  Ranks run their calls in *)
(* any interleaving between collectives; the job may die at any point and is  *)
(* restarted from the checkpoint the tracker names.                           *)
(*   recipe/mlp_channel_rarity/{rarity,actor,worker}.py                       *)
(*   recipe/mlp_channel_relative_update/{optimizer,relative_update,worker}.py *)
(*   recipe/mlp_channel_consistency/{intervention,actor,worker}.py            *)
(*   verl/trainer/ppo/ray_trainer.py (RayPPOTrainer.fit)                      *)
EXTENDS Integers, SequencesExt

CONSTANTS
  Configs,      \* [recipe, relative, warmup, saveFreq]
  World,        \* number of ranks
  RowsPerRank,  \* rows of a rank's shard of the batch
  TotalSteps,   \* total_training_steps
  MaxCrashes    \* bound on deaths of the job

Ranks == 1..World
Recipes == {"rarity", "relative_update", "consistency"}

ASSUME ConfigsAssumption ==
  Configs \subseteq [recipe : Recipes, relative : BOOLEAN, warmup : Nat, saveFreq : Nat]
ASSUME BoundsAssumption ==
  /\ {World, RowsPerRank, TotalSteps} \subseteq Nat \ {0}
  /\ MaxCrashes \in Nat

VARIABLES
  config,
  \* the driver
  pc,          \* where fit() is
  step,        \* self.global_steps
  \* each rank
  prog,        \* what is left of the running call
  observed,    \* parts measured in the running call, with the level they were compared to
  level,       \* running average: normal_activation, history_relative_update_sq, activation_ema
  score,       \* what is derived from it: exposure_count, selection_score
  given,       \* what this step trains with: loss weights, multipliers or mask
  updates,     \* FSDP shard, optimizer and scheduler, as the update_actor calls behind them
  \* files
  dirs,        \* the global_step_N directories
  tracker,     \* latest_checkpointed_iteration.txt, 0: none
  \* observer
  crashes
ranks == <<prog, observed, level, score, given, updates>>
vars == <<config, pc, step, ranks, dirs, tracker, crashes>>

Process == crashes + 1
LastStep == TotalSteps + MaxCrashes
NoPart == [by |-> 0]
NoDirectory == [shards |-> [r \in Ranks |-> NoPart], state |-> NoPart]

\* A measurement of this step, by the parts of the batch or model that were summed.
Measured(parts) == [process |-> Process, step |-> step, parts |-> parts]

\* Weight one, multiplier one, or a mask drawn without scores.
Neutral(r) == <<[part |-> <<r, 1>>, level |-> <<>>, score |-> <<>>]>>

Empty(value) == [r \in Ranks |-> value]

Init ==
  /\ config \in Configs
  /\ pc = "boot" /\ step = 0
  /\ prog = Empty(<<>>) /\ observed = Empty(<<>>)
  /\ level = Empty(<<>>) /\ score = Empty(<<>>)
  /\ given = [r \in Ranks |-> Neutral(r)] /\ updates = Empty(<<>>)
  /\ dirs = [s \in 1..LastStep |-> NoDirectory] /\ tracker = 0
  /\ crashes = 0

-----------------------------------------------------------------------------
(* Calls of the worker group: every rank gets its program, and the driver     *)
(* waits for all.                                                             *)

Call(from, to, Program(_)) ==
  /\ pc = from /\ pc' = to
  /\ prog' = [r \in Ranks |-> Program(r)]
  /\ observed' = Empty(<<>>)
  /\ UNCHANGED <<config, step, level, score, given, updates, dirs, tracker, crashes>>

AllReturned == \A r \in Ranks : prog[r] = <<>>

Return(from, to) ==
  /\ pc = from /\ AllReturned /\ pc' = to
  /\ UNCHANGED <<config, step, ranks, dirs, tracker, crashes>>

\* A rank's next operation on its own, and one that takes all ranks.
Local(r, op) == prog[r] # <<>> /\ Head(prog[r]) = op
Collective(op) == \A r \in Ranks : Local(r, op)
Done(r) == prog' = [prog EXCEPT ![r] = Tail(@)]
AllDone == prog' = [r \in Ranks |-> Tail(prog[r])]

OnlyRanks == UNCHANGED <<config, pc, step, dirs, tracker, crashes>>

-----------------------------------------------------------------------------
(* Measuring, and reducing over ranks.                                        *)

Observations == [i \in 1..RowsPerRank |-> "observe"]

\* A rank's parts of a sum: rows of its shard in micro-batch order, or its parameters.
Observe(r) ==
  /\ Local(r, "observe")
  /\ observed' = [observed EXCEPT ![r] =
       Append(@, [part |-> <<r, Len(@) + 1>>, level |-> level[r]])]
  /\ Done(r) /\ OnlyRanks
  /\ UNCHANGED <<level, score, given, updates>>

\* SUM over ranks.
\* Mutant: the sums of the rank itself.
Reduced_OwnSums(r) == Measured({o.part : o \in Range(observed[r])})

Reduced(r) == Measured(UNION {{o.part : o \in Range(observed[s])} : s \in Ranks})

\* _all_gather_vector and the slice of the rank's own rows.
\* Mutant: every rank takes the first rows.
OwnRows_First(r) ==
  SubSeq(FlattenSeq([s \in Ranks |-> observed[s]]), 1, Len(observed[r]))

OwnRows(r) ==
  LET gathered == FlattenSeq([s \in Ranks |-> observed[s]])
      start    == Len(FlattenSeq(SubSeq([s \in Ranks |-> observed[s]], 1, r - 1)))
  IN SubSeq(gathered, start + 1, start + Len(observed[r]))

-----------------------------------------------------------------------------
(* Rarity: compute_log_prob scores the prompts and finalize_step turns the    *)
(* scores of all ranks into loss weights, which go with the rows to           *)
(* update_actor.  The first step has no baseline and only sets it.            *)

ScoreProgram(r) ==
  IF config.recipe = "rarity" THEN Observations \o <<"reduce activation">> ELSE <<>>

\* finalize_step: a rank without a baseline enters no further collective.
ReduceActivation ==
  /\ Collective("reduce activation")
  /\ prog' = [r \in Ranks |-> IF level[r] = <<>> THEN <<>> ELSE <<"expose", "weigh">>]
  /\ level' = [r \in Ranks |-> IF level[r] = <<>> THEN <<Reduced(r)>> ELSE level[r]]
  /\ given' = [r \in Ranks |-> IF level[r] = <<>> THEN Neutral(r) ELSE given[r]]
  /\ OnlyRanks /\ UNCHANGED <<observed, score, updates>>

Expose ==
  /\ Collective("expose")
  /\ score' = [r \in Ranks |-> Append(score[r], Reduced(r))]
  /\ AllDone /\ OnlyRanks /\ UNCHANGED <<observed, level, given, updates>>

Weigh ==
  /\ Collective("weigh")
  /\ given' = [r \in Ranks |-> [i \in DOMAIN OwnRows(r) |->
       [part  |-> OwnRows(r)[i].part, level |-> OwnRows(r)[i].level, score |-> score[r]]]]
  /\ level' = [r \in Ranks |-> Append(level[r], Reduced(r))]
  /\ AllDone /\ OnlyRanks /\ UNCHANGED <<observed, score, updates>>

-----------------------------------------------------------------------------
(* update_actor: forward and backward, the gradient norm of all ranks, the    *)
(* optimizer step unless the norm is not finite, and the scheduler.           *)

UpdateProgram(r) ==
  CASE config.recipe = "rarity"          -> <<"norm">>
    [] config.recipe = "relative_update" -> <<"norm", "observe", "step">>
    [] config.recipe = "consistency"     -> <<"resample">> \o Observations \o <<"norm", "finish">>

\* Operations that belong to the optimizer step are skipped with it.
AfterNorm(r, finite) ==
  IF finite \/ config.recipe # "relative_update" THEN Tail(prog[r]) ELSE <<>>

Updated(r, applied, basis) ==
  Append(updates[r], [process |-> Process, step |-> step, applied |-> applied, given |-> basis])

Norm ==
  /\ Collective("norm")
  /\ \E finite \in BOOLEAN :
       /\ prog' = [r \in Ranks |-> AfterNorm(r, finite)]
       /\ updates' = [r \in Ranks |-> IF finite /\ config.recipe = "relative_update"
                                      THEN updates[r] ELSE Updated(r, finite, given[r])]
  /\ OnlyRanks /\ UNCHANGED <<observed, level, score, given>>

\* prepare_step: multipliers from the history of earlier steps, one during warm-up.
Multipliers(r) ==
  IF Len(level[r]) < config.warmup
  THEN Neutral(r) ELSE <<[part |-> <<r, 1>>, level |-> level[r], score |-> <<>>]>>

\* ChannelRelativeUpdateAdamW.step.
\* Mutant: the step enters the history before the multipliers are computed.
ScaledStep_CommitFirst ==
  /\ Collective("step")
  /\ level' = [r \in Ranks |-> Append(level[r], Reduced(r))]
  /\ given' = [r \in Ranks |-> <<[part |-> <<r, 1>>, level |-> level'[r], score |-> <<>>]>>]
  /\ updates' = [r \in Ranks |-> Updated(r, TRUE, given'[r])]
  /\ AllDone /\ OnlyRanks /\ UNCHANGED <<observed, score>>

ScaledStep ==
  /\ Collective("step")
  /\ given' = [r \in Ranks |-> Multipliers(r)]
  /\ updates' = [r \in Ranks |-> Updated(r, TRUE, given'[r])]
  /\ level' = [r \in Ranks |-> Append(level[r], Reduced(r))]
  /\ AllDone /\ OnlyRanks /\ UNCHANGED <<observed, score>>

\* Consistency: the mask is drawn from the scores of earlier updates, before the update.
Resample(r) ==
  /\ Local(r, "resample")
  /\ given' = [given EXCEPT ![r] = <<[part |-> <<r, 1>>, level |-> <<>>, score |-> score[r]]>>]
  /\ Done(r) /\ OnlyRanks /\ UNCHANGED <<observed, level, score, updates>>

\* finish_score_collection: a relative score needs a baseline of earlier updates.
FinishScore ==
  /\ Collective("finish")
  /\ score' = [r \in Ranks |-> IF config.relative /\ level[r] = <<>>
                               THEN score[r] ELSE Append(score[r], Reduced(r))]
  /\ level' = [r \in Ranks |-> IF config.relative THEN Append(level[r], Reduced(r)) ELSE level[r]]
  /\ AllDone /\ OnlyRanks /\ UNCHANGED <<observed, given, updates>>

-----------------------------------------------------------------------------
(* Checkpoints.                                                               *)

SaveProgram(r) ==
  IF r = 1 THEN <<"write shard", "barrier", "write state", "barrier">>
  ELSE <<"write shard", "barrier", "barrier">>

WriteShard(r) ==
  /\ Local(r, "write shard")
  /\ dirs' = [dirs EXCEPT ![step].shards[r] = [by |-> Process, updates |-> updates[r]]]
  /\ Done(r)
  /\ UNCHANGED <<config, pc, step, observed, level, score, given, updates, tracker, crashes>>

WriteState(r) ==
  /\ Local(r, "write state")
  /\ dirs' = [dirs EXCEPT ![step].state = [by |-> Process, level |-> level[r], score |-> score[r]]]
  /\ Done(r)
  /\ UNCHANGED <<config, pc, step, observed, level, score, given, updates, tracker, crashes>>

Barrier == Collective("barrier") /\ AllDone /\ OnlyRanks
           /\ UNCHANGED <<observed, level, score, given, updates>>

WriteTracker ==
  /\ pc = "tracker" /\ pc' = "end"
  /\ tracker' = step
  /\ UNCHANGED <<config, step, ranks, dirs, crashes>>

\* A rank refuses a directory without the state, before it touches the model.
\* Mutant: the restored average starts again.
Restored_ScoresOnly(r, saved) ==
  /\ level' = level
  /\ score' = [score EXCEPT ![r] = saved.score]

Restored(r, saved) ==
  /\ level' = [level EXCEPT ![r] = saved.level]
  /\ score' = [score EXCEPT ![r] = saved.score]

Load(r) ==
  /\ Local(r, "load")
  /\ IF dirs[tracker].state.by # 0
     THEN /\ updates' = [updates EXCEPT ![r] = dirs[tracker].shards[r].updates]
          /\ Restored(r, dirs[tracker].state)
          /\ Done(r) /\ OnlyRanks /\ UNCHANGED <<observed, given>>
     ELSE pc' = "failed" /\ UNCHANGED <<config, step, ranks, dirs, tracker, crashes>>

-----------------------------------------------------------------------------
(* RayPPOTrainer.fit.  Rollout, rewards and advantages keep nothing that the  *)
(* recipes read later and are not steps of the model.                         *)

LoadProgram(r) == IF tracker = 0 THEN <<>> ELSE <<"load">>

LoadCheckpoint == Call("boot", "loading", LoadProgram)

StartFit ==
  /\ pc = "loading" /\ AllReturned /\ pc' = "step"
  /\ step' = tracker + 1
  /\ UNCHANGED <<config, ranks, dirs, tracker, crashes>>

ComputeLogProb == Call("step", "scoring", ScoreProgram)
EndLogProb     == Return("scoring", "update")
UpdateActor    == Call("update", "updating", UpdateProgram)
EndUpdate      == Return("updating", "save")

MustSave(expiring) ==
  config.saveFreq > 0 /\ (step >= TotalSteps \/ step % config.saveFreq = 0 \/ expiring)

SaveCheckpoint == (\E expiring \in BOOLEAN : MustSave(expiring)) /\ Call("save", "saving", SaveProgram)
EndSave        == Return("saving", "tracker")
SkipSave ==
  /\ ~MustSave(FALSE)
  /\ pc = "save" /\ pc' = "end"
  /\ UNCHANGED <<config, step, ranks, dirs, tracker, crashes>>

EndStep ==
  /\ pc = "end"
  /\ pc' = IF step >= TotalSteps THEN "done" ELSE "step"
  /\ step' = step + 1
  /\ UNCHANGED <<config, ranks, dirs, tracker, crashes>>

\* The driver or a rank dies, and the job with it; a new one starts.
Restart ==
  /\ pc # "boot" /\ crashes < MaxCrashes
  /\ crashes' = crashes + 1
  /\ pc' = "boot" /\ step' = 0
  /\ prog' = Empty(<<>>) /\ observed' = Empty(<<>>)
  /\ level' = Empty(<<>>) /\ score' = Empty(<<>>)
  /\ given' = [r \in Ranks |-> Neutral(r)] /\ updates' = Empty(<<>>)
  /\ UNCHANGED <<config, dirs, tracker>>

Stop == pc \in {"done", "failed"} /\ UNCHANGED vars

RankStep ==
  \/ \E r \in Ranks : Observe(r) \/ Resample(r) \/ WriteShard(r) \/ WriteState(r)
                      \/ Load(r)
  \/ ReduceActivation \/ Expose \/ Weigh
  \/ Norm \/ ScaledStep \/ FinishScore
  \/ Barrier

DriverStep ==
  \/ LoadCheckpoint \/ StartFit
  \/ ComputeLogProb \/ EndLogProb \/ UpdateActor \/ EndUpdate
  \/ SaveCheckpoint \/ EndSave \/ SkipSave \/ WriteTracker
  \/ EndStep

Next == RankStep \/ DriverStep \/ Restart \/ Stop
Spec == Init /\ [][Next]_vars

-----------------------------------------------------------------------------
AtRest == pc \in {"step", "save", "saving", "tracker", "end", "done"}

AllParts(c) ==
  IF c.recipe = "relative_update" THEN Ranks \X {1} ELSE Ranks \X (1..RowsPerRank)

MeasuredBy(c, history) ==
  [i \in DOMAIN history |->
    [process |-> history[i].process, step |-> history[i].step, parts |-> AllParts(c)]]
AfterFirst(history) == IF history = <<>> THEN <<>> ELSE Tail(history)
Applied(history) ==
  FlattenSeq([i \in DOMAIN history |-> IF history[i].applied THEN <<history[i]>> ELSE <<>>])

\* What a replica should hold behind a sequence of update_actor calls.
DueLevel(c, history) ==
  CASE c.recipe = "rarity"          -> MeasuredBy(c, history)
    [] c.recipe = "relative_update" -> MeasuredBy(c, Applied(history))
    [] c.recipe = "consistency"     -> IF c.relative THEN MeasuredBy(c, history) ELSE <<>>

DueScore(c, history) ==
  CASE c.recipe = "rarity"          -> MeasuredBy(c, AfterFirst(history))
    [] c.recipe = "relative_update" -> <<>>
    [] c.recipe = "consistency"     -> MeasuredBy(c, IF c.relative THEN AfterFirst(history)
                                                       ELSE history)

Behind(c, history, lev, sc) == lev = DueLevel(c, history) /\ sc = DueScore(c, history)

\* A rank's statistic and its weights tell the same history, in memory between two calls and
\* in the directory a restart would load: rarity took in every batch once and its exposures
\* all but the first; the update history has the updates that were applied and none that was
\* skipped for its gradient norm; the scores have every update, with all ranks' rows.
StateOfUpdates ==
  /\ AtRest => \A r \in Ranks : Behind(config, updates[r], level[r], score[r])
  /\ tracker # 0 =>
       LET saved == dirs[tracker]
       IN \A r \in Ranks :
            /\ saved.shards[r].by # 0 /\ saved.state.by # 0
            /\ Behind(config, saved.shards[r].updates, saved.state.level, saved.state.score)

\* Rows of one question train under one decision wherever they are sharded: the calls behind
\* the ranks' weights are the same, with the same statistics behind their loss weights,
\* multipliers or masks, in memory and in the tracked directory.  Ranks that differ would
\* also enter different collectives and wait for ever.
WithoutParts(history) ==
  [i \in DOMAIN history |->
    [process |-> history[i].process, step |-> history[i].step, applied |-> history[i].applied,
     basis   |-> {[level |-> g.level, score |-> g.score] : g \in Range(history[i].given)}]]

ReplicasAgree ==
  /\ AtRest => \A r, s \in Ranks : WithoutParts(updates[r]) = WithoutParts(updates[s])
  /\ tracker # 0 => \A r, s \in Ranks :
       WithoutParts(dirs[tracker].shards[r].updates) = WithoutParts(dirs[tracker].shards[s].updates)

\* What decides how a step trains was measured before it, across restarts: activations are
\* compared to the average of earlier batches only, though the exposures count the batch
\* itself; multipliers come from earlier updates once warm-up is over; a mask from the scores
\* of earlier updates.
DueBasis(c, history, entry) ==
  CASE c.recipe = "rarity" ->
         IF history = <<>> THEN [level |-> <<>>, score |-> <<>>]
         ELSE [level |-> DueLevel(c, history), score |-> DueScore(c, Append(history, entry))]
    [] c.recipe = "relative_update" ->
         [level |-> IF Len(Applied(history)) < c.warmup THEN <<>> ELSE DueLevel(c, history),
          score |-> <<>>]
    [] c.recipe = "consistency" -> [level |-> <<>>, score |-> DueScore(c, history)]

GivenByThePast ==
  \A r \in Ranks : \A i \in DOMAIN updates[r] :
    LET entry == updates[r][i]
    IN entry.applied =>
         \A g \in Range(entry.given) :
           [level |-> g.level, score |-> g.score] = DueBasis(config, SubSeq(updates[r], 1, i - 1), entry)

\* Scores of all ranks are gathered, projected together to mean one and cut apart again: a
\* row is trained with the weight of its own prompt.
WeightOfOwnRow ==
  config.recipe = "rarity" =>
    \A r \in Ranks : \A u \in Range(updates[r]) :
      u.given # Neutral(r) =>
        /\ Len(u.given) = RowsPerRank
        /\ \A i \in DOMAIN u.given : u.given[i].part = <<r, i>>

=============================================================================

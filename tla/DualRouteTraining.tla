------------------------- MODULE DualRouteTraining -------------------------
(***************************************************************************)
(* The training loop of recipe/mlp_channel_mask: one driver process        *)
(* (RayMLPChannelTrainer.fit) that calls, in order and synchronously, the  *)
(* worker group holding the FSDP actor, the vLLM rollout and one mask      *)
(* controller for each.  The process may die at any point; a new one       *)
(* resumes from the checkpoint the tracker file names.                     *)
(*                                                                         *)
(* Ranks execute every ONE_TO_ALL call alike and are modelled as one       *)
(* worker.  Weights are the sequence of training steps whose update was    *)
(* applied.  The configuration is fixed when training starts and every     *)
(* restart uses the same one.                                              *)
(***************************************************************************)
EXTENDS MaskController

CONSTANTS
  Configs,      \* the configurations considered
  TotalSteps,   \* total_training_steps
  MaxCrashes    \* bound on the number of process deaths

ConfigSpace ==
  [strategy : Strategies, method : ScoreMethods, resample : BOOLEAN,
   everyStep : BOOLEAN, warmup : Nat, refreshFreq : Nat, saveFreq : Nat,
   criticWarmup : Nat]

ASSUME ConfigsAssumption == Configs \subseteq ConfigSpace
ASSUME TotalStepsAssumption == TotalSteps \in Nat \ {0}
ASSUME MaxCrashesAssumption == MaxCrashes \in Nat

\* A final checkpoint may be resumed, each time adding a step.
LastStep == TotalSteps + MaxCrashes
Steps == 1..LastStep

VARIABLES
  config,       \* the run's configuration
  \* the driver
  pc,           \* the next thing fit() does
  step,         \* self.global_steps
  version,      \* fit()'s local mask_version
  prepared,     \* mask_prepared_for_current_step
  failure,      \* the exception that ended fit(), "none" while there is none
  \* the worker
  weights,      \* updates applied to the FSDP actor
  actor,        \* actor_mlp_controller
  rollout,      \* rollout_mlp_controller
  \* durable files
  dirs,         \* the global_step_N directories
  tracker,      \* latest_checkpointed_iteration.txt; 0: no such file
  \* observers
  forwards,     \* masked-route forwards of the current step: <<who, mask>>
  crashes       \* processes that died

driver == <<pc, step, version, prepared, failure>>
worker == <<weights, actor, rollout>>
disk == <<dirs, tracker>>
vars == <<config, driver, worker, disk, forwards, crashes>>

(***************************************************************************)
(* A checkpoint directory has two parts written one after the other: the   *)
(* actor shards and mlp_channel_mask.pt.  `by` is the process that wrote   *)
(* the part, 0 when it is missing.                                         *)
(***************************************************************************)
ShardPart == [by : Nat, weights : Seq(Nat)]
MaskPart == [by : Nat, state : SavedState]
Directory == [shards : ShardPart, mask : MaskPart]

NoDirectory ==
  [shards |-> [by |-> 0, weights |-> << >>],
   mask   |-> [by |-> 0, state |-> StateDict(NewController)]]

Process == crashes + 1

SoftTop == UsesSoftTop(config.strategy)
Causal == config.method = "causal"

(***************************************************************************)
(* _validate_recipe_contract, the part about when masks and scores change. *)
(***************************************************************************)
ValidRecipe(cfg) ==
  /\ cfg.strategy \in {"top_relative_activation", "weighted_random"}
       => cfg.method = "relative"
  /\ cfg.resample => cfg.strategy # "top_relative_activation"
  /\ cfg.everyStep => /\ cfg.strategy # "random"
                      /\ NeedsForwardScore(cfg.method)
  /\ cfg.method = "causal" => cfg.strategy = "soft_top" /\ cfg.resample

\* activation_refresh_due, activation_update_due, collect_mlp_activation
Divides(n, s) == n > 0 /\ s % n = 0
RefreshDue(cfg, s) == s = cfg.warmup \/ Divides(cfg.refreshFreq, s)
UpdateDue(cfg, s) == cfg.everyStep \/ RefreshDue(cfg, s)
Collects(cfg, s) == UpdateDue(cfg, s) /\ cfg.strategy # "random"
                                      /\ NeedsForwardScore(cfg.method)
RefreshesAfter(cfg, s) ==
  IF cfg.resample
    THEN UsesSoftTop(cfg.strategy) /\ (Collects(cfg, s) \/ cfg.method = "causal")
    ELSE UpdateDue(cfg, s)
UpdatesActor(cfg, s) == cfg.criticWarmup <= s

Init ==
  /\ config \in {cfg \in Configs : ValidRecipe(cfg)}
  /\ pc = "boot" /\ step = 0 /\ version = 0 /\ prepared = FALSE
  /\ failure = "none"
  /\ weights = << >> /\ actor = NewController /\ rollout = NewController
  /\ dirs = [s \in Steps |-> NoDirectory] /\ tracker = 0
  /\ forwards = {} /\ crashes = 0

Goto(from, to) == pc = from /\ pc' = to
Raise(message) == pc' = "failed" /\ failure' = message

----------------------------------------------------------------------------
(***************************************************************************)
(* _load_checkpoint, load_checkpoint of the worker and the start of fit(). *)
(* A directory without the mask file leaves both controllers at version 0. *)
(***************************************************************************)
\* Mutant: a mask prepared before the checkpoint is forgotten.
StartFit_NothingPrepared(v) ==
  IF step' > 1 /\ v = 0
    THEN Raise("no_mask_file") /\ UNCHANGED prepared
    ELSE pc' = "resample" /\ prepared' = FALSE /\ UNCHANGED failure

StartFit(v) ==
  IF step' > 1 /\ v = 0
    THEN Raise("no_mask_file") /\ UNCHANGED prepared
    ELSE /\ pc' = "resample"
         /\ prepared' = (SoftTop /\ config.resample /\ v = step')
         /\ UNCHANGED failure

\* Mutant: the checkpointed step is trained again.
ResumedStep_Again == tracker

\* self.global_steps of the checkpoint, plus one
ResumedStep == tracker + 1

LoadCheckpoint ==
  /\ pc = "boot"
  /\ step' = ResumedStep
  /\ IF tracker = 0
       THEN UNCHANGED worker
       ELSE LET saved == dirs[tracker]
                Load(c) == IF saved.mask.by = 0
                             THEN c ELSE LoadStateDict(c, saved.mask.state)
            IN  /\ weights' = saved.shards.weights
                /\ actor' = Load(actor)
                /\ rollout' = Load(rollout)
  /\ version' = actor'.version
  /\ StartFit(version')
  /\ UNCHANGED <<config, disk, forwards, crashes>>

\* refresh_mlp_mask of the worker: the rollout controller follows the actor's.
\* Mutant: the rollout controller is not synchronised.
RefreshMlpMask_ActorOnly ==
  /\ actor' = RefreshMask(actor, config)
  /\ rollout' = rollout
  /\ version' = actor'.version

RefreshMlpMask ==
  /\ actor' = RefreshMask(actor, config)
  /\ rollout' = CopyMaskStateFrom(rollout, actor')
  /\ version' = actor'.version

\* A prepared mask is used once instead of sampling again.
ResampleMask ==
  /\ Goto("resample", "rollout")
  /\ IF config.resample /\ ~prepared
       THEN RefreshMlpMask
       ELSE UNCHANGED <<actor, rollout, version>>
  /\ prepared' = FALSE
  /\ UNCHANGED <<config, step, failure, weights, disk, forwards, crashes>>

(***************************************************************************)
(* generate_dual_sequences on a batch that carries the driver's version.   *)
(***************************************************************************)
GenerateDual ==
  /\ pc = "rollout"
  /\ IF version = rollout.version
       THEN /\ pc' = "old_log_prob"
            /\ forwards' = {<<"rollout", rollout.masked>>}
            /\ UNCHANGED failure
       ELSE Raise("version_mismatch") /\ UNCHANGED forwards
  /\ UNCHANGED <<config, step, version, prepared, worker, disk, crashes>>

ComputeOldLogProb ==
  /\ Goto("old_log_prob", "advantage")
  /\ forwards' = forwards \cup {<<"old_log_prob", actor.masked>>}
  /\ UNCHANGED <<config, step, version, prepared, failure, worker, disk, crashes>>

\* Mutant: the next mask is selected as soon as the effect is observed.
ObserveCausalEffect_RefreshesAtOnce ==
  /\ Goto("advantage", "update_actor")
  /\ actor' = IF Causal
                THEN RefreshMask(ObserveCausalAblation(actor, step), config)
                ELSE actor
  /\ UNCHANGED <<config, step, version, prepared, failure, weights, rollout,
                 disk, forwards, crashes>>

\* The realised clean-minus-masked reward gap feeds the causal score.
ObserveCausalEffect ==
  /\ Goto("advantage", "update_actor")
  /\ actor' = IF Causal THEN ObserveCausalAblation(actor, step) ELSE actor
  /\ UNCHANGED <<config, step, version, prepared, failure, weights, rollout,
                 disk, forwards, crashes>>

(***************************************************************************)
(* update_actor: forward and backward over both routes, then one optimizer *)
(* step, which is skipped when the gradient norm is not finite.            *)
(***************************************************************************)
UpdateActor ==
  /\ Goto("update_actor", "refresh")
  /\ IF UpdatesActor(config, step)
       THEN /\ \E finite \in BOOLEAN :
                 weights' = IF finite THEN Append(weights, step) ELSE weights
            /\ actor' = IF Collects(config, step)
                          THEN AccumulateScore(actor, step) ELSE actor
            /\ forwards' = forwards \cup {<<"update_actor", actor.masked>>}
       ELSE UNCHANGED <<weights, actor, forwards>>
  /\ UNCHANGED <<config, step, version, prepared, failure, rollout, disk, crashes>>

(***************************************************************************)
(* The end of the step: the score just collected is consumed, before any   *)
(* checkpoint, to select the next mask.                                    *)
(***************************************************************************)
RefreshAfterStep ==
  /\ pc = "refresh"
  /\ IF ~RefreshesAfter(config, step)
       THEN pc' = "save" /\ UNCHANGED <<failure, prepared, actor, rollout, version>>
       ELSE IF RefreshFails(actor, config)
         THEN /\ Raise("no_activation")
              /\ UNCHANGED <<prepared, actor, rollout, version>>
         ELSE /\ pc' = "save"
              /\ RefreshMlpMask
              /\ prepared' = (prepared \/ config.resample)
              /\ UNCHANGED failure
  /\ UNCHANGED <<config, step, weights, disk, forwards, crashes>>

\* `expiring` is should_save_ckpt_esi: the machine is about to be reclaimed.
MustSave(expiring) ==
  /\ config.saveFreq > 0
  /\ \/ step >= TotalSteps
     \/ step % config.saveFreq = 0
     \/ expiring

SkipSave ==
  /\ ~MustSave(FALSE)
  /\ Goto("save", "end")
  /\ UNCHANGED <<config, step, version, prepared, failure, worker, disk,
                 forwards, crashes>>

\* Mutant: the tracker is written before the mask file.
SaveShards_TrackerFirst ==
  /\ \E expiring \in BOOLEAN : MustSave(expiring)
  /\ Goto("save", "save_mask")
  /\ dirs' = [dirs EXCEPT ![step].shards = [by |-> Process, weights |-> weights]]
  /\ tracker' = step
  /\ UNCHANGED <<config, step, version, prepared, failure, worker, forwards,
                 crashes>>

SaveShards ==
  /\ \E expiring \in BOOLEAN : MustSave(expiring)
  /\ Goto("save", "save_mask")
  /\ dirs' = [dirs EXCEPT ![step].shards = [by |-> Process, weights |-> weights]]
  /\ UNCHANGED <<config, step, version, prepared, failure, worker, tracker,
                 forwards, crashes>>

SaveMaskFile ==
  /\ Goto("save_mask", "save_tracker")
  /\ dirs' = [dirs EXCEPT ![step].mask = [by |-> Process, state |-> StateDict(actor)]]
  /\ UNCHANGED <<config, step, version, prepared, failure, worker, tracker,
                 forwards, crashes>>

WriteTracker ==
  /\ Goto("save_tracker", "end")
  /\ tracker' = step
  /\ UNCHANGED <<config, step, version, prepared, failure, worker, dirs,
                 forwards, crashes>>

\* Mutant: fit() does not return after the last step.
EndStep_NoReturn ==
  /\ Goto("end", "resample")
  /\ step' = step + 1
  /\ forwards' = {}
  /\ UNCHANGED <<config, version, prepared, failure, worker, disk, crashes>>

EndStep ==
  /\ pc = "end"
  /\ pc' = IF step >= TotalSteps THEN "done" ELSE "resample"
  /\ step' = step + 1
  /\ forwards' = {}
  /\ UNCHANGED <<config, version, prepared, failure, worker, disk, crashes>>

(***************************************************************************)
(* The process dies and another is started: everything but the files is    *)
(* lost.  A run that has failed or finished may be started again too.      *)
(***************************************************************************)
Restart ==
  /\ pc # "boot"
  /\ crashes < MaxCrashes
  /\ crashes' = crashes + 1
  /\ pc' = "boot" /\ step' = 0 /\ version' = 0 /\ prepared' = FALSE
  /\ failure' = "none"
  /\ weights' = << >> /\ actor' = NewController /\ rollout' = NewController
  /\ forwards' = {}
  /\ UNCHANGED <<config, disk>>

Terminated ==
  /\ pc \in {"done", "failed"}
  /\ UNCHANGED vars

Fit ==
  \/ LoadCheckpoint
  \/ ResampleMask
  \/ GenerateDual
  \/ ComputeOldLogProb
  \/ ObserveCausalEffect
  \/ UpdateActor
  \/ RefreshAfterStep
  \/ SkipSave
  \/ SaveShards
  \/ SaveMaskFile
  \/ WriteTracker
  \/ EndStep

Next == Fit \/ Restart \/ Terminated

Spec == Init /\ [][Next]_vars

\* The driver is one thread that always has a next statement to execute.
FairSpec == Spec /\ WF_vars(Fit)
----------------------------------------------------------------------------
Pcs == {"boot", "resample", "rollout", "old_log_prob", "advantage",
        "update_actor", "refresh", "save", "save_mask", "save_tracker", "end",
        "done", "failed"}
Failures == {"none", "no_mask_file", "version_mismatch", "no_activation"}
Forwarders == {"rollout", "old_log_prob", "update_actor"}

(* The variables range over what the code can store in them. *)
TypeOK ==
  /\ config \in {cfg \in Configs : ValidRecipe(cfg)}
  /\ pc \in Pcs /\ step \in Nat /\ version \in Nat /\ prepared \in BOOLEAN
  /\ failure \in Failures
  /\ weights \in Seq(Nat)
  /\ actor \in Controller /\ rollout \in Controller
  /\ dirs \in [Steps -> Directory] /\ tracker \in 0..LastStep
  /\ forwards \subseteq Forwarders \X Nat
  /\ crashes \in 0..MaxCrashes

Increasing(s) == \A i, j \in DOMAIN s : i < j => s[i] < s[j]

\* The batches a controller has turned into score state.
Folded(c) == IF config.method = "relative"
               THEN c.baseline
               ELSE [i \in DOMAIN c.score |-> c.score[i].batch[1]]

(* The rollout, the recomputed old log-probs and the update of a step all   *)
(* run the masked route under one mask: refreshes fall between steps only.  *)
OneMaskPerStep == \A f, g \in forwards : f[2] = g[2]

(* With random_resample_every_step the mask of step t is the t-th selected, *)
(* however often training was interrupted: a resume neither reuses the mask *)
(* of an earlier step nor skips one.                                        *)
MaskOfStep == config.resample => \A f \in forwards : f[2] = step

(* fit() ends with an exception only where the code intends it: a hard-top  *)
(* refresh before the critic warm-up let the actor run, or a checkpoint     *)
(* whose controller was never refreshed.  The version check of              *)
(* generate_dual_sequences never fires.                                     *)
OnlyIntendedFailures ==
  /\ failure # "version_mismatch"
  /\ failure = "no_activation" =>
       config.strategy = "top_relative_activation" /\ step < config.criticWarmup
  /\ failure = "no_mask_file" => dirs[tracker].mask.state.version = 0

(* Every clean batch collected by the run enters the score state exactly    *)
(* once, in order, across crashes and resumes: none is counted twice, lost  *)
(* between the refresh and the checkpoint, or left for a later step.        *)
ScoredExactlyOnce ==
  pc \in {"save", "save_mask", "save_tracker", "end"}
    /\ NeedsForwardScore(config.method) /\ config.strategy # "random" =>
    LET due == {s \in 1..step : Collects(config, s) /\ UpdatesActor(config, s)}
    IN  /\ Increasing(Folded(actor))
        /\ {Folded(actor)[i] : i \in DOMAIN Folded(actor)} = due

(* A relative score compares a batch with a baseline of earlier batches     *)
(* only: the current batch cannot normalise itself.                         *)
ScoredAgainstThePast ==
  config.method = "relative" =>
    \A i \in DOMAIN actor.score :
      LET e == actor.score[i] IN
        /\ e.against > 0
        /\ \A j \in 1..e.against, k \in DOMAIN e.batch :
             actor.baseline[j] < e.batch[k]

(* A causal observation pairs the reward gap of a step with the contrast of *)
(* the very mask that step's rollout used, also for the first step after a  *)
(* resume; every step after the first one observed yields one.              *)
CausalPairing ==
  config.method = "causal" =>
    /\ \A i \in DOMAIN actor.score :
         actor.score[i].batch = <<actor.score[i].against>>
    /\ Len(actor.gaps) > 0 => Len(actor.score) = Len(actor.gaps) - 1
    /\ Increasing(actor.gaps)

(* The update of a training step is applied to the weights at most once,    *)
(* in the live actor and in every checkpoint.                               *)
UpdatedOnce ==
  /\ Increasing(weights)
  /\ \A s \in Steps : Increasing(dirs[s].shards.weights)

(* A run that is restarted finitely often finishes training, unless one of  *)
(* the two refusals of its configuration ends it.                           *)
EventuallyTrained ==
  <>[](pc = "done" \/ failure \in {"no_activation", "no_mask_file"})

----------------------------------------------------------------------------
(***************************************************************************)
(* The loop implements ResumableTraining: the tracker write is the commit  *)
(* point of a checkpoint made of several files.                            *)
(***************************************************************************)
Snapshot(finished, w, mask) ==
  [finished |-> finished, weights |-> w, mask |-> mask]

SavedSnapshot ==
  IF tracker = 0
    THEN Snapshot(0, << >>, StateDict(NewController))
    ELSE Snapshot(tracker, dirs[tracker].shards.weights, dirs[tracker].mask.state)

\* A step is finished once its update and its refresh are done.
FinishedSteps ==
  IF pc \in {"save", "save_mask", "save_tracker", "end"} THEN step ELSE step - 1

LiveSnapshot ==
  IF pc = "boot"
    THEN SavedSnapshot
    ELSE Snapshot(FinishedSteps, weights, StateDict(actor))

Resumable ==
  INSTANCE ResumableTraining
    WITH live <- LiveSnapshot, saved <- SavedSnapshot,
         InitialState <- Snapshot(0, << >>, StateDict(NewController))

(* A resumed run continues from a state in which weights, mask state and    *)
(* step counter belong together, for every interleaving of crashes with the *)
(* three writes of a checkpoint.                                            *)
ImplementsResumable == Resumable!SpecResumable
=============================================================================

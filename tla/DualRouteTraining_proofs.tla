----------------------- MODULE DualRouteTraining_proofs -----------------------
(***************************************************************************)
(* Proofs about DualRouteTraining, for every set of configurations, every  *)
(* number of steps and every number of process deaths.                     *)
(***************************************************************************)
EXTENDS DualRouteTraining, SequenceTheorems, TLAPS

(***************************************************************************)
(* What the operations on a controller return.                             *)
(***************************************************************************)

\* A refresh yields a controller with the next version.
LEMMA RefreshType ==
  ASSUME NEW c \in Controller, NEW cfg \in ConfigSpace
  PROVE  /\ RefreshMask(c, cfg) \in Controller
         /\ RefreshMask(c, cfg).version = c.version + 1
<1>1. BaselineAfterBatch(c, cfg) \in Seq(Nat)
  BY DEF BaselineAfterBatch, Controller
<1>2. ScoreAfterBatch(c, cfg) \in Seq(Evidence)
  <2>1. \A n \in Nat : [batch |-> c.pending, against |-> n] \in Evidence
    BY DEF Evidence, Controller
  <2>2. Len(c.baseline) \in Nat
    BY DEF Controller
  <2>3. (IF cfg.method = "relative" THEN Len(c.baseline) ELSE 0) \in Nat
    BY <2>2
  <2> QED BY <2>1, <2>3 DEF ScoreAfterBatch, Controller
<1> QED BY <1>1, <1>2 DEF RefreshMask, Controller

\* Saving and restoring keep the types, and restore what was saved.
LEMMA StateDictType ==
  ASSUME NEW c \in Controller
  PROVE  StateDict(c) \in SavedState
BY DEF StateDict, SavedState, Controller

LEMMA LoadType ==
  ASSUME NEW c \in Controller, NEW saved \in SavedState
  PROVE  LoadStateDict(c, saved) \in Controller
BY DEF LoadStateDict, SavedState, Controller

LEMMA CopyType ==
  ASSUME NEW c \in Controller, NEW other \in Controller
  PROVE  /\ CopyMaskStateFrom(c, other) \in Controller
         /\ CopyMaskStateFrom(c, other).version = other.version
         /\ CopyMaskStateFrom(c, other).masked = other.masked
BY StateDictType, LoadType DEF CopyMaskStateFrom, LoadStateDict, StateDict

\* An observation changes neither the version nor the mask.
LEMMA ObserveType ==
  ASSUME NEW c \in Controller, NEW s \in Nat
  PROVE  /\ ObserveCausalAblation(c, s) \in Controller
         /\ ObserveCausalAblation(c, s).version = c.version
         /\ ObserveCausalAblation(c, s).masked = c.masked
         /\ ObserveCausalAblation(c, s).pending = c.pending
<1>1. [batch |-> <<s>>, against |-> c.contrast] \in Evidence
  BY DEF Evidence, Controller
<1>2. /\ Append(c.score, [batch |-> <<s>>, against |-> c.contrast]) \in Seq(Evidence)
      /\ Append(c.gaps, s) \in Seq(Nat)
  BY <1>1 DEF Controller
<1> QED BY <1>2 DEF ObserveCausalAblation, Controller

\* Accumulating a batch leaves the mask alone and something pending.
LEMMA AccumulateType ==
  ASSUME NEW c \in Controller, NEW s \in Nat
  PROVE  /\ AccumulateScore(c, s) \in Controller
         /\ AccumulateScore(c, s).version = c.version
         /\ AccumulateScore(c, s).masked = c.masked
         /\ AccumulateScore(c, s).pending # << >>
<1>1. c.pending \in Seq(Nat)
  BY DEF Controller
<1>2. Append(c.pending, s) \in Seq(Nat) /\ Append(c.pending, s) # << >>
  BY <1>1, AppendProperties
<1>3. AccumulateScore(c, s).pending = Append(c.pending, s)
  BY DEF AccumulateScore, Controller
<1> QED BY <1>2, <1>3 DEF AccumulateScore, Controller

LEMMA NewControllerType == NewController \in Controller
BY DEF NewController, Controller

(***************************************************************************)
(* The inductive invariant of type correctness: TypeOK needs the step      *)
(* counter to stay among the directories that exist, hence the distance    *)
(* between the tracker and the number of processes.                        *)
(***************************************************************************)
InLoop == Pcs \ {"boot", "done", "failed"}

StepBound ==
  /\ tracker <= TotalSteps + crashes
  /\ pc = "boot" => tracker + 1 <= TotalSteps + crashes
  /\ pc \in InLoop => step \in 1..(TotalSteps + crashes)

TypeInv == TypeOK /\ StepBound

LEMMA TypeInvInit == Init => TypeInv
<1> SUFFICES ASSUME Init PROVE TypeInv
  OBVIOUS
<1> USE TotalStepsAssumption, MaxCrashesAssumption DEF Init
<1>1. NewController \in Controller /\ StateDict(NewController) \in SavedState
  BY NewControllerType, StateDictType
<1>2. NoDirectory \in Directory
  BY <1>1 DEF NoDirectory, Directory, ShardPart, MaskPart
<1>3. dirs \in [Steps -> Directory]
  BY <1>2
<1>4. forwards \subseteq Forwarders \X Nat /\ crashes \in 0..MaxCrashes /\ tracker \in 0..LastStep
  BY DEF LastStep
<1>5. << >> \in Seq(Nat)
  OBVIOUS
<1>6. TypeOK
  BY <1>1, <1>3, <1>4, <1>5 DEF TypeOK, Pcs, Failures
<1>7. StepBound
  BY DEF StepBound, InLoop
<1> QED BY <1>6, <1>7 DEF TypeInv

\* A directory part written with well-typed contents leaves dirs well typed.
LEMMA DirsType ==
  ASSUME dirs \in [Steps -> Directory], NEW s \in Steps,
         NEW part \in ShardPart, NEW mask \in MaskPart
  PROVE  /\ [dirs EXCEPT ![s].shards = part] \in [Steps -> Directory]
         /\ [dirs EXCEPT ![s].mask = mask] \in [Steps -> Directory]
BY DEF Directory

\* What RefreshMlpMask leaves, whichever action calls it.
LEMMA RefreshMlpMaskType ==
  ASSUME TypeOK, RefreshMlpMask
  PROVE  /\ actor' \in Controller /\ rollout' \in Controller
         /\ version' \in Nat
<1>1. config \in ConfigSpace /\ actor \in Controller /\ rollout \in Controller
  BY ConfigsAssumption DEF TypeOK
<1>2. actor' \in Controller
  BY <1>1, RefreshType DEF RefreshMlpMask
<1>3. rollout' \in Controller
  BY <1>1, <1>2, CopyType DEF RefreshMlpMask
<1>4. version' \in Nat
  BY <1>2 DEF RefreshMlpMask, Controller
<1> QED BY <1>2, <1>3, <1>4

LEMMA TypeInvNext == TypeInv /\ [Next]_vars => TypeInv'
<1> SUFFICES ASSUME TypeInv, [Next]_vars PROVE TypeInv'
  OBVIOUS
<1> USE TotalStepsAssumption, MaxCrashesAssumption
<1>a. /\ config \in ConfigSpace
      /\ step \in Nat /\ version \in Nat /\ tracker \in Nat /\ crashes \in Nat
  BY ConfigsAssumption DEF TypeInv, TypeOK, LastStep
<1>1. CASE LoadCheckpoint
  <2>1. step' \in 1..(TotalSteps + crashes)
    BY <1>1, <1>a DEF LoadCheckpoint, ResumedStep, TypeInv, StepBound
  <2>2. ASSUME tracker # 0
        PROVE  /\ dirs[tracker].shards.weights \in Seq(Nat)
               /\ dirs[tracker].mask.state \in SavedState
    <3>1. tracker \in Steps
      BY <2>2 DEF TypeInv, TypeOK, Steps, LastStep
    <3> QED BY <3>1 DEF TypeInv, TypeOK, Directory, ShardPart, MaskPart
  <2>3. weights' \in Seq(Nat) /\ actor' \in Controller /\ rollout' \in Controller
    BY <1>1, <2>2, LoadType DEF LoadCheckpoint, TypeInv, TypeOK, worker
  <2>4. version' \in Nat
    BY <1>1, <2>3 DEF LoadCheckpoint, Controller
  <2>5. /\ pc' \in {"resample", "failed"} /\ prepared' \in BOOLEAN
        /\ failure' \in Failures
    BY <1>1 DEF LoadCheckpoint, StartFit, Raise, Failures, TypeInv, TypeOK
  <2>6. TypeOK'
    BY <1>1, <2>1, <2>3, <2>4, <2>5
    DEF LoadCheckpoint, TypeInv, TypeOK, Pcs, disk, Steps, LastStep
  <2> QED BY <1>1, <2>1, <2>5, <2>6
      DEF LoadCheckpoint, TypeInv, StepBound, InLoop, disk
<1>2. CASE ResampleMask
  <2>1. actor' \in Controller /\ rollout' \in Controller /\ version' \in Nat
    BY <1>2, RefreshMlpMaskType DEF ResampleMask, TypeInv, TypeOK
  <2> QED BY <1>2, <2>1
      DEF ResampleMask, Goto, TypeInv, TypeOK, StepBound, InLoop, Pcs, disk, Steps, LastStep
<1>3. CASE GenerateDual
  <2>1. <<"rollout", rollout.masked>> \in Forwarders \X Nat
    BY DEF TypeInv, TypeOK, Controller, Forwarders
  <2> QED BY <1>3, <2>1
      DEF GenerateDual, Raise, TypeInv, TypeOK, StepBound, InLoop, Pcs, Failures,
          worker, disk, Steps, LastStep
<1>4. CASE ComputeOldLogProb
  <2>1. <<"old_log_prob", actor.masked>> \in Forwarders \X Nat
    BY DEF TypeInv, TypeOK, Controller, Forwarders
  <2> QED BY <1>4, <2>1
      DEF ComputeOldLogProb, Goto, TypeInv, TypeOK, StepBound, InLoop, Pcs,
          worker, disk, Steps, LastStep
<1>5. CASE ObserveCausalEffect
  <2>1. actor' \in Controller
    BY <1>5, <1>a, ObserveType DEF ObserveCausalEffect, TypeInv, TypeOK
  <2> QED BY <1>5, <2>1
      DEF ObserveCausalEffect, Goto, TypeInv, TypeOK, StepBound, InLoop, Pcs,
          disk, Steps, LastStep
<1>6. CASE UpdateActor
  <2>1. actor' \in Controller
    BY <1>6, <1>a, AccumulateType DEF UpdateActor, TypeInv, TypeOK
  <2>2. Append(weights, step) \in Seq(Nat)
    BY <1>a, AppendProperties DEF TypeInv, TypeOK
  <2>3. weights' \in Seq(Nat)
    BY <1>6, <2>2 DEF UpdateActor, TypeInv, TypeOK
  <2>4. <<"update_actor", actor.masked>> \in Forwarders \X Nat
    BY DEF TypeInv, TypeOK, Controller, Forwarders
  <2>5. forwards' \subseteq Forwarders \X Nat
    BY <1>6, <2>4 DEF UpdateActor, TypeInv, TypeOK
  <2> QED BY <1>6, <2>1, <2>3, <2>5
      DEF UpdateActor, Goto, TypeInv, TypeOK, StepBound, InLoop, Pcs,
          disk, Steps, LastStep
<1>7. CASE RefreshAfterStep
  <2>1. actor' \in Controller /\ rollout' \in Controller /\ version' \in Nat
    BY <1>7, RefreshMlpMaskType DEF RefreshAfterStep, TypeInv, TypeOK
  <2> QED BY <1>7, <2>1
      DEF RefreshAfterStep, Raise, TypeInv, TypeOK, StepBound, InLoop, Pcs,
          Failures, disk, Steps, LastStep
<1>8. CASE SkipSave
  BY <1>8 DEF SkipSave, Goto, TypeInv, TypeOK, StepBound, InLoop, Pcs,
              worker, disk, Steps, LastStep
<1>9. CASE SaveShards
  <2>1. step \in Steps
    BY <1>9 DEF SaveShards, Goto, TypeInv, TypeOK, StepBound, InLoop, Pcs, Steps, LastStep
  <2>2. [by |-> Process, weights |-> weights] \in ShardPart
    BY <1>a DEF Process, ShardPart, TypeInv, TypeOK
  <2>3. dirs' \in [Steps -> Directory]
    BY <1>9, <2>1, <2>2 DEF SaveShards, TypeInv, TypeOK, Directory
  <2> QED BY <1>9, <2>3
      DEF SaveShards, Goto, TypeInv, TypeOK, StepBound, InLoop, Pcs,
          worker, Steps, LastStep
<1>10. CASE SaveMaskFile
  <2>1. step \in Steps
    BY <1>10 DEF SaveMaskFile, Goto, TypeInv, TypeOK, StepBound, InLoop, Pcs, Steps, LastStep
  <2>2. [by |-> Process, state |-> StateDict(actor)] \in MaskPart
    BY <1>a, StateDictType DEF Process, MaskPart, TypeInv, TypeOK
  <2>3. dirs' \in [Steps -> Directory]
    BY <1>10, <2>1, <2>2 DEF SaveMaskFile, TypeInv, TypeOK, Directory
  <2> QED BY <1>10, <2>3
      DEF SaveMaskFile, Goto, TypeInv, TypeOK, StepBound, InLoop, Pcs,
          worker, Steps, LastStep
<1>11. CASE WriteTracker
  BY <1>11, <1>a DEF WriteTracker, Goto, TypeInv, TypeOK, StepBound, InLoop, Pcs,
               worker, Steps, LastStep
<1>12. CASE EndStep
  <2>1. /\ step' \in Nat /\ pc' \in {"done", "resample"}
        /\ pc' = "resample" => step' \in 1..(TotalSteps + crashes)
    BY <1>12, <1>a DEF EndStep
  <2>2. forwards' \subseteq Forwarders \X Nat
    BY <1>12 DEF EndStep
  <2>3. TypeOK'
    BY <1>12, <2>1, <2>2
    DEF EndStep, TypeInv, TypeOK, Pcs, worker, disk, Steps, LastStep
  <2>4. StepBound'
    BY <1>12, <2>1
    DEF EndStep, TypeInv, StepBound, InLoop, worker, disk
  <2> QED BY <2>3, <2>4 DEF TypeInv
<1>13. CASE Restart
  <2>1. NewController \in Controller /\ << >> \in Seq(Nat)
    BY NewControllerType
  <2>2. forwards' \subseteq Forwarders \X Nat /\ crashes' \in 0..MaxCrashes
    BY <1>13, <1>a DEF Restart
  <2>3. TypeOK'
    BY <1>13, <2>1, <2>2
    DEF Restart, TypeInv, TypeOK, Pcs, Failures, disk, Steps, LastStep
  <2>4. StepBound'
    BY <1>13, <1>a DEF Restart, TypeInv, StepBound, InLoop, disk
  <2> QED BY <2>3, <2>4 DEF TypeInv
<1>14. CASE Terminated \/ UNCHANGED vars
  BY <1>14 DEF Terminated, TypeInv, TypeOK, StepBound, InLoop, vars, driver,
               worker, disk, Steps, LastStep
<1> QED BY <1>1, <1>2, <1>3, <1>4, <1>5, <1>6, <1>7, <1>8, <1>9, <1>10, <1>11,
           <1>12, <1>13, <1>14 DEF Next, Fit

(***************************************************************************)
(* Every variable keeps its type: in particular no step saves outside the  *)
(* directories that LastStep allows, however often the process dies.       *)
(***************************************************************************)
THEOREM TypeCorrect == Spec => []TypeOK
<1>1. TypeInv => TypeOK
  BY DEF TypeInv
<1> QED BY <1>1, TypeInvInit, TypeInvNext, PTL DEF Spec

(***************************************************************************)
(* The inductive invariant behind the mask of a step.  MaskOfStep alone is *)
(* not inductive: a resume takes the version from a file, so the invariant *)
(* must say which versions the file of step s may hold, and that version   *)
(* s + 1 is saved only by strategies for which fit() marks it prepared.    *)
(***************************************************************************)
MaskedRoute == {"rollout", "old_log_prob", "advantage", "update_actor", "refresh"}
Saving == {"save", "save_mask", "save_tracker", "end"}

\* Driver, actor controller and rollout controller agree on the mask.
Synced ==
  /\ version = actor.version
  /\ rollout.version = actor.version /\ rollout.masked = actor.masked
  /\ config.strategy # "top_relative_activation" => actor.masked = actor.version
  /\ pc = "boot" => actor.version = 0

\* The version of the mask in use, relative to the step.
VersionOfStep ==
  config.resample =>
    /\ pc = "resample" => version = IF prepared THEN step ELSE step - 1
    /\ pc \in MaskedRoute => version = step /\ ~prepared
    /\ pc \in Saving => /\ version = IF prepared THEN step + 1 ELSE step
                        /\ prepared => SoftTop

\* What the mask files hold.
FilesOfStep ==
  /\ \A s \in Steps :
       LET m == dirs[s].mask IN
         /\ m.by = 0 => m.state.version = 0
         /\ m.by # 0 =>
              /\ config.strategy # "top_relative_activation" =>
                   m.state.masked = m.state.version
              /\ config.resample =>
                   \/ m.state.version = s
                   \/ m.state.version = s + 1 /\ SoftTop
  /\ pc = "save_tracker" => dirs[step].mask.by # 0
  /\ tracker # 0 => dirs[tracker].mask.by # 0

ForwardsOfStep ==
  /\ pc \in {"boot", "resample", "rollout"} => forwards = {}
  /\ pc \in MaskedRoute => \A f \in forwards : f[2] = actor.masked

\* A batch that was due has been collected, and only a failed run stops.
CollectedBeforeRefresh ==
  /\ pc = "refresh" /\ Collects(config, step) /\ UpdatesActor(config, step)
       => actor.pending # << >>
  /\ failure # "none" => pc = "failed"

MaskInv ==
  /\ Synced /\ VersionOfStep /\ FilesOfStep /\ ForwardsOfStep
  /\ CollectedBeforeRefresh
  /\ OneMaskPerStep /\ MaskOfStep /\ OnlyIntendedFailures

\* The two conditions of ValidRecipe that the mask of a step depends on.
LEMMA RecipeFacts ==
  ASSUME TypeOK
  PROVE  /\ config \in ConfigSpace
         /\ config.resample => config.strategy # "top_relative_activation"
BY ConfigsAssumption DEF TypeOK, ValidRecipe

\* A refresh gives the next version to both controllers, and, except for the
\* hard-top strategy without a score, a mask of that version.
LEMMA RefreshMlpMaskEffect ==
  ASSUME TypeOK, Synced, RefreshMlpMask
  PROVE  /\ version' = version + 1 /\ actor'.version = version'
         /\ rollout'.version = actor'.version
         /\ rollout'.masked = actor'.masked
         /\ config.strategy # "top_relative_activation" =>
              actor'.masked = actor'.version
<1>1. actor \in Controller /\ rollout \in Controller
  BY DEF TypeOK
<1>2. actor' = RefreshMask(actor, config)
  BY DEF RefreshMlpMask
<1>3. actor' \in Controller /\ actor'.version = actor.version + 1
  BY <1>1, <1>2, RecipeFacts, RefreshType
<1>4. rollout'.version = actor'.version /\ rollout'.masked = actor'.masked
  BY <1>1, <1>3, CopyType DEF RefreshMlpMask
<1>5. config.strategy # "top_relative_activation" => actor'.masked = actor'.version
  BY <1>2 DEF RefreshMask, SelectsChannels
<1> QED BY <1>3, <1>4, <1>5 DEF RefreshMlpMask, Synced

LEMMA MaskInvInit == Init => MaskInv
<1> SUFFICES ASSUME Init PROVE MaskInv
  OBVIOUS
<1>1. /\ NewController.version = 0 /\ NewController.masked = 0
      /\ StateDict(NewController).version = 0
  BY DEF NewController, StateDict
<1>2. Synced /\ VersionOfStep /\ ForwardsOfStep /\ CollectedBeforeRefresh
  BY <1>1 DEF Init, Synced, VersionOfStep, ForwardsOfStep, CollectedBeforeRefresh,
              MaskedRoute, Saving
<1>3. FilesOfStep
  BY <1>1 DEF Init, FilesOfStep, NoDirectory
<1>4. OneMaskPerStep /\ MaskOfStep /\ OnlyIntendedFailures
  BY DEF Init, OneMaskPerStep, MaskOfStep, OnlyIntendedFailures
<1> QED BY <1>2, <1>3, <1>4 DEF MaskInv

LEMMA LoadKeepsMaskInv ==
  ASSUME TypeInv, MaskInv, LoadCheckpoint
  PROVE  MaskInv'
<1>a. /\ config \in ConfigSpace /\ step \in Nat /\ tracker \in Nat
      /\ tracker # 0 => tracker \in Steps
  BY RecipeFacts DEF TypeInv, TypeOK, Steps, LastStep
<1>b. /\ config' = config /\ dirs' = dirs /\ tracker' = tracker
      /\ forwards' = forwards /\ step' = tracker + 1
      /\ version' = actor'.version /\ pc = "boot"
  BY DEF LoadCheckpoint, disk, ResumedStep
<1>c. StartFit(version')
  BY DEF LoadCheckpoint
<1>d. pc' \in {"resample", "failed"} /\ forwards' = {} /\ failure = "none"
  BY <1>b, <1>c DEF StartFit, Raise, MaskInv, ForwardsOfStep, CollectedBeforeRefresh
<1>e. /\ pc' = "failed" => /\ failure' = "no_mask_file"
                           /\ version' = 0 /\ step' > 1
      /\ pc' = "resample" =>
           /\ failure' = "none"
           /\ prepared' <=> SoftTop /\ config.resample /\ version' = step'
  BY <1>c, <1>d DEF StartFit, Raise
<1>1. ForwardsOfStep' /\ OneMaskPerStep' /\ MaskOfStep'
  BY <1>d DEF ForwardsOfStep, OneMaskPerStep, MaskOfStep
<1>2. FilesOfStep'
  BY <1>b, <1>d DEF MaskInv, FilesOfStep, SoftTop
<1>3. CASE tracker = 0
  <2>1. actor' = actor /\ rollout' = rollout /\ version' = 0
    BY <1>3, <1>b DEF LoadCheckpoint, worker, MaskInv, Synced
  <2>2. pc' = "resample" /\ ~prepared' /\ step' = 1
    BY <1>3, <1>b, <1>d, <1>e, <2>1
  <2>3. Synced'
    BY <1>b, <2>1, <2>2 DEF MaskInv, Synced
  <2>4. VersionOfStep'
    BY <2>1, <2>2 DEF VersionOfStep, MaskedRoute, Saving
  <2>5. CollectedBeforeRefresh' /\ OnlyIntendedFailures'
    BY <1>e, <2>2 DEF CollectedBeforeRefresh, OnlyIntendedFailures
  <2> QED BY <1>1, <1>2, <2>3, <2>4, <2>5 DEF MaskInv
<1>4. CASE tracker # 0
  <2> DEFINE m == dirs[tracker].mask
  <2>1. m.state \in SavedState /\ tracker \in Steps
    BY <1>4, <1>a DEF TypeInv, TypeOK, Directory, MaskPart
  <2>2. m.by # 0
    BY <1>4 DEF MaskInv, FilesOfStep
  <2>3. /\ actor' = LoadStateDict(actor, m.state)
        /\ rollout' = LoadStateDict(rollout, m.state)
    BY <1>4, <2>2 DEF LoadCheckpoint
  <2>4. /\ actor'.version = m.state.version /\ actor'.masked = m.state.masked
        /\ rollout'.version = actor'.version /\ rollout'.masked = actor'.masked
        /\ version' = m.state.version
    BY <1>b, <2>3 DEF LoadStateDict
  <2>5. /\ config.strategy # "top_relative_activation" =>
             m.state.masked = m.state.version
        /\ config.resample => \/ m.state.version = tracker
                              \/ m.state.version = tracker + 1 /\ SoftTop
    BY <2>1, <2>2 DEF MaskInv, FilesOfStep
  <2>6. Synced'
    BY <1>b, <1>d, <2>4, <2>5 DEF Synced
  <2>7. ASSUME config'.resample, pc' = "resample"
        PROVE  version' = IF prepared' THEN step' ELSE step' - 1
    <3>1. config.resample
      BY <2>7, <1>b
    <3>2. CASE prepared'
      BY <3>2, <2>7, <1>e
    <3>3. CASE ~prepared'
      <4>1. ~(SoftTop /\ version' = step')
        BY <3>1, <3>3, <2>7, <1>e
      <4>2. version' = tracker
        BY <4>1, <3>1, <2>4, <2>5, <1>b
      <4> QED BY <4>2, <3>3, <1>a, <1>b
    <3> QED BY <3>2, <3>3
  <2>8. VersionOfStep'
    BY <1>d, <2>7 DEF VersionOfStep, MaskedRoute, Saving
  <2>9. CollectedBeforeRefresh' /\ OnlyIntendedFailures'
    BY <1>b, <1>d, <1>e, <2>4 DEF CollectedBeforeRefresh, OnlyIntendedFailures
  <2> QED BY <1>1, <1>2, <2>6, <2>8, <2>9 DEF MaskInv
<1> QED BY <1>3, <1>4

LEMMA ResampleKeepsMaskInv ==
  ASSUME TypeInv, MaskInv, ResampleMask
  PROVE  MaskInv'
<1>a. /\ config \in ConfigSpace /\ step \in Nat /\ version \in Nat
      /\ config.resample => config.strategy # "top_relative_activation"
  BY RecipeFacts DEF TypeInv, TypeOK
<1>b. /\ pc = "resample" /\ pc' = "rollout" /\ ~prepared'
      /\ config' = config /\ dirs' = dirs /\ tracker' = tracker
      /\ forwards' = forwards /\ step' = step /\ failure' = failure
  BY DEF ResampleMask, Goto, disk
<1>c. forwards' = {} /\ failure' = "none"
  BY <1>b DEF MaskInv, ForwardsOfStep, CollectedBeforeRefresh
<1>1. Synced' /\ (config.resample => version' = step)
  <2>1. CASE config.resample /\ ~prepared
    <3>1. RefreshMlpMask
      BY <2>1 DEF ResampleMask
    <3>2. version = step - 1
      BY <2>1, <1>b DEF MaskInv, VersionOfStep
    <3> QED BY <3>1, <3>2, <1>a, <1>b, RefreshMlpMaskEffect
        DEF MaskInv, Synced, TypeInv
  <2>2. CASE ~(config.resample /\ ~prepared)
    <3>1. actor' = actor /\ rollout' = rollout /\ version' = version
      BY <2>2 DEF ResampleMask
    <3>2. config.resample => version = step
      BY <2>2, <1>b DEF MaskInv, VersionOfStep
    <3> QED BY <3>1, <3>2, <1>b DEF MaskInv, Synced
  <2> QED BY <2>1, <2>2
<1>2. VersionOfStep'
  BY <1>1, <1>b DEF VersionOfStep, MaskedRoute, Saving
<1>3. FilesOfStep'
  BY <1>b DEF MaskInv, FilesOfStep, SoftTop
<1>4. ForwardsOfStep' /\ OneMaskPerStep' /\ MaskOfStep'
  BY <1>c DEF ForwardsOfStep, OneMaskPerStep, MaskOfStep
<1>5. CollectedBeforeRefresh' /\ OnlyIntendedFailures'
  BY <1>b, <1>c DEF CollectedBeforeRefresh, OnlyIntendedFailures
<1> QED BY <1>1, <1>2, <1>3, <1>4, <1>5 DEF MaskInv

LEMMA RolloutKeepsMaskInv ==
  ASSUME TypeInv, MaskInv, GenerateDual
  PROVE  MaskInv'
<1>b. /\ pc = "rollout" /\ config' = config /\ dirs' = dirs /\ tracker' = tracker
      /\ step' = step /\ version' = version /\ prepared' = prepared
      /\ actor' = actor /\ rollout' = rollout
  BY DEF GenerateDual, disk, worker
<1>1. version = rollout.version /\ rollout.masked = actor.masked
  BY DEF MaskInv, Synced
<1>2. /\ pc' = "old_log_prob" /\ failure' = failure
      /\ forwards' = {<<"rollout", rollout.masked>>}
  BY <1>1 DEF GenerateDual
<1>3. \A f \in forwards' : f[2] = actor.masked
  BY <1>1, <1>2
<1>4. ForwardsOfStep' /\ OneMaskPerStep'
  BY <1>2, <1>3, <1>b DEF ForwardsOfStep, OneMaskPerStep
<1>5. config.resample => version = step /\ ~prepared /\ actor.masked = version
  BY <1>b, RecipeFacts DEF TypeInv, MaskInv, VersionOfStep, MaskedRoute, Synced
<1>6. MaskOfStep'
  BY <1>3, <1>5, <1>b DEF MaskOfStep
<1>7. VersionOfStep'
  BY <1>2, <1>5, <1>b DEF VersionOfStep, MaskedRoute, Saving
<1>8. Synced' /\ FilesOfStep'
  BY <1>2, <1>b DEF MaskInv, Synced, FilesOfStep, SoftTop
<1>9. CollectedBeforeRefresh' /\ OnlyIntendedFailures'
  BY <1>2, <1>b DEF MaskInv, CollectedBeforeRefresh, OnlyIntendedFailures
<1> QED BY <1>4, <1>6, <1>7, <1>8, <1>9 DEF MaskInv

LEMMA OldLogProbKeepsMaskInv ==
  ASSUME TypeInv, MaskInv, ComputeOldLogProb
  PROVE  MaskInv'
<1>b. /\ pc = "old_log_prob" /\ pc' = "advantage" /\ config' = config
      /\ dirs' = dirs /\ tracker' = tracker /\ failure' = failure
      /\ step' = step /\ version' = version /\ prepared' = prepared
      /\ actor' = actor /\ rollout' = rollout
      /\ forwards' = forwards \cup {<<"old_log_prob", actor.masked>>}
  BY DEF ComputeOldLogProb, Goto, disk, worker
<1>1. \A f \in forwards' : f[2] = actor.masked
  BY <1>b DEF MaskInv, ForwardsOfStep, MaskedRoute
<1>2. ForwardsOfStep' /\ OneMaskPerStep'
  BY <1>1, <1>b DEF ForwardsOfStep, OneMaskPerStep
<1>3. config.resample => version = step /\ ~prepared /\ actor.masked = version
  BY <1>b, RecipeFacts DEF TypeInv, MaskInv, VersionOfStep, MaskedRoute, Synced
<1>4. MaskOfStep' /\ VersionOfStep'
  BY <1>1, <1>3, <1>b DEF MaskOfStep, VersionOfStep, MaskedRoute, Saving
<1>5. Synced' /\ FilesOfStep'
  BY <1>b DEF MaskInv, Synced, FilesOfStep, SoftTop
<1>6. CollectedBeforeRefresh' /\ OnlyIntendedFailures'
  BY <1>b DEF MaskInv, CollectedBeforeRefresh, OnlyIntendedFailures
<1> QED BY <1>2, <1>4, <1>5, <1>6 DEF MaskInv

LEMMA ObserveKeepsMaskInv ==
  ASSUME TypeInv, MaskInv, ObserveCausalEffect
  PROVE  MaskInv'
<1>b. /\ pc = "advantage" /\ pc' = "update_actor" /\ config' = config
      /\ dirs' = dirs /\ tracker' = tracker /\ failure' = failure
      /\ step' = step /\ version' = version /\ prepared' = prepared
      /\ rollout' = rollout /\ forwards' = forwards
  BY DEF ObserveCausalEffect, Goto, disk
<1>c. actor'.version = actor.version /\ actor'.masked = actor.masked
  BY ObserveType DEF ObserveCausalEffect, TypeInv, TypeOK
<1>1. ForwardsOfStep' /\ OneMaskPerStep' /\ MaskOfStep'
  BY <1>b, <1>c DEF MaskInv, ForwardsOfStep, OneMaskPerStep, MaskOfStep, MaskedRoute
<1>2. VersionOfStep'
  BY <1>b DEF MaskInv, VersionOfStep, MaskedRoute, Saving
<1>3. Synced' /\ FilesOfStep'
  BY <1>b, <1>c DEF MaskInv, Synced, FilesOfStep, SoftTop
<1>4. CollectedBeforeRefresh' /\ OnlyIntendedFailures'
  BY <1>b DEF MaskInv, CollectedBeforeRefresh, OnlyIntendedFailures
<1> QED BY <1>1, <1>2, <1>3, <1>4 DEF MaskInv

LEMMA UpdateKeepsMaskInv ==
  ASSUME TypeInv, MaskInv, UpdateActor
  PROVE  MaskInv'
<1>b. /\ pc = "update_actor" /\ pc' = "refresh" /\ config' = config
      /\ dirs' = dirs /\ tracker' = tracker /\ failure' = failure
      /\ step' = step /\ version' = version /\ prepared' = prepared
      /\ rollout' = rollout
  BY DEF UpdateActor, Goto, disk
<1>c. /\ actor'.version = actor.version /\ actor'.masked = actor.masked
      /\ Collects(config, step) /\ UpdatesActor(config, step) => actor'.pending # << >>
  BY AccumulateType DEF UpdateActor, TypeInv, TypeOK
<1>1. \A f \in forwards' : f[2] = actor.masked
  BY <1>b DEF UpdateActor, MaskInv, ForwardsOfStep, MaskedRoute
<1>2. ForwardsOfStep' /\ OneMaskPerStep'
  BY <1>1, <1>b, <1>c DEF ForwardsOfStep, OneMaskPerStep
<1>3. config.resample => version = step /\ ~prepared /\ actor.masked = version
  BY <1>b, RecipeFacts DEF TypeInv, MaskInv, VersionOfStep, MaskedRoute, Synced
<1>4. MaskOfStep' /\ VersionOfStep'
  BY <1>1, <1>3, <1>b DEF MaskOfStep, VersionOfStep, MaskedRoute, Saving
<1>5. Synced' /\ FilesOfStep'
  BY <1>b, <1>c DEF MaskInv, Synced, FilesOfStep, SoftTop
<1>6. CollectedBeforeRefresh' /\ OnlyIntendedFailures'
  BY <1>b, <1>c DEF MaskInv, CollectedBeforeRefresh, OnlyIntendedFailures
<1> QED BY <1>2, <1>4, <1>5, <1>6 DEF MaskInv

LEMMA RefreshKeepsMaskInv ==
  ASSUME TypeInv, MaskInv, RefreshAfterStep
  PROVE  MaskInv'
<1>a. /\ config \in ConfigSpace /\ step \in Nat /\ version \in Nat
      /\ config.resample => config.strategy # "top_relative_activation"
  BY RecipeFacts DEF TypeInv, TypeOK
<1>b. /\ pc = "refresh" /\ config' = config /\ dirs' = dirs
      /\ tracker' = tracker /\ forwards' = forwards /\ step' = step
  BY DEF RefreshAfterStep, disk
<1>c. failure = "none" /\ (config.resample => version = step /\ ~prepared)
  BY <1>b DEF MaskInv, CollectedBeforeRefresh, VersionOfStep, MaskedRoute
<1>1. OneMaskPerStep' /\ MaskOfStep' /\ (pc' \in {"save", "failed"} => ForwardsOfStep')
  BY <1>b DEF MaskInv, OneMaskPerStep, MaskOfStep, ForwardsOfStep, MaskedRoute
<1>2. pc' \in {"save", "failed"} => FilesOfStep'
  BY <1>b DEF MaskInv, FilesOfStep, SoftTop
<1>3. CASE ~RefreshesAfter(config, step)
  <2>1. /\ pc' = "save" /\ failure' = failure /\ prepared' = prepared
        /\ actor' = actor /\ rollout' = rollout /\ version' = version
    BY <1>3 DEF RefreshAfterStep
  <2>2. Synced' /\ VersionOfStep'
    BY <2>1, <1>b, <1>c DEF MaskInv, Synced, VersionOfStep, MaskedRoute, Saving
  <2>3. CollectedBeforeRefresh' /\ OnlyIntendedFailures'
    BY <2>1, <1>c DEF CollectedBeforeRefresh, OnlyIntendedFailures
  <2> QED BY <1>1, <1>2, <2>1, <2>2, <2>3 DEF MaskInv
<1>4. CASE RefreshesAfter(config, step) /\ RefreshFails(actor, config)
  <2>1. /\ pc' = "failed" /\ failure' = "no_activation" /\ prepared' = prepared
        /\ actor' = actor /\ rollout' = rollout /\ version' = version
    BY <1>4 DEF RefreshAfterStep, Raise
  <2>2. Synced' /\ VersionOfStep'
    BY <2>1, <1>b DEF MaskInv, Synced, VersionOfStep, MaskedRoute, Saving
  <2>3. /\ actor.pending = << >> /\ NeedsForwardScore(config.method)
        /\ config.strategy = "top_relative_activation"
    BY <1>4 DEF RefreshFails, ConsumesPending
  <2>4. ~config.resample /\ UpdateDue(config, step)
    BY <1>4, <1>a, <2>3 DEF RefreshesAfter
  <2>5. Collects(config, step)
    BY <2>3, <2>4 DEF Collects
  <2>6. ~UpdatesActor(config, step)
    BY <1>b, <2>3, <2>5 DEF MaskInv, CollectedBeforeRefresh
  <2>7. step < config.criticWarmup
    BY <2>6, <1>a DEF UpdatesActor, ConfigSpace
  <2>8. CollectedBeforeRefresh' /\ OnlyIntendedFailures'
    BY <1>b, <2>1, <2>3, <2>7 DEF CollectedBeforeRefresh, OnlyIntendedFailures
  <2> QED BY <1>1, <1>2, <2>1, <2>2, <2>8 DEF MaskInv
<1>5. CASE RefreshesAfter(config, step) /\ ~RefreshFails(actor, config)
  <2>1. /\ pc' = "save" /\ failure' = failure /\ RefreshMlpMask
        /\ prepared' <=> prepared \/ config.resample
    BY <1>5 DEF RefreshAfterStep
  <2>2. /\ version' = version + 1 /\ actor'.version = version'
        /\ rollout'.version = actor'.version /\ rollout'.masked = actor'.masked
        /\ config.strategy # "top_relative_activation" =>
             actor'.masked = actor'.version
    BY <2>1, RefreshMlpMaskEffect DEF TypeInv, MaskInv
  <2>3. Synced'
    BY <1>b, <2>1, <2>2 DEF Synced
  <2>4. config.resample => prepared' /\ version' = step + 1 /\ SoftTop
    BY <1>5, <1>c, <2>1, <2>2 DEF RefreshesAfter, SoftTop
  <2>5. VersionOfStep'
    BY <1>b, <2>1, <2>4 DEF VersionOfStep, MaskedRoute, Saving, SoftTop
  <2>6. CollectedBeforeRefresh' /\ OnlyIntendedFailures'
    BY <2>1, <1>c DEF CollectedBeforeRefresh, OnlyIntendedFailures
  <2> QED BY <1>1, <1>2, <2>1, <2>3, <2>5, <2>6 DEF MaskInv
<1> QED BY <1>3, <1>4, <1>5

\* The steps that only write files or move on.
LEMMA SaveKeepsMaskInv ==
  ASSUME TypeInv, MaskInv, SkipSave \/ SaveShards \/ SaveMaskFile \/ WriteTracker
  PROVE  MaskInv'
<1>a. /\ step \in Nat /\ dirs \in [Steps -> Directory] /\ crashes \in Nat
      /\ config.resample => config.strategy # "top_relative_activation"
  BY RecipeFacts DEF TypeInv, TypeOK
<1>b. /\ pc \in Saving /\ pc' \in Saving /\ config' = config /\ forwards' = forwards
      /\ actor' = actor /\ rollout' = rollout /\ version' = version
      /\ prepared' = prepared /\ step' = step /\ failure' = failure
  BY DEF SkipSave, SaveShards, SaveMaskFile, WriteTracker, Goto, worker, Saving
<1>c. step \in Steps
  BY <1>b, TotalStepsAssumption, MaxCrashesAssumption
  DEF TypeInv, TypeOK, StepBound, InLoop, Pcs, Saving, Steps, LastStep
<1>1. Synced' /\ VersionOfStep'
  BY <1>b DEF MaskInv, Synced, VersionOfStep, MaskedRoute, Saving, SoftTop
<1>2. ForwardsOfStep' /\ OneMaskPerStep' /\ MaskOfStep'
  BY <1>b DEF MaskInv, ForwardsOfStep, OneMaskPerStep, MaskOfStep, MaskedRoute, Saving
<1>3. CollectedBeforeRefresh' /\ OnlyIntendedFailures'
  <2>1. failure = "none"
    BY <1>b DEF MaskInv, CollectedBeforeRefresh, Saving
  <2> QED BY <1>b, <2>1 DEF CollectedBeforeRefresh, OnlyIntendedFailures, Saving
<1>4. FilesOfStep'
  <2>1. CASE SkipSave
    BY <2>1, <1>b DEF SkipSave, Goto, disk, MaskInv, FilesOfStep, SoftTop
  <2>2. CASE SaveShards
    <3>1. /\ pc' = "save_mask" /\ tracker' = tracker
          /\ \A s \in Steps : dirs'[s].mask = dirs[s].mask
      BY <2>2, <1>a DEF SaveShards, Goto, Directory
    <3>2. tracker # 0 => tracker \in Steps
      BY DEF TypeInv, TypeOK, Steps, LastStep
    <3> QED BY <3>1, <3>2, <1>b DEF MaskInv, FilesOfStep, SoftTop
  <2>3. CASE SaveMaskFile
    <3> DEFINE written == [by |-> Process, state |-> StateDict(actor)]
    <3>1. /\ pc' = "save_tracker" /\ tracker' = tracker /\ pc = "save_mask"
          /\ dirs' = [dirs EXCEPT ![step].mask = written]
      BY <2>3 DEF SaveMaskFile, Goto
    <3>2. /\ dirs'[step].mask = written
          /\ \A s \in Steps : s # step => dirs'[s] = dirs[s]
      BY <3>1, <1>a, <1>c DEF Directory
    <3>3. /\ written.by # 0 /\ written.state.version = version
          /\ written.state.masked = actor.masked
      BY <1>a DEF Process, StateDict, MaskInv, Synced
    <3>4. config.strategy # "top_relative_activation" =>
            written.state.masked = written.state.version
      BY <3>3 DEF MaskInv, Synced
    <3>5. config.resample => \/ written.state.version = step
                             \/ written.state.version = step + 1 /\ SoftTop
      BY <3>1, <3>3 DEF MaskInv, VersionOfStep, Saving
    <3>6. tracker # 0 => tracker \in Steps
      BY DEF TypeInv, TypeOK, Steps, LastStep
    <3>7. ASSUME NEW s \in Steps
          PROVE  /\ dirs'[s].mask.by = 0 => dirs'[s].mask.state.version = 0
                 /\ dirs'[s].mask.by # 0 =>
                      /\ config.strategy # "top_relative_activation" =>
                           dirs'[s].mask.state.masked = dirs'[s].mask.state.version
                      /\ config.resample =>
                           \/ dirs'[s].mask.state.version = s
                           \/ dirs'[s].mask.state.version = s + 1 /\ SoftTop
      <4> HIDE DEF written
      <4>1. CASE s = step
        BY <4>1, <3>2, <3>3, <3>4, <3>5
      <4>2. CASE s # step
        BY <4>2, <3>2 DEF MaskInv, FilesOfStep
      <4> QED BY <4>1, <4>2
    <3>8. /\ dirs'[step].mask.by # 0
          /\ tracker # 0 => dirs'[tracker].mask.by # 0
      <4> HIDE DEF written
      <4> QED BY <3>2, <3>3, <3>6 DEF MaskInv, FilesOfStep
    <3> QED BY <3>1, <3>7, <3>8, <1>b DEF FilesOfStep, SoftTop
  <2>4. CASE WriteTracker
    BY <2>4, <1>b DEF WriteTracker, Goto, MaskInv, FilesOfStep, SoftTop
  <2> QED BY <2>1, <2>2, <2>3, <2>4
<1> QED BY <1>1, <1>2, <1>3, <1>4 DEF MaskInv

LEMMA EndStepKeepsMaskInv ==
  ASSUME TypeInv, MaskInv, EndStep
  PROVE  MaskInv'
<1>b. /\ pc = "end" /\ pc' \in {"done", "resample"} /\ step \in Nat
      /\ config' = config /\ dirs' = dirs /\ tracker' = tracker
      /\ actor' = actor /\ rollout' = rollout /\ version' = version
      /\ prepared' = prepared /\ failure' = failure
      /\ step' = step + 1 /\ forwards' = {}
  BY DEF EndStep, worker, disk, TypeInv, TypeOK
<1>1. Synced' /\ FilesOfStep'
  BY <1>b DEF MaskInv, Synced, FilesOfStep, SoftTop
<1>2. config.resample => version = IF prepared THEN step + 1 ELSE step
  BY <1>b DEF MaskInv, VersionOfStep, Saving
<1>3. config.resample => version' = IF prepared' THEN step' ELSE step' - 1
  BY <1>2, <1>b
<1>4. VersionOfStep'
  BY <1>3, <1>b DEF VersionOfStep, MaskedRoute, Saving
<1>5. failure' = "none"
  BY <1>b DEF MaskInv, CollectedBeforeRefresh
<1>6. /\ ForwardsOfStep' /\ OneMaskPerStep' /\ MaskOfStep'
      /\ CollectedBeforeRefresh' /\ OnlyIntendedFailures'
  BY <1>b, <1>5 DEF ForwardsOfStep, OneMaskPerStep, MaskOfStep,
                    CollectedBeforeRefresh, OnlyIntendedFailures
<1> QED BY <1>1, <1>4, <1>6 DEF MaskInv

LEMMA RestartKeepsMaskInv ==
  ASSUME TypeInv, MaskInv, Restart
  PROVE  MaskInv'
<1>b. /\ pc' = "boot" /\ config' = config /\ dirs' = dirs /\ tracker' = tracker
      /\ actor' = NewController /\ rollout' = NewController /\ version' = 0
      /\ ~prepared' /\ failure' = "none" /\ forwards' = {}
  BY DEF Restart, disk
<1>1. Synced' /\ VersionOfStep' /\ FilesOfStep' /\ ForwardsOfStep'
  BY <1>b DEF MaskInv, Synced, VersionOfStep, FilesOfStep, ForwardsOfStep,
              NewController, MaskedRoute, Saving, SoftTop
<1>2. /\ OneMaskPerStep' /\ MaskOfStep'
      /\ CollectedBeforeRefresh' /\ OnlyIntendedFailures'
  BY <1>b DEF OneMaskPerStep, MaskOfStep, CollectedBeforeRefresh, OnlyIntendedFailures
<1> QED BY <1>1, <1>2 DEF MaskInv

LEMMA MaskInvNext == TypeInv /\ MaskInv /\ [Next]_vars => MaskInv'
<1> SUFFICES ASSUME TypeInv, MaskInv, [Next]_vars PROVE MaskInv'
  OBVIOUS
<1>1. CASE Terminated \/ UNCHANGED vars
  <2>1. UNCHANGED vars
    BY <1>1 DEF Terminated
  <2> QED BY <2>1
      DEF vars, driver, worker, disk, MaskInv, Synced, VersionOfStep, FilesOfStep,
          ForwardsOfStep, CollectedBeforeRefresh, OneMaskPerStep, MaskOfStep,
          OnlyIntendedFailures, SoftTop
<1>2. CASE Fit \/ Restart
  BY <1>2, LoadKeepsMaskInv, ResampleKeepsMaskInv, RolloutKeepsMaskInv,
     OldLogProbKeepsMaskInv, ObserveKeepsMaskInv, UpdateKeepsMaskInv,
     RefreshKeepsMaskInv, SaveKeepsMaskInv, EndStepKeepsMaskInv,
     RestartKeepsMaskInv DEF Fit
<1> QED BY <1>1, <1>2 DEF Next

LEMMA MaskInvAlways == Spec => []MaskInv
<1> QED BY TypeInvInit, TypeInvNext, MaskInvInit, MaskInvNext, PTL DEF Spec

(***************************************************************************)
(* Within a step the rollout, the recomputed log-probs and the update run  *)
(* the masked route under the same mask.                                   *)
(***************************************************************************)
THEOREM OneMaskPerStepHolds == Spec => []OneMaskPerStep
<1>1. MaskInv => OneMaskPerStep
  BY DEF MaskInv
<1> QED BY <1>1, MaskInvAlways, PTL

(***************************************************************************)
(* With random_resample_every_step, the masked forwards of step t use the  *)
(* t-th mask ever selected, across every death and resume.                 *)
(***************************************************************************)
THEOREM MaskOfStepHolds == Spec => []MaskOfStep
<1>1. MaskInv => MaskOfStep
  BY DEF MaskInv
<1> QED BY <1>1, MaskInvAlways, PTL

(***************************************************************************)
(* The version check of generate_dual_sequences never fires, and the two   *)
(* other exceptions have only the causes the code intends.                 *)
(***************************************************************************)
THEOREM OnlyIntendedFailuresHolds == Spec => []OnlyIntendedFailures
<1>1. MaskInv => OnlyIntendedFailures
  BY DEF MaskInv
<1> QED BY <1>1, MaskInvAlways, PTL

----------------------------------------------------------------------------
(***************************************************************************)
(* What survives a death of the training process: the loop with its        *)
(* three-file checkpoints implements ResumableTraining, no step's update   *)
(* is applied twice, and no step's evidence is scored twice, lost, or      *)
(* credited to a mask that did not cause it.                               *)
(***************************************************************************)

(***************************************************************************)
(* The inductive invariant behind the refinement: a checkpoint is written  *)
(* past the tracked one, and before the tracker moves to it the directory  *)
(* holds what is live.                                                     *)
(***************************************************************************)
SavedInv ==
  /\ pc = "boot" => weights = << >> /\ actor = NewController
  /\ pc \in InLoop \ {"end"} => tracker < step
  /\ pc = "end" => tracker <= step
  /\ pc \in {"save_mask", "save_tracker"} => dirs[step].shards.weights = weights
  /\ pc = "save_tracker" => dirs[step].mask.state = StateDict(actor)

LEMMA SavedInvInit == Init => SavedInv
BY DEF Init, SavedInv, InLoop

\* Writing one part of a directory leaves every other part alone.
LEMMA WritesOnePart ==
  ASSUME dirs \in [Steps -> Directory], NEW s \in Steps, NEW part
  PROVE  /\ [dirs EXCEPT ![s].shards = part][s].shards = part
         /\ [dirs EXCEPT ![s].mask = part][s].mask = part
         /\ [dirs EXCEPT ![s].mask = part][s].shards = dirs[s].shards
         /\ \A t \in Steps : t # s =>
              /\ [dirs EXCEPT ![s].shards = part][t] = dirs[t]
              /\ [dirs EXCEPT ![s].mask = part][t] = dirs[t]
BY DEF Directory

\* The step being trained has a directory.
LEMMA StepHasDirectory ==
  ASSUME TypeInv
  PROVE  /\ pc \in InLoop => step \in Steps
         /\ tracker # 0 => tracker \in Steps
         /\ step \in Nat /\ tracker \in Nat
BY TotalStepsAssumption, MaxCrashesAssumption
DEF TypeInv, TypeOK, StepBound, InLoop, Steps, LastStep

LEMMA SavedInvNext ==
  ASSUME TypeInv, SavedInv, [Next]_vars
  PROVE  SavedInv'
<1>a. /\ step \in Nat /\ tracker \in Nat /\ dirs \in [Steps -> Directory]
      /\ pc \in InLoop => step \in Steps
  BY StepHasDirectory DEF TypeInv, TypeOK
<1>1. CASE LoadCheckpoint
  <2>1. pc' \in {"resample", "failed"} /\ step' = tracker + 1 /\ tracker' = tracker
    BY <1>1 DEF LoadCheckpoint, StartFit, Raise, ResumedStep, disk
  <2> QED BY <1>a, <2>1 DEF SavedInv, InLoop
<1>2. CASE ResampleMask
  BY <1>2 DEF ResampleMask, Goto, SavedInv, InLoop, Pcs, disk
<1>3. CASE GenerateDual
  BY <1>3 DEF GenerateDual, Raise, SavedInv, InLoop, Pcs, disk
<1>4. CASE ComputeOldLogProb
  BY <1>4 DEF ComputeOldLogProb, Goto, SavedInv, InLoop, Pcs, disk
<1>5. CASE ObserveCausalEffect
  BY <1>5 DEF ObserveCausalEffect, Goto, SavedInv, InLoop, Pcs, disk
<1>6. CASE UpdateActor
  BY <1>6 DEF UpdateActor, Goto, SavedInv, InLoop, Pcs, disk
<1>7. CASE RefreshAfterStep
  <2>1. /\ pc = "refresh" /\ pc' \in {"save", "failed"}
        /\ step' = step /\ tracker' = tracker
    BY <1>7 DEF RefreshAfterStep, Raise, disk
  <2> QED BY <2>1 DEF SavedInv, InLoop, Pcs
<1>8. CASE SkipSave
  BY <1>8, <1>a DEF SkipSave, Goto, SavedInv, InLoop, Pcs, disk
<1>9. CASE SaveShards
  <2>1. /\ pc = "save" /\ pc' = "save_mask" /\ step' = step /\ tracker' = tracker
        /\ weights' = weights /\ step \in Steps
        /\ dirs' = [dirs EXCEPT ![step].shards = [by |-> Process, weights |-> weights]]
    BY <1>9, <1>a DEF SaveShards, Goto, worker, InLoop, Pcs
  <2>2. dirs'[step].shards.weights = weights
    BY <1>a, <2>1, WritesOnePart
  <2> QED BY <2>1, <2>2 DEF SavedInv, InLoop, Pcs
<1>10. CASE SaveMaskFile
  <2>1. /\ pc = "save_mask" /\ pc' = "save_tracker" /\ step' = step
        /\ tracker' = tracker /\ weights' = weights /\ actor' = actor /\ step \in Steps
        /\ dirs' = [dirs EXCEPT ![step].mask = [by |-> Process, state |-> StateDict(actor)]]
    BY <1>10, <1>a DEF SaveMaskFile, Goto, worker, InLoop, Pcs
  <2>2. /\ dirs'[step].mask = [by |-> Process, state |-> StateDict(actor)]
        /\ dirs'[step].shards = dirs[step].shards
    BY <1>a, <2>1, WritesOnePart
  <2>3. StateDict(actor)' = StateDict(actor)
    BY <2>1 DEF StateDict
  <2> QED BY <2>1, <2>2, <2>3 DEF SavedInv, InLoop, Pcs
<1>11. CASE WriteTracker
  BY <1>11, <1>a DEF WriteTracker, Goto, SavedInv, InLoop, Pcs
<1>12. CASE EndStep
  <2>1. /\ pc = "end" /\ pc' \in {"resample", "done"}
        /\ step' = step + 1 /\ tracker' = tracker
    BY <1>12 DEF EndStep, disk
  <2> QED BY <1>a, <2>1 DEF SavedInv, InLoop
<1>13. CASE Restart
  BY <1>13 DEF Restart, SavedInv, InLoop, disk
<1>14. CASE Terminated \/ UNCHANGED vars
  BY <1>14 DEF Terminated, vars, driver, worker, disk, SavedInv, StateDict
<1> QED BY <1>1, <1>2, <1>3, <1>4, <1>5, <1>6, <1>7, <1>8, <1>9, <1>10, <1>11,
           <1>12, <1>13, <1>14 DEF Next, Fit

(***************************************************************************)
(* The refinement.  A snapshot changes only where ResumableTraining has an *)
(* action: the mask and the weights by Work, the saved one by Save when    *)
(* the tracker is written, the live one by Resume when the process dies.   *)
(***************************************************************************)
Snapshots == <<LiveSnapshot, SavedSnapshot>>

\* Before and after the refresh of a step, and with no directory written.
LEMMA SameSaved ==
  ASSUME UNCHANGED disk
  PROVE  SavedSnapshot' = SavedSnapshot
BY DEF disk, SavedSnapshot, Snapshot, StateDict, NewController

\* A refresh assigns the next mask; whatever else it does is mask state.
LEMMA RefreshIsWork ==
  ASSUME TypeInv, RefreshMlpMask
  PROVE  StateDict(actor)'.version = StateDict(actor).version + 1
<1>1. actor' \in Controller /\ actor'.version = actor.version + 1
  BY RecipeFacts, RefreshType DEF RefreshMlpMask, TypeInv, TypeOK
<1> QED BY <1>1 DEF StateDict

\* A step of the loop that writes no file is Work or nothing.
LEMMA WorkSteps ==
  ASSUME TypeInv, UNCHANGED disk, pc # "boot", pc' # "boot",
         FinishedSteps' \in {FinishedSteps, FinishedSteps + 1},
         weights' \in {weights, Append(weights, FinishedSteps + 1)},
         \/ StateDict(actor)'.version = StateDict(actor).version + 1
         \/ /\ StateDict(actor)'.version = StateDict(actor).version
            /\ StateDict(actor)'.masked = StateDict(actor).masked
            /\ StateDict(actor)'.contrast = StateDict(actor).contrast
  PROVE  Resumable!Work
<1>1. /\ LiveSnapshot = Snapshot(FinishedSteps, weights, StateDict(actor))
      /\ LiveSnapshot' = Snapshot(FinishedSteps, weights, StateDict(actor))'
  BY DEF LiveSnapshot
<1>2. StateDict(actor).version \in Nat
  BY DEF StateDict, TypeInv, TypeOK, Controller
<1> QED BY <1>1, <1>2, SameSaved DEF Resumable!Work, Snapshot

LEMMA RefinementStep ==
  ASSUME TypeInv, MaskInv, SavedInv, [Next]_vars
  PROVE  [Resumable!NextResumable]_Snapshots
<1>a. /\ step \in Nat /\ tracker \in Nat /\ dirs \in [Steps -> Directory]
      /\ pc \in InLoop => step \in Steps
      /\ tracker # 0 => tracker \in Steps
  BY StepHasDirectory DEF TypeInv, TypeOK
<1>1. CASE LoadCheckpoint
  <2>1. /\ pc = "boot" /\ pc' \in {"resample", "failed"}
        /\ step' = tracker + 1 /\ UNCHANGED disk
    BY <1>1 DEF LoadCheckpoint, StartFit, Raise, ResumedStep
  <2>2. FinishedSteps' = tracker
    BY <1>a, <2>1 DEF FinishedSteps
  <2>3. LiveSnapshot = SavedSnapshot
    BY <2>1 DEF LiveSnapshot
  <2>4. LiveSnapshot' = Snapshot(tracker, weights', StateDict(actor'))
    BY <2>1, <2>2 DEF LiveSnapshot, Snapshot, StateDict
  <2>5. CASE tracker = 0
    <3>1. weights' = << >> /\ actor' = NewController
      BY <1>1, <2>1, <2>5 DEF LoadCheckpoint, worker, SavedInv
    <3>2. LiveSnapshot' = SavedSnapshot
      BY <2>4, <2>5, <3>1 DEF SavedSnapshot
    <3> QED BY <2>1, <2>3, <3>2, SameSaved DEF Snapshots
  <2>6. CASE tracker # 0
    <3>1. /\ dirs[tracker].mask.by # 0
          /\ dirs[tracker].mask.state \in SavedState
      BY <1>a, <2>6 DEF MaskInv, FilesOfStep, Directory, MaskPart
    <3>2. /\ weights' = dirs[tracker].shards.weights
          /\ actor' = LoadStateDict(actor, dirs[tracker].mask.state)
      BY <1>1, <2>6, <3>1 DEF LoadCheckpoint
    <3>3. StateDict(actor') = dirs[tracker].mask.state
      BY <3>1, <3>2 DEF StateDict, LoadStateDict, SavedState
    <3>4. LiveSnapshot' = SavedSnapshot
      BY <2>4, <2>6, <3>2, <3>3 DEF SavedSnapshot
    <3> QED BY <2>1, <2>3, <3>4, SameSaved DEF Snapshots
  <2> QED BY <2>5, <2>6
<1>2. CASE ResampleMask
  <2>1. /\ pc = "resample" /\ pc' = "rollout" /\ step' = step
        /\ weights' = weights /\ UNCHANGED disk
    BY <1>2 DEF ResampleMask, Goto
  <2>2. FinishedSteps' = FinishedSteps
    BY <2>1 DEF FinishedSteps
  <2>3. CASE RefreshMlpMask
    BY <2>1, <2>2, <2>3, RefreshIsWork, WorkSteps DEF Resumable!NextResumable
  <2>4. CASE actor' = actor
    <3>1. StateDict(actor)' = StateDict(actor)
      BY <2>4 DEF StateDict
    <3> QED BY <2>1, <2>2, <3>1, WorkSteps DEF Resumable!NextResumable
  <2> QED BY <1>2, <2>3, <2>4 DEF ResampleMask
<1>3. CASE GenerateDual \/ ComputeOldLogProb
  <2>1. /\ pc \in {"rollout", "old_log_prob"}
        /\ pc' \in {"old_log_prob", "advantage", "failed"}
        /\ step' = step /\ weights' = weights /\ actor' = actor /\ UNCHANGED disk
    BY <1>3 DEF GenerateDual, ComputeOldLogProb, Goto, Raise, worker
  <2>2. FinishedSteps' = FinishedSteps /\ StateDict(actor)' = StateDict(actor)
    BY <2>1 DEF FinishedSteps, StateDict
  <2> QED BY <2>1, <2>2, WorkSteps DEF Resumable!NextResumable
<1>4. CASE ObserveCausalEffect
  <2>1. /\ pc = "advantage" /\ pc' = "update_actor"
        /\ step' = step /\ weights' = weights /\ UNCHANGED disk
    BY <1>4 DEF ObserveCausalEffect, Goto
  <2>2. /\ actor'.version = actor.version /\ actor'.masked = actor.masked
        /\ actor'.contrast = actor.contrast
    BY <1>4 DEF ObserveCausalEffect, ObserveCausalAblation, TypeInv, TypeOK, Controller
  <2>3. FinishedSteps' = FinishedSteps
    BY <2>1 DEF FinishedSteps
  <2> QED BY <2>1, <2>2, <2>3, WorkSteps DEF Resumable!NextResumable, StateDict
<1>5. CASE UpdateActor
  <2>1. /\ pc = "update_actor" /\ pc' = "refresh" /\ step' = step /\ UNCHANGED disk
        /\ weights' \in {weights, Append(weights, step)}
    BY <1>5 DEF UpdateActor, Goto
  <2>2. /\ actor'.version = actor.version /\ actor'.masked = actor.masked
        /\ actor'.contrast = actor.contrast
    BY <1>5 DEF UpdateActor, AccumulateScore, TypeInv, TypeOK, Controller
  <2>3. FinishedSteps' = FinishedSteps /\ FinishedSteps + 1 = step
    BY <1>a, <2>1 DEF FinishedSteps
  <2> QED BY <2>1, <2>2, <2>3, WorkSteps DEF Resumable!NextResumable, StateDict
<1>6. CASE RefreshAfterStep
  <2>1. /\ pc = "refresh" /\ pc' \in {"save", "failed"} /\ step' = step
        /\ weights' = weights /\ UNCHANGED disk
    BY <1>6 DEF RefreshAfterStep, Raise
  <2>2. FinishedSteps' \in {FinishedSteps, FinishedSteps + 1}
    BY <1>a, <2>1 DEF FinishedSteps
  <2>3. CASE RefreshMlpMask
    BY <2>1, <2>2, <2>3, RefreshIsWork, WorkSteps DEF Resumable!NextResumable
  <2>4. CASE actor' = actor
    <3>1. StateDict(actor)' = StateDict(actor)
      BY <2>4 DEF StateDict
    <3> QED BY <2>1, <2>2, <3>1, WorkSteps DEF Resumable!NextResumable
  <2> QED BY <1>6, <2>3, <2>4 DEF RefreshAfterStep
<1>7. CASE SkipSave \/ EndStep
  <2>1. /\ pc \in {"save", "end"} /\ pc' \in {"end", "resample", "done"}
        /\ weights' = weights /\ actor' = actor /\ UNCHANGED disk
        /\ pc' = "end" => step' = step
        /\ pc' # "end" => step' = step + 1
    BY <1>7 DEF SkipSave, EndStep, Goto, worker
  <2>2. FinishedSteps' = FinishedSteps /\ StateDict(actor)' = StateDict(actor)
    BY <1>a, <2>1 DEF FinishedSteps, StateDict
  <2> QED BY <2>1, <2>2, WorkSteps DEF Resumable!NextResumable
<1>8. CASE SaveShards \/ SaveMaskFile
  <2>1. /\ pc \in {"save", "save_mask"} /\ pc' \in {"save_mask", "save_tracker"}
        /\ step' = step /\ weights' = weights /\ actor' = actor /\ tracker' = tracker
        /\ step \in Steps
    BY <1>8, <1>a DEF SaveShards, SaveMaskFile, Goto, worker, InLoop, Pcs
  <2>2. tracker < step
    BY <2>1 DEF SavedInv, InLoop, Pcs
  <2>3. tracker # 0 => dirs'[tracker] = dirs[tracker]
    BY <1>8, <1>a, <2>1, <2>2, WritesOnePart DEF SaveShards, SaveMaskFile
  <2>4. SavedSnapshot' = SavedSnapshot
    BY <2>1, <2>3 DEF SavedSnapshot, Snapshot, StateDict, NewController
  <2>5. LiveSnapshot' = LiveSnapshot
    BY <2>1 DEF LiveSnapshot, FinishedSteps, Snapshot, StateDict
  <2> QED BY <2>4, <2>5 DEF Snapshots
<1>9. CASE WriteTracker
  <2>1. /\ pc = "save_tracker" /\ pc' = "end" /\ step' = step /\ tracker' = step
        /\ weights' = weights /\ actor' = actor /\ dirs' = dirs /\ step # 0
    BY <1>9, <1>a DEF WriteTracker, Goto, worker, InLoop, Pcs, Steps
  <2>2. SavedSnapshot' = Snapshot(step, dirs[step].shards.weights, dirs[step].mask.state)
    BY <2>1 DEF SavedSnapshot, Snapshot
  <2>3. LiveSnapshot = Snapshot(step, weights, StateDict(actor)) /\ LiveSnapshot' = LiveSnapshot
    BY <2>1 DEF LiveSnapshot, FinishedSteps, Snapshot, StateDict
  <2>4. SavedSnapshot' = LiveSnapshot
    BY <2>1, <2>2, <2>3 DEF SavedInv
  <2> QED BY <2>3, <2>4 DEF Resumable!NextResumable, Resumable!Save
<1>10. CASE Restart
  <2>1. pc' = "boot" /\ UNCHANGED disk
    BY <1>10 DEF Restart
  <2>2. LiveSnapshot' = SavedSnapshot'
    BY <2>1 DEF LiveSnapshot
  <2> QED BY <2>1, <2>2, SameSaved DEF Resumable!NextResumable, Resumable!Resume
<1>11. CASE Terminated \/ UNCHANGED vars
  <2>1. /\ pc' = pc /\ step' = step /\ weights' = weights /\ actor' = actor
        /\ UNCHANGED disk
    BY <1>11 DEF Terminated, vars, driver, worker, disk
  <2>2. SavedSnapshot' = SavedSnapshot
    BY <2>1, SameSaved
  <2>3. LiveSnapshot' = LiveSnapshot
    BY <2>1, <2>2 DEF LiveSnapshot, FinishedSteps, Snapshot, StateDict
  <2> QED BY <2>2, <2>3 DEF Snapshots
<1> QED BY <1>1, <1>2, <1>3, <1>4, <1>5, <1>6, <1>7, <1>8, <1>9, <1>10, <1>11
        DEF Next, Fit

(***************************************************************************)
(* The loop with its three-file checkpoints implements one live and one    *)
(* saved state: a resumed process goes on from weights, mask and step that *)
(* belong together, whatever the step at which the one before it died.     *)
(***************************************************************************)
THEOREM ImplementsResumableHolds == Spec => ImplementsResumable
<1>1. Init => Resumable!InitResumable
  BY DEF Init, Resumable!InitResumable, LiveSnapshot, SavedSnapshot
<1>2. TypeInv /\ SavedInv /\ [Next]_vars => SavedInv'
  BY SavedInvNext
<1>3. TypeInv /\ MaskInv /\ SavedInv /\ [Next]_vars =>
        [Resumable!NextResumable]_<<LiveSnapshot, SavedSnapshot>>
  BY RefinementStep DEF Snapshots
<1> QED BY <1>1, <1>2, <1>3, TypeInvInit, TypeInvNext, MaskInvInit, MaskInvNext,
           SavedInvInit, PTL
        DEF Spec, ImplementsResumable, Resumable!SpecResumable

(***************************************************************************)
(* No update twice.  Increasing weights are not inductive: the step whose  *)
(* update comes next must lie beyond every step applied, which a resume    *)
(* gets from the number of the directory it loads.                         *)
(***************************************************************************)
UpTo(w, s) == Increasing(w) /\ \A i \in DOMAIN w : w[i] <= s

BeforeUpdate == {"resample", "rollout", "old_log_prob", "advantage", "update_actor"}

OnceInv ==
  /\ pc = "boot" => weights = << >>
  /\ Increasing(weights)
  /\ pc \in BeforeUpdate => UpTo(weights, step - 1)
  /\ pc \in InLoop => UpTo(weights, step)
  /\ \A s \in Steps : UpTo(dirs[s].shards.weights, s)

LEMMA NothingApplied == \A s \in Nat : UpTo(<< >>, s)
BY DEF UpTo, Increasing

LEMMA AppendNext ==
  ASSUME NEW w \in Seq(Nat), NEW s \in Nat, UpTo(w, s - 1)
  PROVE  UpTo(Append(w, s), s) /\ UpTo(w, s)
BY DEF UpTo, Increasing

LEMMA OnceInvInit == Init => OnceInv
<1>1. SUFFICES ASSUME Init PROVE OnceInv
  OBVIOUS
<1>2. \A s \in Steps : s \in Nat
  BY DEF Steps
<1> QED BY <1>1, <1>2, NothingApplied
        DEF Init, OnceInv, NoDirectory, UpTo, InLoop, BeforeUpdate

LEMMA OnceInvNext ==
  ASSUME TypeInv, OnceInv, [Next]_vars
  PROVE  OnceInv'
<1>a. /\ step \in Nat /\ tracker \in Nat /\ dirs \in [Steps -> Directory]
      /\ weights \in Seq(Nat)
      /\ pc \in InLoop => step \in Steps
      /\ tracker # 0 => tracker \in Steps
  BY StepHasDirectory DEF TypeInv, TypeOK
<1>1. CASE LoadCheckpoint
  <2>1. /\ pc = "boot" /\ pc' \in {"resample", "failed"}
        /\ step' = tracker + 1 /\ dirs' = dirs
        /\ weights' = IF tracker = 0 THEN weights ELSE dirs[tracker].shards.weights
    BY <1>1 DEF LoadCheckpoint, StartFit, Raise, ResumedStep, disk, worker
  <2>2. UpTo(weights', tracker)
    BY <1>a, <2>1, NothingApplied DEF OnceInv
  <2>3. weights' \in Seq(Nat)
    BY <1>a, <2>1 DEF Directory, ShardPart
  <2>4. UpTo(weights', step') /\ UpTo(weights', step' - 1)
    BY <1>a, <2>1, <2>2, <2>3 DEF UpTo
  <2> QED BY <2>1, <2>4 DEF OnceInv, InLoop, UpTo
<1>2. CASE ResampleMask \/ GenerateDual \/ ComputeOldLogProb \/ ObserveCausalEffect
  <2>1. /\ pc \in BeforeUpdate /\ pc' \in BeforeUpdate \cup {"failed"}
        /\ step' = step /\ weights' = weights /\ dirs' = dirs
    BY <1>2 DEF ResampleMask, GenerateDual, ComputeOldLogProb, ObserveCausalEffect,
                Goto, Raise, worker, disk, BeforeUpdate
  <2> QED BY <2>1 DEF OnceInv, BeforeUpdate, InLoop, Pcs, UpTo
<1>3. CASE UpdateActor
  <2>1. /\ pc = "update_actor" /\ pc' = "refresh" /\ step' = step /\ dirs' = dirs
        /\ weights' \in {weights, Append(weights, step)}
    BY <1>3 DEF UpdateActor, Goto, disk
  <2>2. UpTo(weights', step)
    BY <1>a, <2>1, AppendNext DEF OnceInv, BeforeUpdate
  <2> QED BY <2>1, <2>2 DEF OnceInv, BeforeUpdate, InLoop, UpTo
<1>4. CASE RefreshAfterStep \/ SkipSave \/ SaveMaskFile \/ WriteTracker
  <2>1. /\ pc \in InLoop \ BeforeUpdate /\ pc' \notin BeforeUpdate \cup {"boot"}
        /\ step' = step /\ weights' = weights
    BY <1>4 DEF RefreshAfterStep, SkipSave, SaveMaskFile, WriteTracker, Goto, Raise,
                worker, InLoop, Pcs, BeforeUpdate
  <2>2. \A s \in Steps : dirs'[s].shards = dirs[s].shards
    <3>1. CASE SaveMaskFile
      <4>1. step \in Steps
        BY <1>a, <2>1
      <4> QED BY <1>a, <3>1, <4>1, WritesOnePart DEF SaveMaskFile
    <3>2. CASE RefreshAfterStep \/ SkipSave \/ WriteTracker
      BY <3>2 DEF RefreshAfterStep, SkipSave, WriteTracker, disk
    <3> QED BY <1>4, <3>1, <3>2
  <2> QED BY <2>1, <2>2 DEF OnceInv
<1>5. CASE SaveShards
  <2>1. /\ pc = "save" /\ pc' = "save_mask" /\ step' = step
        /\ weights' = weights /\ step \in Steps
        /\ dirs' = [dirs EXCEPT ![step].shards = [by |-> Process, weights |-> weights]]
    BY <1>5, <1>a DEF SaveShards, Goto, worker, InLoop, Pcs
  <2>2. UpTo(weights, step)
    BY <2>1 DEF OnceInv, InLoop, Pcs
  <2>3. \A s \in Steps : UpTo(dirs'[s].shards.weights, s)
    <3>1. TAKE s \in Steps
    <3>2. CASE s = step
      <4>1. dirs'[s].shards.weights = weights
        BY <1>a, <2>1, <3>2, WritesOnePart
      <4> QED BY <2>2, <3>2, <4>1
    <3>3. CASE s # step
      <4>1. dirs'[s] = dirs[s]
        BY <1>a, <2>1, <3>3, WritesOnePart
      <4> QED BY <4>1 DEF OnceInv
    <3> QED BY <3>2, <3>3
  <2> QED BY <2>1, <2>2, <2>3 DEF OnceInv, InLoop, Pcs, BeforeUpdate
<1>6. CASE EndStep
  <2>1. /\ pc = "end" /\ pc' \in {"resample", "done"}
        /\ step' = step + 1 /\ weights' = weights /\ dirs' = dirs
    BY <1>6 DEF EndStep, disk, worker
  <2>2. UpTo(weights, step' - 1) /\ UpTo(weights, step')
    BY <1>a, <2>1 DEF OnceInv, InLoop, Pcs, UpTo
  <2> QED BY <2>1, <2>2 DEF OnceInv, InLoop
<1>7. CASE Restart
  <2>1. pc' = "boot" /\ weights' = << >> /\ dirs' = dirs
    BY <1>7 DEF Restart, disk
  <2> QED BY <2>1, NothingApplied DEF OnceInv, InLoop, BeforeUpdate, UpTo
<1>8. CASE Terminated \/ UNCHANGED vars
  BY <1>8 DEF Terminated, vars, driver, worker, disk, OnceInv
<1> QED BY <1>1, <1>2, <1>3, <1>4, <1>5, <1>6, <1>7, <1>8 DEF Next, Fit

(***************************************************************************)
(* The update of a training step is applied at most once, in the live      *)
(* actor and in every checkpoint, however often training died and resumed. *)
(***************************************************************************)
THEOREM UpdatedOnceHolds == Spec => []UpdatedOnce
<1>1. OnceInv => UpdatedOnce
  BY DEF OnceInv, UpdatedOnce, UpTo
<1>2. TypeInv /\ OnceInv /\ [Next]_vars => OnceInv'
  BY OnceInvNext
<1> QED BY <1>1, <1>2, TypeInvInit, TypeInvNext, OnceInvInit, PTL DEF Spec

(***************************************************************************)
(* The score.  What a controller or a mask file must say after n steps, as *)
(* predicates on its fields: the batches due so far have been scored, in   *)
(* order and once; a relative score is measured against earlier batches;   *)
(* a reward gap is paired with the contrast of the mask that caused it.    *)
(***************************************************************************)
Due(cfg, n) == {s \in 1..n : Collects(cfg, s) /\ UpdatesActor(cfg, s)}

FoldedOf(cfg, st) == IF cfg.method = "relative"
                       THEN st.baseline
                       ELSE [i \in DOMAIN st.score |-> st.score[i].batch[1]]

Lists(w, S) == Increasing(w) /\ {w[i] : i \in DOMAIN w} = S

ScoredUpTo(cfg, st, n) ==
  NeedsForwardScore(cfg.method) /\ cfg.strategy # "random" =>
    Lists(FoldedOf(cfg, st), Due(cfg, n))

AgainstThePast(cfg, st) ==
  cfg.method = "relative" =>
    \A i \in DOMAIN st.score :
      /\ st.score[i].against \in 1..Len(st.baseline)
      /\ \A j \in 1..st.score[i].against, k \in DOMAIN st.score[i].batch :
           st.baseline[j] < st.score[i].batch[k]

Paired(cfg, st) ==
  cfg.method = "causal" =>
    /\ st.contrast = st.version
    /\ \A i \in DOMAIN st.score : st.score[i].batch = <<st.score[i].against>>
    /\ Len(st.score) = IF st.gaps = << >> THEN 0 ELSE Len(st.gaps) - 1
    /\ Increasing(st.gaps)

GapsUpTo(st, n) == \A i \in DOMAIN st.gaps : st.gaps[i] <= n

Sound(cfg, st, scored, observed) ==
  /\ ScoredUpTo(cfg, st, scored) /\ AgainstThePast(cfg, st)
  /\ Paired(cfg, st) /\ GapsUpTo(st, observed)

\* They depend on the saved fields only.
LEMMA SameEvidence ==
  ASSUME NEW cfg, NEW c, NEW d, NEW scored, NEW observed,
         c.version = d.version, c.contrast = d.contrast,
         c.baseline = d.baseline, c.score = d.score, c.gaps = d.gaps,
         Sound(cfg, c, scored, observed)
  PROVE  Sound(cfg, d, scored, observed)
BY DEF Sound, ScoredUpTo, FoldedOf, AgainstThePast, Paired, GapsUpTo

LEMMA EmptyList ==
  ASSUME NEW w, DOMAIN w = {}
  PROVE  Lists(w, {})
<1>1. \A x : x \notin {w[i] : i \in DOMAIN w}
  OBVIOUS
<1>2. {w[i] : i \in DOMAIN w} = {}
  BY <1>1
<1> QED BY <1>2 DEF Lists, Increasing

LEMMA NothingScored ==
  ASSUME NEW cfg
  PROVE  Sound(cfg, NewController, 0, 0)
<1>1. Due(cfg, 0) = {}
  BY DEF Due
<1>2. /\ NewController.baseline = << >> /\ NewController.score = << >>
      /\ NewController.gaps = << >>
      /\ NewController.contrast = 0 /\ NewController.version = 0
  BY DEF NewController
<1>3. Lists(FoldedOf(cfg, NewController), {})
  <2>1. DOMAIN FoldedOf(cfg, NewController) = {}
    <3>1. CASE cfg.method = "relative"
      BY <1>2, <3>1 DEF FoldedOf
    <3>2. CASE cfg.method # "relative"
      BY <1>2, <3>2 DEF FoldedOf
    <3> QED BY <3>1, <3>2
  <2> QED BY <2>1, EmptyList
<1>4. ScoredUpTo(cfg, NewController, 0)
  BY <1>1, <1>3 DEF ScoredUpTo
<1>5. /\ DOMAIN NewController.score = {} /\ DOMAIN NewController.gaps = {}
      /\ Len(NewController.score) = 0
  BY <1>2
<1>6. AgainstThePast(cfg, NewController) /\ GapsUpTo(NewController, 0)
  BY <1>5 DEF AgainstThePast, GapsUpTo
<1>7. Paired(cfg, NewController)
  BY <1>2, <1>5 DEF Paired, Increasing
<1> QED BY <1>4, <1>6, <1>7 DEF Sound

\* A step is due once its batch was collected, and nothing else becomes due.
LEMMA DueNext ==
  ASSUME NEW cfg, NEW n \in Nat \ {0}
  PROVE  /\ Due(cfg, n) = IF Collects(cfg, n) /\ UpdatesActor(cfg, n)
                            THEN Due(cfg, n - 1) \cup {n} ELSE Due(cfg, n - 1)
         /\ Due(cfg, n - 1) \subseteq 1..(n - 1)
<1>1. 1..n = 1..(n - 1) \cup {n} /\ n \notin 1..(n - 1)
  OBVIOUS
<1> QED BY <1>1 DEF Due

LEMMA ListExtended ==
  ASSUME NEW w, NEW v, NEW n \in Nat, NEW s \in Nat, NEW S,
         S \subseteq 1..(s - 1), Lists(w, S),
         DOMAIN w = 1..n, DOMAIN v = 1..(n + 1),
         \A i \in 1..n : v[i] = w[i], v[n + 1] = s
  PROVE  Lists(v, S \cup {s})
<1>1. \A i \in 1..n : w[i] \in S /\ w[i] \in Nat /\ w[i] < s
  <2>1. \A i \in 1..n : w[i] \in {w[k] : k \in DOMAIN w}
    OBVIOUS
  <2>2. \A t \in S : t \in Nat /\ t < s
    OBVIOUS
  <2> QED BY <2>1, <2>2 DEF Lists
<1>2. Increasing(v)
  <2>1. SUFFICES ASSUME NEW i \in 1..(n + 1), NEW j \in 1..(n + 1), i < j
                 PROVE  v[i] < v[j]
    BY DEF Increasing
  <2>2. i \in 1..n
    BY <2>1
  <2>3. CASE j \in 1..n
    BY <2>1, <2>2, <2>3 DEF Lists, Increasing
  <2>4. CASE j = n + 1
    BY <2>2, <2>4, <1>1
  <2> QED BY <2>3, <2>4
<1>3. {v[i] : i \in DOMAIN v} = S \cup {s}
  <2>1. {v[i] : i \in 1..n} = S
    BY DEF Lists
  <2>2. 1..(n + 1) = 1..n \cup {n + 1}
    OBVIOUS
  <2> QED BY <2>1, <2>2
<1> QED BY <1>2, <1>3 DEF Lists

(***************************************************************************)
(* A refresh that consumes the batch of step s scores it, against the      *)
(* batches before it; one that consumes nothing leaves the evidence alone. *)
(***************************************************************************)
LEMMA RefreshConsumes ==
  ASSUME NEW c \in Controller, NEW cfg \in ConfigSpace, NEW s \in Nat \ {0},
         c.pending = <<s>>, ConsumesPending(c, cfg), cfg.strategy # "random",
         Collects(cfg, s), UpdatesActor(cfg, s), Sound(cfg, c, s - 1, s)
  PROVE  Sound(cfg, RefreshMask(c, cfg), s, s)
<1> DEFINE r == RefreshMask(c, cfg)
<1>a. /\ c.baseline \in Seq(Nat) /\ c.score \in Seq(Evidence)
      /\ NeedsForwardScore(cfg.method) /\ cfg.method # "causal"
  BY DEF Controller, ConsumesPending, NeedsForwardScore, ForwardScores
<1>b. /\ r.gaps = c.gaps /\ r.baseline = BaselineAfterBatch(c, cfg)
      /\ r.score = ScoreAfterBatch(c, cfg)
  BY DEF RefreshMask
<1>c. /\ Due(cfg, s) = Due(cfg, s - 1) \cup {s}
      /\ Due(cfg, s - 1) \subseteq 1..(s - 1)
  BY DueNext
<1>d. Lists(FoldedOf(cfg, c), Due(cfg, s - 1))
  BY <1>a DEF Sound, ScoredUpTo
<1>1. CASE cfg.method = "relative"
  <2> DEFINE n == Len(c.baseline)
  <2>1. /\ n \in Nat /\ DOMAIN c.baseline = 1..n
        /\ r.baseline = Append(c.baseline, s)
    <3>1. r.baseline = c.baseline \o <<s>>
      BY <1>1, <1>b DEF BaselineAfterBatch
    <3>2. c.baseline \o <<s>> = Append(c.baseline, s)
      BY <1>a
    <3> QED BY <1>a, <3>1, <3>2
  <2>2. /\ DOMAIN r.baseline = 1..(n + 1) /\ Len(r.baseline) = n + 1
        /\ \A i \in 1..n : r.baseline[i] = c.baseline[i]
        /\ r.baseline[n + 1] = s
    BY <1>a, <2>1, AppendProperties
  <2>3. Lists(c.baseline, Due(cfg, s - 1))
    BY <1>1, <1>d DEF FoldedOf
  <2>4. Lists(r.baseline, Due(cfg, s))
    <3> HIDE DEF n, r
    <3> DEFINE w == c.baseline
               v == r.baseline
    <3>1. DOMAIN w = 1..n /\ DOMAIN v = 1..(n + 1) /\ Lists(w, Due(cfg, s - 1))
      BY <2>1, <2>2, <2>3
    <3>2. (\A i \in 1..n : v[i] = w[i]) /\ v[n + 1] = s
      BY <2>2
    <3> HIDE DEF w, v
    <3>3. Lists(v, Due(cfg, s - 1) \cup {s})
      BY <1>c, <2>1, <3>1, <3>2, ListExtended
    <3> QED BY <1>c, <3>3 DEF v
  <2>5. \A j \in 1..n : c.baseline[j] < s
    <3>1. \A j \in 1..n : c.baseline[j] \in {c.baseline[k] : k \in DOMAIN c.baseline}
      BY <2>1
    <3>2. \A t \in 1..(s - 1) : t < s
      OBVIOUS
    <3> QED BY <1>c, <2>3, <3>1, <3>2 DEF Lists
  <2>6. ScoredUpTo(cfg, r, s)
    BY <1>1, <2>4 DEF ScoredUpTo, FoldedOf
  <2>7. AgainstThePast(cfg, r)
    <3>1. \A i \in DOMAIN c.score :
            /\ c.score[i].against \in 1..n
            /\ \A j \in 1..c.score[i].against, k \in DOMAIN c.score[i].batch :
                 c.baseline[j] < c.score[i].batch[k]
      BY <1>1 DEF Sound, AgainstThePast
    <3>2. \A i \in DOMAIN c.score :
            /\ c.score[i].against \in 1..(n + 1)
            /\ \A j \in 1..c.score[i].against, k \in DOMAIN c.score[i].batch :
                 r.baseline[j] < c.score[i].batch[k]
      <4>1. TAKE i \in DOMAIN c.score
      <4>2. c.score[i].against \in 1..n
        BY <3>1
      <4>3. \A j \in 1..c.score[i].against : j \in 1..n
        BY <2>1, <4>2
      <4> HIDE DEF n, r
      <4> QED BY <2>1, <2>2, <3>1, <4>2, <4>3
    <3>3. CASE c.baseline = << >>
      <4>1. r.score = c.score
        BY <1>1, <1>b, <3>3 DEF ScoreAfterBatch
      <4> HIDE DEF n, r
      <4> QED BY <2>2, <3>2, <4>1 DEF AgainstThePast
    <3>4. CASE c.baseline # << >>
      <4> DEFINE e == [batch |-> <<s>>, against |-> n]
                 m == Len(c.score)
      <4>1. r.score = Append(c.score, e)
        BY <1>1, <1>b, <3>4 DEF ScoreAfterBatch
      <4>2. n # 0
        BY <1>a, <3>4
      <4>3. e.against \in 1..(n + 1) /\ e.against = n /\ e.batch = <<s>>
        BY <2>1, <4>2
      <4>4. /\ DOMAIN r.score = 1..(m + 1) /\ m \in Nat /\ DOMAIN c.score = 1..m
            /\ \A i \in 1..m : r.score[i] = c.score[i]
            /\ r.score[m + 1] = e
        <5>1. e \in Evidence
          BY <2>1 DEF Evidence
        <5> HIDE DEF e
        <5> QED BY <1>a, <4>1, <5>1, AppendProperties
      <4>5. \A j \in 1..n, k \in DOMAIN e.batch : r.baseline[j] < e.batch[k]
        <5>1. DOMAIN e.batch = {1} /\ e.batch[1] = s
          BY <4>3
        <5> HIDE DEF e, n, r
        <5> QED BY <2>2, <2>5, <5>1
      <4>6. SUFFICES ASSUME NEW i \in 1..(m + 1)
              PROVE  /\ r.score[i].against \in 1..(n + 1)
                     /\ \A j \in 1..r.score[i].against, k \in DOMAIN r.score[i].batch :
                          r.baseline[j] < r.score[i].batch[k]
        <5> HIDE DEF e, n, m, r
        <5> QED BY <2>2, <4>4 DEF AgainstThePast
      <4>7. i \in 1..m \/ i = m + 1
        BY <4>4
      <4> HIDE DEF e, n, m, r
      <4>8. CASE i \in 1..m
        BY <3>2, <4>4, <4>8
      <4>9. CASE i = m + 1
        BY <4>3, <4>4, <4>5, <4>9
      <4> QED BY <4>7, <4>8, <4>9
    <3> QED BY <3>3, <3>4
  <2> QED BY <1>1, <1>b, <2>6, <2>7 DEF Sound, Paired, GapsUpTo
<1>2. CASE cfg.method # "relative"
  <2> DEFINE e == [batch |-> <<s>>, against |-> 0]
             n == Len(c.score)
             w == FoldedOf(cfg, c)
             v == FoldedOf(cfg, r)
  <2>1. r.score = Append(c.score, e)
    BY <1>2, <1>b DEF ScoreAfterBatch
  <2>2. /\ DOMAIN r.score = 1..(n + 1) /\ n \in Nat /\ DOMAIN c.score = 1..n
        /\ \A i \in 1..n : r.score[i] = c.score[i]
        /\ r.score[n + 1] = e
    <3>1. e \in Evidence
      BY DEF Evidence
    <3> HIDE DEF e, r
    <3> QED BY <1>a, <2>1, <3>1, AppendProperties
  <2>3. /\ w = [i \in DOMAIN c.score |-> c.score[i].batch[1]]
        /\ v = [i \in DOMAIN r.score |-> r.score[i].batch[1]]
    BY <1>2 DEF FoldedOf
  <2>4. e.batch[1] = s
    OBVIOUS
  <2>5. /\ DOMAIN w = 1..n /\ DOMAIN v = 1..(n + 1)
        /\ \A i \in 1..n : v[i] = w[i]
        /\ v[n + 1] = s
    <3> HIDE DEF e, n, w, v, r
    <3> QED BY <2>2, <2>3, <2>4
  <2>6. Lists(w, Due(cfg, s - 1))
    BY <1>d
  <2>7. Lists(v, Due(cfg, s))
    <3> HIDE DEF e, n, w, v, r
    <3> QED BY <1>c, <2>2, <2>5, <2>6, ListExtended
  <2>8. ScoredUpTo(cfg, r, s)
    BY <2>7 DEF ScoredUpTo
  <2> QED BY <1>2, <1>a, <1>b, <2>8 DEF Sound, AgainstThePast, Paired, GapsUpTo
<1> QED BY <1>1, <1>2

LEMMA RefreshIdles ==
  ASSUME NEW c \in Controller, NEW cfg \in ConfigSpace, NEW scored, NEW observed,
         ~ConsumesPending(c, cfg), Sound(cfg, c, scored, observed)
  PROVE  Sound(cfg, RefreshMask(c, cfg), scored, observed)
<1> DEFINE r == RefreshMask(c, cfg)
<1>1. /\ r.gaps = c.gaps /\ r.baseline = c.baseline /\ r.score = c.score
      /\ cfg.method = "causal" => r.contrast = r.version
  BY DEF RefreshMask, BaselineAfterBatch, ScoreAfterBatch
<1> HIDE DEF r
<1>2. FoldedOf(cfg, r) = FoldedOf(cfg, c)
  BY <1>1 DEF FoldedOf
<1>3. ScoredUpTo(cfg, r, scored)
  BY <1>2 DEF Sound, ScoredUpTo
<1>4. AgainstThePast(cfg, r) /\ GapsUpTo(r, observed)
  BY <1>1 DEF Sound, AgainstThePast, GapsUpTo
<1>5. Paired(cfg, r)
  BY <1>1 DEF Sound, Paired
<1> QED BY <1>3, <1>4, <1>5 DEF Sound, r

(***************************************************************************)
(* An observation at step s, under the s-th mask, is paired with it.       *)
(***************************************************************************)
LEMMA ObservationPairs ==
  ASSUME NEW c \in Controller, NEW cfg \in ConfigSpace, NEW s \in Nat \ {0},
         cfg.method = "causal", c.version = s, Sound(cfg, c, s - 1, s - 1)
  PROVE  Sound(cfg, ObserveCausalAblation(c, s), s - 1, s)
<1> DEFINE o == ObserveCausalAblation(c, s)
           e == [batch |-> <<s>>, against |-> s]
           n == Len(c.gaps)
           m == Len(c.score)
<1>a. /\ c.gaps \in Seq(Nat) /\ c.score \in Seq(Evidence) /\ e \in Evidence
      /\ n \in Nat /\ m \in Nat /\ DOMAIN c.gaps = 1..n /\ DOMAIN c.score = 1..m
  BY DEF Controller, Evidence
<1>b. /\ c.contrast = s
      /\ \A i \in 1..m : c.score[i].batch = <<c.score[i].against>>
      /\ m = IF c.gaps = << >> THEN 0 ELSE n - 1
      /\ Increasing(c.gaps)
      /\ \A i \in 1..n : c.gaps[i] <= s - 1
  BY <1>a DEF Sound, Paired, GapsUpTo
<1>c. /\ o.version = s /\ o.contrast = s /\ o.gaps = Append(c.gaps, s)
      /\ o.score = IF c.gaps # << >> THEN Append(c.score, e) ELSE c.score
  BY <1>b DEF ObserveCausalAblation, Controller
<1>d. ~NeedsForwardScore(cfg.method)
  BY DEF NeedsForwardScore, ForwardScores
<1>e. c.gaps = << >> <=> n = 0
  BY <1>a
<1>f. e.batch = <<e.against>>
  OBVIOUS
<1> HIDE DEF o, e, n, m
<1>1. /\ DOMAIN o.gaps = 1..(n + 1) /\ Len(o.gaps) = n + 1 /\ o.gaps # << >>
      /\ \A i \in 1..n : o.gaps[i] = c.gaps[i]
      /\ o.gaps[n + 1] = s
  <2>1. /\ DOMAIN Append(c.gaps, s) = 1..(Len(c.gaps) + 1)
        /\ Len(Append(c.gaps, s)) = Len(c.gaps) + 1
        /\ \A i \in 1..Len(c.gaps) : Append(c.gaps, s)[i] = c.gaps[i]
        /\ Append(c.gaps, s)[Len(c.gaps) + 1] = s
        /\ Append(c.gaps, s) # << >>
    BY <1>a, AppendProperties
  <2> QED BY <1>c, <2>1 DEF n
<1>2. Increasing(o.gaps)
  <2>1. SUFFICES ASSUME NEW i \in 1..(n + 1), NEW j \in 1..(n + 1), i < j
                 PROVE  o.gaps[i] < o.gaps[j]
    BY <1>1 DEF Increasing
  <2>2. i \in 1..n
    BY <1>a, <2>1
  <2>3. CASE j \in 1..n
    BY <1>1, <1>a, <1>b, <2>1, <2>2, <2>3 DEF Increasing
  <2>4. CASE j = n + 1
    <3>1. c.gaps[i] \in Nat /\ c.gaps[i] <= s - 1
      BY <1>a, <1>b, <2>2
    <3> QED BY <1>1, <2>2, <2>4, <3>1
  <2> QED BY <1>a, <2>3, <2>4
<1>3. GapsUpTo(o, s)
  <2>1. \A i \in 1..n : c.gaps[i] \in Nat
    BY <1>a
  <2>2. SUFFICES ASSUME NEW i \in 1..(n + 1) PROVE o.gaps[i] <= s
    BY <1>1 DEF GapsUpTo
  <2>3. i \in 1..n \/ i = n + 1
    BY <1>a
  <2> QED BY <1>1, <1>b, <2>1, <2>3
<1>4. /\ \A i \in DOMAIN o.score : o.score[i].batch = <<o.score[i].against>>
      /\ Len(o.score) = n
  <2>1. CASE c.gaps = << >>
    BY <1>a, <1>b, <1>c, <1>e, <2>1 DEF m
  <2>2. CASE c.gaps # << >>
    <3>1. /\ DOMAIN o.score = 1..(m + 1) /\ Len(o.score) = m + 1
          /\ \A i \in 1..m : o.score[i] = c.score[i]
          /\ o.score[m + 1] = e
      BY <1>a, <1>c, <2>2, AppendProperties DEF m
    <3>2. m + 1 = n
      BY <1>a, <1>b, <2>2
    <3>3. \A i \in 1..(m + 1) : i \in 1..m \/ i = m + 1
      BY <1>a
    <3> QED BY <1>b, <1>f, <3>1, <3>2, <3>3
  <2> QED BY <2>1, <2>2
<1>5. Paired(cfg, o)
  <2>1. (n + 1) - 1 = n
    BY <1>a
  <2> QED BY <1>1, <1>2, <1>4, <1>c, <2>1 DEF Paired
<1> QED BY <1>3, <1>5, <1>d DEF Sound, ScoredUpTo, AgainstThePast, o

(***************************************************************************)
(* The inductive invariant.  What ScoredExactlyOnce says of a saving run   *)
(* must be known of every complete mask file, of the steps before the      *)
(* refresh, and of what is pending: one batch, and only at the refresh.    *)
(***************************************************************************)
Unobserved == {"resample", "rollout", "old_log_prob", "advantage"}

PendingOfStep ==
  pc \in InLoop =>
    actor.pending = IF pc = "refresh" /\ Collects(config, step)
                                    /\ UpdatesActor(config, step)
                      THEN <<step>> ELSE << >>

ScoredSteps == IF pc \in Saving THEN step ELSE step - 1
ObservedSteps == IF pc \in Unobserved THEN step - 1 ELSE step

LiveScore ==
  /\ pc \in InLoop => Sound(config, actor, ScoredSteps, ObservedSteps)
  /\ AgainstThePast(config, actor) /\ Paired(config, actor)

SavedScore ==
  \A s \in Steps :
    dirs[s].mask.by # 0 => Sound(config, dirs[s].mask.state, s, s)

ScoreInv == PendingOfStep /\ LiveScore /\ SavedScore

LEMMA ScoreInvInit == Init => ScoreInv
<1> SUFFICES ASSUME Init PROVE ScoreInv
  OBVIOUS
<1>1. PendingOfStep
  BY DEF Init, PendingOfStep, InLoop
<1>2. Sound(config, NewController, 0, 0)
  BY NothingScored
<1>3. LiveScore
  BY <1>2 DEF Init, LiveScore, InLoop, Sound
<1>4. SavedScore
  BY DEF Init, SavedScore, NoDirectory
<1> QED BY <1>1, <1>3, <1>4 DEF ScoreInv

\* Predicates on a state that did not change.
LEMMA SavedScoreKept ==
  ASSUME SavedScore, dirs' = dirs, config' = config
  PROVE  SavedScore'
<1>1. SUFFICES ASSUME NEW s \in Steps, dirs'[s].mask.by # 0
               PROVE  Sound(config', dirs'[s].mask.state, s, s)
  BY DEF SavedScore
<1> QED BY <1>1 DEF SavedScore

LEMMA LoadKeepsScore ==
  ASSUME TypeInv, MaskInv, SavedInv, ScoreInv, LoadCheckpoint
  PROVE  ScoreInv'
<1>a. /\ config' = config /\ dirs' = dirs /\ pc = "boot"
      /\ pc' \in {"resample", "failed"} /\ step' = tracker + 1
      /\ tracker \in Nat /\ (tracker # 0 => tracker \in Steps)
  BY StepHasDirectory DEF LoadCheckpoint, StartFit, Raise, ResumedStep, disk
<1>b. actor = NewController
  BY <1>a DEF SavedInv
<1>1. actor'.pending = << >> /\ Sound(config, actor', tracker, tracker)
  <2>1. CASE tracker = 0
    <3>1. actor' = NewController
      BY <1>b, <2>1 DEF LoadCheckpoint, worker
    <3> QED BY <2>1, <3>1, NothingScored DEF NewController
  <2>2. CASE tracker # 0
    <3> DEFINE saved == dirs[tracker].mask.state
    <3>1. dirs[tracker].mask.by # 0
      BY <2>2 DEF MaskInv, FilesOfStep
    <3>2. actor' = LoadStateDict(actor, saved)
      BY <2>2, <3>1 DEF LoadCheckpoint
    <3>3. Sound(config, saved, tracker, tracker)
      BY <1>a, <2>2, <3>1 DEF ScoreInv, SavedScore
    <3>4. /\ actor'.version = saved.version /\ actor'.contrast = saved.contrast
          /\ actor'.baseline = saved.baseline /\ actor'.score = saved.score
          /\ actor'.gaps = saved.gaps /\ actor'.pending = actor.pending
      BY <3>2 DEF LoadStateDict
    <3> HIDE DEF saved
    <3> QED BY <1>b, <3>3, <3>4, SameEvidence DEF NewController
  <2> QED BY <2>1, <2>2
<1>2. PendingOfStep'
  BY <1>1, <1>a DEF PendingOfStep
<1>3. step' - 1 = tracker
  BY <1>a
<1>4. pc' \in InLoop => ScoredSteps' = tracker /\ ObservedSteps' = tracker
  BY <1>a, <1>3 DEF ScoredSteps, ObservedSteps, Unobserved, Saving, InLoop
<1>5. LiveScore'
  BY <1>1, <1>4, <1>a DEF LiveScore, Sound
<1> QED BY <1>2, <1>5, <1>a, SavedScoreKept DEF ScoreInv

\* Steps before the refresh that leave the actor's controller alone.
LEMMA ForwardsKeepScore ==
  ASSUME TypeInv, ScoreInv, GenerateDual \/ ComputeOldLogProb
  PROVE  ScoreInv'
<1>a. /\ config' = config /\ dirs' = dirs /\ actor' = actor /\ step' = step
      /\ pc \in {"rollout", "old_log_prob"}
      /\ pc' \in {"old_log_prob", "advantage", "failed"}
  BY DEF GenerateDual, ComputeOldLogProb, Goto, Raise, worker, disk
<1>1. ScoredSteps' = step - 1 /\ ScoredSteps = step - 1
  BY <1>a DEF ScoredSteps, Saving
<1>2. pc' \in InLoop => ObservedSteps' = step - 1
  BY <1>a DEF ObservedSteps, Unobserved, InLoop
<1>3. ObservedSteps = step - 1 /\ pc \in InLoop
  BY <1>a DEF ObservedSteps, Unobserved, InLoop, Pcs
<1>4. PendingOfStep'
  BY <1>a, <1>3 DEF ScoreInv, PendingOfStep
<1>5. LiveScore'
  BY <1>a, <1>1, <1>2, <1>3 DEF ScoreInv, LiveScore
<1> QED BY <1>4, <1>5, <1>a, SavedScoreKept DEF ScoreInv

LEMMA ResampleKeepsScore ==
  ASSUME TypeInv, ScoreInv, ResampleMask
  PROVE  ScoreInv'
<1>a. /\ config' = config /\ dirs' = dirs /\ step' = step
      /\ pc = "resample" /\ pc' = "rollout" /\ actor \in Controller
      /\ config \in ConfigSpace
      /\ config.resample => config.strategy # "top_relative_activation"
  BY RecipeFacts DEF ResampleMask, Goto, disk, TypeInv, TypeOK
<1>1. /\ ScoredSteps = step - 1 /\ ScoredSteps' = step - 1
      /\ ObservedSteps = step - 1 /\ ObservedSteps' = step - 1
  BY <1>a DEF ScoredSteps, ObservedSteps, Saving, Unobserved
<1>2. actor.pending = << >> /\ Sound(config, actor, step - 1, step - 1)
  BY <1>a, <1>1 DEF ScoreInv, PendingOfStep, LiveScore, InLoop, Pcs
<1>3. actor'.pending = << >> /\ Sound(config, actor', step - 1, step - 1)
  <2>1. CASE config.resample /\ ~prepared
    <3>1. actor' = RefreshMask(actor, config)
      BY <2>1 DEF ResampleMask, RefreshMlpMask
    <3>2. ~ConsumesPending(actor, config)
      BY <1>a, <1>2, <2>1 DEF ConsumesPending
    <3>3. actor'.pending = << >>
      BY <3>1 DEF RefreshMask
    <3> QED BY <1>a, <1>2, <3>1, <3>2, <3>3, RefreshIdles
  <2>2. CASE ~(config.resample /\ ~prepared)
    BY <1>2, <2>2 DEF ResampleMask
  <2> QED BY <2>1, <2>2
<1>4. PendingOfStep'
  BY <1>a, <1>3 DEF PendingOfStep
<1>5. LiveScore'
  BY <1>a, <1>1, <1>3 DEF LiveScore, Sound
<1> QED BY <1>4, <1>5, <1>a, SavedScoreKept DEF ScoreInv

\* The causal evidence: the s-th mask is the one step s ran under.
LEMMA ObserveKeepsScore ==
  ASSUME TypeInv, MaskInv, ScoreInv, ObserveCausalEffect
  PROVE  ScoreInv'
<1>a. /\ config' = config /\ dirs' = dirs /\ step' = step
      /\ pc = "advantage" /\ pc' = "update_actor"
      /\ actor \in Controller /\ config \in ConfigSpace
  BY RecipeFacts DEF ObserveCausalEffect, Goto, disk, TypeInv, TypeOK
<1>b. step \in Nat \ {0}
  BY <1>a, StepHasDirectory DEF InLoop, Pcs, Steps
<1>1. /\ ScoredSteps = step - 1 /\ ScoredSteps' = step - 1
      /\ ObservedSteps = step - 1 /\ ObservedSteps' = step
  BY <1>a DEF ScoredSteps, ObservedSteps, Saving, Unobserved
<1>2. actor.pending = << >> /\ Sound(config, actor, step - 1, step - 1)
  BY <1>a, <1>1 DEF ScoreInv, PendingOfStep, LiveScore, InLoop, Pcs
<1>3. actor'.pending = << >> /\ Sound(config, actor', step - 1, step)
  <2>1. CASE config.method = "causal"
    <3>1. config.resample
      BY <2>1 DEF TypeInv, TypeOK, ValidRecipe
    <3>2. actor.version = step
      BY <1>a, <3>1 DEF MaskInv, VersionOfStep, MaskedRoute, Synced
    <3>3. actor' = ObserveCausalAblation(actor, step)
      BY <2>1 DEF ObserveCausalEffect, Causal
    <3>4. actor'.pending = << >>
      BY <1>a, <1>b, <1>2, <3>3, ObserveType
    <3> QED BY <1>a, <1>b, <1>2, <2>1, <3>2, <3>3, <3>4, ObservationPairs
  <2>2. CASE config.method # "causal"
    <3>1. actor' = actor
      BY <2>2 DEF ObserveCausalEffect, Causal
    <3>2. GapsUpTo(actor, step)
      <4>1. \A i \in DOMAIN actor.gaps : actor.gaps[i] \in Nat /\ actor.gaps[i] <= step - 1
        BY <1>a, <1>2 DEF Sound, GapsUpTo, Controller
      <4> QED BY <1>b, <4>1 DEF GapsUpTo
    <3> QED BY <1>2, <3>1, <3>2 DEF Sound
  <2> QED BY <2>1, <2>2
<1>4. PendingOfStep'
  BY <1>a, <1>3 DEF PendingOfStep
<1>5. LiveScore'
  BY <1>a, <1>1, <1>3 DEF LiveScore, Sound
<1> QED BY <1>4, <1>5, <1>a, SavedScoreKept DEF ScoreInv

LEMMA UpdateKeepsScore ==
  ASSUME TypeInv, ScoreInv, UpdateActor
  PROVE  ScoreInv'
<1>a. /\ config' = config /\ dirs' = dirs /\ step' = step
      /\ pc = "update_actor" /\ pc' = "refresh" /\ actor \in Controller
  BY DEF UpdateActor, Goto, disk, TypeInv, TypeOK
<1>1. /\ ScoredSteps = step - 1 /\ ScoredSteps' = step - 1
      /\ ObservedSteps = step /\ ObservedSteps' = step
  BY <1>a DEF ScoredSteps, ObservedSteps, Saving, Unobserved
<1>2. actor.pending = << >> /\ Sound(config, actor, step - 1, step)
  BY <1>a, <1>1 DEF ScoreInv, PendingOfStep, LiveScore, InLoop, Pcs
<1>3. /\ actor'.pending = IF Collects(config, step) /\ UpdatesActor(config, step)
                            THEN <<step>> ELSE << >>
      /\ Sound(config, actor', step - 1, step)
  <2>1. CASE Collects(config, step) /\ UpdatesActor(config, step)
    <3>1. actor' = AccumulateScore(actor, step)
      BY <2>1 DEF UpdateActor
    <3>2. /\ actor'.version = actor.version /\ actor'.contrast = actor.contrast
          /\ actor'.baseline = actor.baseline /\ actor'.score = actor.score
          /\ actor'.gaps = actor.gaps /\ actor'.pending = Append(actor.pending, step)
      BY <1>a, <3>1 DEF AccumulateScore, Controller
    <3>3. Append(<< >>, step) = <<step>>
      OBVIOUS
    <3>4. Sound(config, actor', step - 1, step)
      BY <1>2, <3>2, SameEvidence
    <3> QED BY <1>2, <2>1, <3>2, <3>3, <3>4
  <2>2. CASE ~(Collects(config, step) /\ UpdatesActor(config, step))
    <3>1. actor' = actor
      BY <2>2 DEF UpdateActor
    <3> QED BY <1>2, <2>2, <3>1
  <2> QED BY <2>1, <2>2
<1>4. PendingOfStep'
  BY <1>a, <1>3 DEF PendingOfStep
<1>5. LiveScore'
  BY <1>a, <1>1, <1>3 DEF LiveScore, Sound
<1> QED BY <1>4, <1>5, <1>a, SavedScoreKept DEF ScoreInv

\* What a step collected is consumed at its end, whatever the schedule.
LEMMA CollectedIsConsumed ==
  ASSUME TypeInv, Collects(config, step)
  PROVE  /\ RefreshesAfter(config, step)
         /\ actor.pending # << >> => ConsumesPending(actor, config)
         /\ config.strategy # "random"
<1>1. /\ config \in ConfigSpace
      /\ config.resample => config.strategy # "top_relative_activation"
  BY RecipeFacts DEF TypeInv
<1>2. /\ UpdateDue(config, step) /\ config.strategy # "random"
      /\ NeedsForwardScore(config.method)
  BY DEF Collects
<1>3. config.resample => UsesSoftTop(config.strategy)
  BY <1>1, <1>2 DEF ConfigSpace, Strategies, UsesSoftTop
<1> QED BY <1>2, <1>3 DEF RefreshesAfter, ConsumesPending

LEMMA RefreshKeepsScore ==
  ASSUME TypeInv, ScoreInv, RefreshAfterStep
  PROVE  ScoreInv'
<1>a. /\ config' = config /\ dirs' = dirs /\ step' = step
      /\ pc = "refresh" /\ pc' \in {"save", "failed"}
      /\ actor \in Controller /\ config \in ConfigSpace
  BY RecipeFacts DEF RefreshAfterStep, Raise, disk, TypeInv, TypeOK
<1>b. step \in Nat \ {0}
  BY <1>a, StepHasDirectory DEF InLoop, Pcs, Steps
<1> DEFINE collected == Collects(config, step) /\ UpdatesActor(config, step)
<1>1. /\ ScoredSteps = step - 1 /\ ObservedSteps = step
      /\ pc' = "save" => ScoredSteps' = step /\ ObservedSteps' = step
  BY <1>a DEF ScoredSteps, ObservedSteps, Saving, Unobserved
<1>2. /\ actor.pending = IF collected THEN <<step>> ELSE << >>
      /\ Sound(config, actor, step - 1, step)
  BY <1>a, <1>1 DEF ScoreInv, PendingOfStep, LiveScore, InLoop, Pcs
<1>3. ~collected => Sound(config, actor, step, step)
  <2>1. ~collected => Due(config, step) = Due(config, step - 1)
    BY <1>b, DueNext
  <2> QED BY <1>2, <2>1 DEF Sound, ScoredUpTo
<1>4. CASE pc' = "failed"
  <2>1. actor' = actor
    BY <1>4 DEF RefreshAfterStep
  <2>2. PendingOfStep' /\ LiveScore'
    BY <1>4, <1>a, <2>1 DEF ScoreInv, PendingOfStep, LiveScore, InLoop
  <2> QED BY <2>2, <1>a, SavedScoreKept DEF ScoreInv
<1>5. CASE pc' = "save"
  <2>1. actor'.pending = << >> /\ Sound(config, actor', step, step)
    <3>1. CASE ~RefreshesAfter(config, step)
      <4>1. actor' = actor /\ ~collected
        BY <3>1, CollectedIsConsumed DEF RefreshAfterStep
      <4> QED BY <1>2, <1>3, <4>1
    <3>2. CASE RefreshesAfter(config, step)
      <4>1. actor' = RefreshMask(actor, config) /\ ~RefreshFails(actor, config)
        BY <1>5, <3>2 DEF RefreshAfterStep, RefreshMlpMask, Raise
      <4>2. actor'.pending = << >>
        BY <4>1 DEF RefreshMask
      <4>3. CASE collected
        <5>1. actor.pending = <<step>> /\ actor.pending # << >>
          BY <1>2, <4>3
        <5>2. ConsumesPending(actor, config) /\ config.strategy # "random"
          BY <4>3, <5>1, CollectedIsConsumed
        <5>3. Sound(config, RefreshMask(actor, config), step, step)
          BY <1>a, <1>b, <1>2, <4>3, <5>1, <5>2, RefreshConsumes
        <5> QED BY <4>1, <4>2, <5>3
      <4>4. CASE ~collected
        <5>1. ~ConsumesPending(actor, config)
          BY <1>2, <4>1, <4>4 DEF RefreshFails
        <5> QED BY <1>a, <1>3, <4>1, <4>2, <4>4, <5>1, RefreshIdles
      <4> QED BY <4>3, <4>4
    <3> QED BY <3>1, <3>2
  <2>2. PendingOfStep'
    BY <1>5, <2>1 DEF PendingOfStep
  <2>3. LiveScore'
    BY <1>a, <1>1, <1>5, <2>1 DEF LiveScore, Sound
  <2> QED BY <2>2, <2>3, <1>a, SavedScoreKept DEF ScoreInv
<1> QED BY <1>a, <1>4, <1>5

\* The mask file gets what the live controller knows.
LEMMA SaveKeepsScore ==
  ASSUME TypeInv, ScoreInv, SkipSave \/ SaveShards \/ SaveMaskFile \/ WriteTracker
  PROVE  ScoreInv'
<1>a. /\ config' = config /\ step' = step /\ actor' = actor
      /\ pc \in Saving /\ pc' \in Saving /\ pc \in InLoop /\ pc' \in InLoop
      /\ pc # "refresh" /\ pc' # "refresh"
      /\ dirs \in [Steps -> Directory]
  BY DEF SkipSave, SaveShards, SaveMaskFile, WriteTracker, Goto, worker,
         Saving, InLoop, Pcs, TypeInv, TypeOK
<1>b. step \in Steps
  BY <1>a, StepHasDirectory
<1>1. /\ ScoredSteps = step /\ ScoredSteps' = step
      /\ ObservedSteps = step /\ ObservedSteps' = step
  BY <1>a DEF ScoredSteps, ObservedSteps, Saving, Unobserved
<1>2. Sound(config, actor, step, step)
  BY <1>a, <1>1 DEF ScoreInv, LiveScore
<1>3. PendingOfStep' /\ LiveScore'
  BY <1>a, <1>1, <1>2 DEF ScoreInv, PendingOfStep, LiveScore
<1>4. SavedScore'
  <2>1. CASE SkipSave \/ WriteTracker
    BY <1>a, <2>1, SavedScoreKept DEF SkipSave, WriteTracker, disk, ScoreInv
  <2>2. CASE SaveShards
    <3>1. \A s \in Steps : dirs'[s].mask = dirs[s].mask
      BY <1>a, <1>b, <2>2 DEF SaveShards, Directory
    <3>2. SUFFICES ASSUME NEW s \in Steps, dirs'[s].mask.by # 0
                   PROVE  Sound(config', dirs'[s].mask.state, s, s)
      BY DEF SavedScore
    <3> QED BY <1>a, <3>1, <3>2 DEF ScoreInv, SavedScore
  <2>3. CASE SaveMaskFile
    <3>1. dirs' = [dirs EXCEPT ![step].mask = [by |-> Process, state |-> StateDict(actor)]]
      BY <2>3 DEF SaveMaskFile
    <3>2. /\ dirs'[step].mask.state = StateDict(actor)
          /\ \A s \in Steps : s # step => dirs'[s] = dirs[s]
      BY <1>a, <1>b, <3>1, WritesOnePart
    <3>3. Sound(config, StateDict(actor), step, step)
      <4> DEFINE d == StateDict(actor)
      <4>1. /\ actor.version = d.version /\ actor.contrast = d.contrast
            /\ actor.baseline = d.baseline /\ actor.score = d.score
            /\ actor.gaps = d.gaps
        BY DEF StateDict
      <4> HIDE DEF d
      <4>2. Sound(config, d, step, step)
        BY <1>2, <4>1, SameEvidence
      <4> QED BY <4>2 DEF d
    <3>4. SUFFICES ASSUME NEW s \in Steps, dirs'[s].mask.by # 0
                   PROVE  Sound(config', dirs'[s].mask.state, s, s)
      BY DEF SavedScore
    <3>5. CASE s = step
      BY <1>a, <3>2, <3>3, <3>5
    <3>6. CASE s # step
      BY <1>a, <3>2, <3>4, <3>6 DEF ScoreInv, SavedScore
    <3> QED BY <3>5, <3>6
  <2> QED BY <2>1, <2>2, <2>3
<1> QED BY <1>3, <1>4 DEF ScoreInv

LEMMA EndKeepsScore ==
  ASSUME TypeInv, ScoreInv, EndStep \/ Restart
  PROVE  ScoreInv'
<1>a. config' = config /\ dirs' = dirs /\ step \in Nat
  BY DEF EndStep, Restart, disk, TypeInv, TypeOK
<1>1. CASE EndStep
  <2>1. /\ pc = "end" /\ pc' \in {"done", "resample"}
        /\ actor' = actor /\ step' = step + 1 /\ step' - 1 = step
    BY <1>1, <1>a DEF EndStep, worker
  <2>2. /\ ScoredSteps = step /\ ObservedSteps = step /\ pc \in InLoop
        /\ pc' = "resample" => ScoredSteps' = step /\ ObservedSteps' = step
        /\ pc' \in InLoop => pc' = "resample"
    BY <2>1 DEF ScoredSteps, ObservedSteps, Saving, Unobserved, InLoop, Pcs
  <2>3. actor.pending = << >> /\ Sound(config, actor, step, step)
    BY <2>1, <2>2 DEF ScoreInv, PendingOfStep, LiveScore
  <2>4. PendingOfStep'
    BY <2>1, <2>2, <2>3 DEF PendingOfStep
  <2>5. LiveScore'
    BY <1>a, <2>1, <2>2, <2>3 DEF LiveScore, Sound
  <2> QED BY <1>a, <2>4, <2>5, SavedScoreKept DEF ScoreInv
<1>2. CASE Restart
  <2>1. pc' = "boot" /\ actor' = NewController
    BY <1>2 DEF Restart
  <2>2. Sound(config, NewController, 0, 0)
    BY NothingScored
  <2>3. PendingOfStep' /\ LiveScore'
    BY <1>a, <2>1, <2>2 DEF PendingOfStep, LiveScore, Sound, InLoop
  <2> QED BY <1>a, <2>3, SavedScoreKept DEF ScoreInv
<1> QED BY <1>1, <1>2

LEMMA ScoreInvNext ==
  ASSUME TypeInv, MaskInv, SavedInv, ScoreInv, [Next]_vars
  PROVE  ScoreInv'
<1>1. CASE Terminated \/ UNCHANGED vars
  <2>1. UNCHANGED vars
    BY <1>1 DEF Terminated
  <2> QED BY <2>1
      DEF vars, driver, worker, disk, ScoreInv, PendingOfStep, LiveScore, SavedScore,
          ScoredSteps, ObservedSteps
<1>2. CASE Fit \/ Restart
  BY <1>2, LoadKeepsScore, ResampleKeepsScore, ForwardsKeepScore, ObserveKeepsScore,
     UpdateKeepsScore, RefreshKeepsScore, SaveKeepsScore, EndKeepsScore DEF Fit
<1> QED BY <1>1, <1>2 DEF Next

LEMMA ScoreInvAlways == Spec => []ScoreInv
<1>1. TypeInv /\ SavedInv /\ [Next]_vars => SavedInv'
  BY SavedInvNext
<1>2. TypeInv /\ MaskInv /\ SavedInv /\ ScoreInv /\ [Next]_vars => ScoreInv'
  BY ScoreInvNext
<1> QED BY <1>1, <1>2, TypeInvInit, TypeInvNext, MaskInvInit, MaskInvNext,
           SavedInvInit, ScoreInvInit, PTL DEF Spec

(***************************************************************************)
(* After the refresh of a step the score state holds every batch due so    *)
(* far, once and in order: nothing is scored again after a resume, nothing *)
(* is lost between refresh and checkpoint.                                 *)
(***************************************************************************)
THEOREM ScoredExactlyOnceHolds == Spec => []ScoredExactlyOnce
<1>1. ScoreInv => ScoredExactlyOnce
  <2>1. SUFFICES ASSUME ScoreInv, pc \in Saving,
                        NeedsForwardScore(config.method), config.strategy # "random"
                 PROVE  Lists(Folded(actor), Due(config, step))
    BY DEF ScoredExactlyOnce, Saving, Lists, Due
  <2>2. ScoredSteps = step /\ pc \in InLoop
    BY <2>1 DEF ScoredSteps, Saving, InLoop, Pcs
  <2>3. Lists(FoldedOf(config, actor), Due(config, step))
    BY <2>1, <2>2 DEF ScoreInv, LiveScore, Sound, ScoredUpTo
  <2>4. FoldedOf(config, actor) = Folded(actor)
    BY DEF FoldedOf, Folded
  <2> QED BY <2>3, <2>4
<1> QED BY <1>1, ScoreInvAlways, PTL

(***************************************************************************)
(* A relative score is always measured against batches of earlier steps,   *)
(* and never against an empty baseline.                                    *)
(***************************************************************************)
THEOREM ScoredAgainstThePastHolds == Spec => []ScoredAgainstThePast
<1>1. TypeInv /\ ScoreInv => ScoredAgainstThePast
  <2>1. SUFFICES ASSUME TypeInv, ScoreInv, config.method = "relative",
                        NEW i \in DOMAIN actor.score
                 PROVE  /\ actor.score[i].against > 0
                        /\ \A j \in 1..actor.score[i].against,
                              k \in DOMAIN actor.score[i].batch :
                             actor.baseline[j] < actor.score[i].batch[k]
    BY DEF ScoredAgainstThePast
  <2>2. /\ actor.score[i].against \in 1..Len(actor.baseline)
        /\ \A j \in 1..actor.score[i].against, k \in DOMAIN actor.score[i].batch :
             actor.baseline[j] < actor.score[i].batch[k]
    BY <2>1 DEF ScoreInv, LiveScore, AgainstThePast
  <2>3. Len(actor.baseline) \in Nat
    BY <2>1 DEF TypeInv, TypeOK, Controller
  <2> QED BY <2>2, <2>3
<1> QED BY <1>1, ScoreInvAlways, TypeInvInit, TypeInvNext, PTL DEF Spec

(***************************************************************************)
(* Every observed reward gap after the first is credited to the mask of    *)
(* the step it was observed at, across deaths and resumes.                 *)
(***************************************************************************)
THEOREM CausalPairingHolds == Spec => []CausalPairing
<1>1. TypeInv /\ ScoreInv => CausalPairing
  <2>1. SUFFICES ASSUME TypeInv, ScoreInv, config.method = "causal"
                 PROVE  /\ \A i \in DOMAIN actor.score :
                             actor.score[i].batch = <<actor.score[i].against>>
                        /\ Len(actor.gaps) > 0 => Len(actor.score) = Len(actor.gaps) - 1
                        /\ Increasing(actor.gaps)
    BY DEF CausalPairing
  <2>2. Paired(config, actor)
    BY <2>1 DEF ScoreInv, LiveScore
  <2>3. actor.gaps \in Seq(Nat)
    BY <2>1 DEF TypeInv, TypeOK, Controller
  <2>4. Len(actor.gaps) > 0 => actor.gaps # << >>
    BY <2>3
  <2> QED BY <2>1, <2>2, <2>4 DEF Paired
<1> QED BY <1>1, ScoreInvAlways, TypeInvInit, TypeInvNext, PTL DEF Spec
=============================================================================

------------------------ MODULE DenoiseTraining_proofs ------------------------
(* Proofs about DenoiseTraining, for any pool, batch sizes, number of steps   *)
(* and number of deaths: the curriculum and the weights stay in step, in      *)
(* memory and in every checkpoint; the dataloader resumes in order; updates   *)
(* are on policy, and a sampled round measures every active problem.  Then   *)
(* of NoiseCurriculum, the controller it trains with, by itself.              *)
EXTENDS DenoiseTraining, NoiseCurriculum, FiniteSetTheorems, SequenceTheorems,
        WellFoundedInduction, TLAPS

Phases ==
  {"boot", "draw", "update", "dump", "feed", "save", "save_tracker", "save_state",
   "tail_save", "tail_save_tracker", "tail_save_state", "end"} \cup Ended

Shards == [by : Int, weights : Seq(Int), rounds : Int]
CurriculumType == [fed : Nat, active : SUBSET Problems]
States == [by : Int, saved : CurriculumType]
Directories == [shards : Shards, state : States, dump : BOOLEAN]

Types ==
  /\ config \in ConfigSpace
  /\ pc \in Phases
  /\ inner \in Int /\ drawn \in Int /\ rounds \in Int /\ crashes \in 0..MaxCrashes
  /\ weights \in Seq(Int)
  /\ curriculum \in CurriculumType
  /\ dirs \in [Steps -> Directories]

\* Every process may add one step to those it finds.
Bounded ==
  /\ tracker \in 0..(TotalSteps + crashes + 1)
  /\ pc = "boot" => tracker <= TotalSteps + crashes /\ drawn = 0 /\ curriculum.fed = 0
  /\ pc # "boot" => step \in 1..(TotalSteps + crashes + 1)

Saving == {"save_tracker", "tail_save_tracker", "save_state", "tail_save_state"}

\* A step is above the tracker until it is tracked.
Ahead ==
  /\ pc \in {"draw", "update", "dump", "feed", "save", "save_tracker", "tail_save",
             "tail_save_tracker"} => tracker < step
  /\ pc \in {"save_state", "tail_save_state"} => tracker = step
  /\ pc = "end" => tracker <= step

\* The curriculum is written last, and only into tracked directories; while a
\* step is being saved its shards are those of the live weights.
WrittenLast ==
  /\ \A s \in Steps : dirs[s].state.by # 0 => s <= tracker
  /\ pc \in Saving => dirs[step].shards.by = Process /\ dirs[step].shards.rounds = rounds

\* Without dynamic sampling the feedback of a round is given after its update.
Lag == IF ~config.dapo /\ pc \in {"dump", "feed"} THEN 1 ELSE 0

Fed ==
  /\ pc = "update" => config.dapo
  /\ config.v2 /\ pc \notin {"boot", "failed"} => curriculum.fed + Lag = rounds

InOrderOfSteps ==
  ~config.dapo /\ ~config.v2 =>
    /\ pc = "draw" => inner = drawn + 1 /\ inner <= step
    /\ pc \in {"dump", "feed", "save", "save_tracker", "save_state", "end"} =>
         inner = step /\ drawn = step

Inv == Types /\ Bounded /\ Ahead /\ WrittenLast /\ SavedTogether /\ Fed /\ InOrderOfSteps

-----------------------------------------------------------------------------
LEMMA StepIsDirectory ==
  ASSUME Types, Bounded
  PROVE  /\ pc # "boot" => step \in Steps
         /\ tracker \in {0} \cup Steps
BY StepsAssumption DEF Types, Bounded, Steps

\* Writing one part of a directory leaves the rest alone.
LEMMA PartWritten ==
  ASSUME Types, step \in Steps
  PROVE  /\ \A sh \in Shards : dirs' = [dirs EXCEPT ![step].shards = sh] =>
              /\ dirs' \in [Steps -> Directories]
              /\ dirs'[step].shards = sh /\ dirs'[step].state = dirs[step].state
              /\ \A s \in Steps : s # step => dirs'[s] = dirs[s]
         /\ \A st \in States : dirs' = [dirs EXCEPT ![step].state = st] =>
              /\ dirs' \in [Steps -> Directories]
              /\ dirs'[step].state = st /\ dirs'[step].shards = dirs[step].shards
              /\ \A s \in Steps : s # step => dirs'[s] = dirs[s]
         /\ dirs' = [dirs EXCEPT ![step].dump = TRUE] =>
              /\ dirs' \in [Steps -> Directories]
              /\ \A s \in Steps : /\ dirs'[s].shards = dirs[s].shards
                                  /\ dirs'[s].state = dirs[s].state
<1>1. dirs \in [Steps -> Directories] /\ dirs[step] \in Directories
  BY DEF Types
<1>2. ASSUME NEW sh \in Shards, dirs' = [dirs EXCEPT ![step].shards = sh]
      PROVE  /\ dirs' \in [Steps -> Directories]
             /\ dirs'[step].shards = sh /\ dirs'[step].state = dirs[step].state
             /\ \A s \in Steps : s # step => dirs'[s] = dirs[s]
  <2> DEFINE d == [dirs[step] EXCEPT !.shards = sh]
  <2>1. d \in Directories /\ d.shards = sh /\ d.state = dirs[step].state
    BY <1>1 DEF Directories
  <2>2. dirs' = [dirs EXCEPT ![step] = d]
    BY <1>2
  <2> HIDE DEF d
  <2> QED BY <1>1, <2>1, <2>2
<1>3. ASSUME NEW st \in States, dirs' = [dirs EXCEPT ![step].state = st]
      PROVE  /\ dirs' \in [Steps -> Directories]
             /\ dirs'[step].state = st /\ dirs'[step].shards = dirs[step].shards
             /\ \A s \in Steps : s # step => dirs'[s] = dirs[s]
  <2> DEFINE d == [dirs[step] EXCEPT !.state = st]
  <2>1. d \in Directories /\ d.state = st /\ d.shards = dirs[step].shards
    BY <1>1 DEF Directories
  <2>2. dirs' = [dirs EXCEPT ![step] = d]
    BY <1>3
  <2> HIDE DEF d
  <2> QED BY <1>1, <2>1, <2>2
<1>4. ASSUME dirs' = [dirs EXCEPT ![step].dump = TRUE]
      PROVE  /\ dirs' \in [Steps -> Directories]
             /\ \A s \in Steps : dirs'[s].shards = dirs[s].shards /\ dirs'[s].state = dirs[s].state
  <2> DEFINE d == [dirs[step] EXCEPT !.dump = TRUE]
  <2>1. d \in Directories /\ d.shards = dirs[step].shards /\ d.state = dirs[step].state
    BY <1>1 DEF Directories
  <2>2. dirs' = [dirs EXCEPT ![step] = d]
    BY <1>4
  <2> HIDE DEF d
  <2> QED BY <1>1, <2>1, <2>2
<1> QED BY <1>2, <1>3, <1>4

\* Feedback is given to every active problem and counted once, or not at all.
LEMMA FeedCounts ==
  ASSUME Types, NEW measured, FeedCurriculum(measured)
  PROVE  /\ curriculum' \in CurriculumType
         /\ Unmeasured(measured) => curriculum'.fed = curriculum.fed
         /\ ~Unmeasured(measured) => curriculum'.fed = curriculum.fed + 1
<1>1. CASE Unmeasured(measured)
  BY <1>1 DEF FeedCurriculum, Types
<1>2. CASE ~Unmeasured(measured)
  <2>1. PICK active \in Batches :
          curriculum' = [fed |-> curriculum.fed + 1, active |-> active]
    BY <1>2 DEF FeedCurriculum
  <2>2. active \in SUBSET Problems
    BY DEF Batches, kSubset
  <2>3. curriculum.fed \in Nat
    BY DEF Types, CurriculumType
  <2> QED BY <1>2, <2>1, <2>2, <2>3 DEF CurriculumType
<1> QED BY <1>1, <1>2

-----------------------------------------------------------------------------
(* The steps.  What a step does not touch keeps its part of the invariant.    *)
Kept == UNCHANGED <<config, step, crashes, disk>>

LEMMA DiskKept ==
  ASSUME Inv, Kept, pc' \in Phases \ (Saving \cup {"boot"}), pc # "boot",
         pc' = "end" => tracker <= step,
         pc' \in {"draw", "update", "dump", "feed", "save", "tail_save"} => tracker < step
  PROVE  Bounded' /\ Ahead' /\ WrittenLast' /\ SavedTogether'
<1>1. Bounded' /\ Ahead'
  BY DEF Inv, Kept, disk, Bounded, Ahead, Saving
<1>2. WrittenLast' /\ SavedTogether'
  BY DEF Inv, Kept, disk, WrittenLast, SavedTogether
<1> QED BY <1>1, <1>2

LEMMA LoadCheckpointStep ==
  ASSUME Inv, LoadCheckpoint
  PROVE  Inv'
<1>1. tracker \in {0} \cup Steps /\ pc = "boot"
  BY StepIsDirectory DEF Inv, LoadCheckpoint
<1>2. tracker # 0 => /\ dirs[tracker] \in Directories
                     /\ dirs[tracker].shards \in Shards /\ dirs[tracker].state \in States
  BY <1>1 DEF Inv, Types, Directories
<1>3. weights' \in Seq(Int) /\ rounds' \in Int /\ curriculum' \in CurriculumType
  BY <1>1, <1>2 DEF LoadCheckpoint, ResumedCurriculum, Shards, States, Inv, Types
<1>4. \/ pc' = "failed" /\ step' = tracker /\ tracker > 0 /\ UNCHANGED inner
      \/ pc' = "draw" /\ step' = tracker + 1 /\ ~StateRefused /\ inner' = ResumedInner + 1
  <2>1. CASE StateRefused
    BY <2>1 DEF LoadCheckpoint, StateRefused, Raise
  <2>2. CASE ~StateRefused
    BY <2>2 DEF LoadCheckpoint, ResumedStep
  <2> QED BY <2>1, <2>2
<1>5. UNCHANGED <<config, drawn, dirs, tracker, crashes>>
  BY DEF LoadCheckpoint, disk
<1>6. Types'
  BY <1>3, <1>4, <1>5 DEF Inv, Types, Phases, Ended, ResumedInner, Bounded
<1>7. Bounded' /\ Ahead'
  BY <1>1, <1>4, <1>5, StepsAssumption DEF Inv, Types, Bounded, Ahead
<1>8. WrittenLast' /\ SavedTogether'
  BY <1>4, <1>5 DEF Inv, WrittenLast, SavedTogether, Saving
<1>9. Fed'
  <2>1. ASSUME config.v2, pc' = "draw"
        PROVE  curriculum'.fed = rounds'
    <3>1. CASE tracker = 0
      BY <1>1, <3>1 DEF LoadCheckpoint, ResumedCurriculum, Inv, Bounded
    <3>2. CASE tracker # 0
      <4>1. tracker > 0 /\ dirs[tracker].state.by # 0
        BY <1>1, <1>4, <2>1, <3>2 DEF StateRefused, Steps
      <4>2. curriculum' = dirs[tracker].state.saved /\ rounds' = dirs[tracker].shards.rounds
        BY <1>4, <2>1, <4>1 DEF LoadCheckpoint, ResumedCurriculum
      <4> QED BY <3>2, <4>1, <4>2 DEF Inv, SavedTogether
    <3> QED BY <3>1, <3>2
  <2>2. pc' = "draw" => curriculum'.fed \in Int
    BY <1>3 DEF CurriculumType
  <2> QED BY <1>3, <1>4, <1>5, <2>1, <2>2 DEF Fed, Lag
<1>10. InOrderOfSteps'
  BY <1>1, <1>4, <1>5 DEF Inv, Bounded, InOrderOfSteps, ResumedInner
<1> QED BY <1>6, <1>7, <1>8, <1>9, <1>10 DEF Inv

LEMMA SkipBatchStep ==
  ASSUME Inv, SkipBatch
  PROVE  Inv'
<1>1. Kept /\ pc = "draw" /\ pc' = "draw" /\ tracker < step
  BY DEF Inv, Ahead, SkipBatch, Kept
<1>2. Types'
  BY DEF Inv, Types, SkipBatch, disk
<1>3. Bounded' /\ Ahead' /\ WrittenLast' /\ SavedTogether'
  BY <1>1, DiskKept DEF Saving, Phases
<1>4. Fed' /\ InOrderOfSteps'
  BY <1>1 DEF Inv, Types, Bounded, SkipBatch, Fed, Lag, InOrderOfSteps
<1> QED BY <1>2, <1>3, <1>4 DEF Inv

LEMMA SampleRoundStep ==
  ASSUME Inv, SampleRound
  PROVE  Inv'
<1>1. /\ pc = "draw" /\ config.dapo /\ drawn' = drawn + 1 /\ rounds' = rounds + 1
      /\ UNCHANGED <<config, step, weights, crashes>> /\ Kept /\ tracker < step
  BY DEF Inv, Ahead, SampleRound, Kept
<1>2. /\ pc' \in {"draw", "update", "failed"}
      /\ curriculum' \in CurriculumType
      /\ config.v2 /\ pc' # "failed" => curriculum'.fed = curriculum.fed + 1
      /\ inner' \in {inner, inner + 1}
  <2> DEFINE Decides(batch, kept) ==
          IF config.v2 /\ Unmeasured(Feedback(batch, kept))
            THEN Raise("missing_accuracy") /\ UNCHANGED <<acc, curriculum, inner>>
            ELSE /\ IF config.v2 THEN FeedCurriculum(Feedback(batch, kept))
                                 ELSE UNCHANGED curriculum
                 /\ acc' = Accumulated(kept)
                 /\ IF Outcome(acc') = "cap"
                      THEN Raise("cap")
                      ELSE pc' = Outcome(acc') /\ UNCHANGED failure
                 /\ inner' = IF Outcome(acc') = "draw" THEN inner + 1 ELSE inner
  <2>0. PICK batch \in Drawn : \E kept \in SUBSET batch : Decides(batch, kept)
    BY DEF SampleRound
  <2>1. PICK kept \in SUBSET batch : Decides(batch, kept)
    BY <2>0
  <2>2. Outcome(acc') \in {"draw", "update", "cap"}
    BY DEF Outcome
  <2>3. CASE config.v2 /\ Unmeasured(Feedback(batch, kept))
    BY <2>1, <2>3 DEF Raise, Inv, Types
  <2>4. CASE ~(config.v2 /\ Unmeasured(Feedback(batch, kept)))
    <3>1. pc' \in {"draw", "update", "failed"} /\ inner' \in {inner, inner + 1}
      BY <2>1, <2>2, <2>4 DEF Raise
    <3>2. CASE config.v2
      BY <2>1, <2>4, <3>1, <3>2, FeedCounts DEF Inv
    <3>3. CASE ~config.v2
      BY <2>1, <2>4, <3>1, <3>3 DEF Inv, Types
    <3> QED BY <3>2, <3>3
  <2> QED BY <2>3, <2>4
<1>3. Types'
  BY <1>1, <1>2 DEF Inv, Types, Kept, disk, Phases, Ended
<1>4. Bounded' /\ Ahead' /\ WrittenLast' /\ SavedTogether'
  BY <1>1, <1>2, DiskKept DEF Saving, Phases, Ended
<1>5. Fed' /\ InOrderOfSteps'
  BY <1>1, <1>2 DEF Inv, Types, CurriculumType, Fed, Lag, InOrderOfSteps
<1> QED BY <1>3, <1>4, <1>5 DEF Inv

LEMMA UpdateStep ==
  ASSUME Inv, UpdateFromAccumulated \/ TrainBatchStep
  PROVE  Inv'
<1>1. /\ pc' = "dump" /\ Kept /\ tracker < step /\ pc # "boot" /\ step \in Int
      /\ weights' = Append(weights, step) /\ UNCHANGED <<inner, curriculum>>
  BY StepsAssumption
  DEF Inv, Types, Ahead, Bounded, UpdateFromAccumulated, TrainBatchStep, Kept, Goto, disk
<1>2. /\ UpdateFromAccumulated =>
           pc = "update" /\ config.dapo /\ UNCHANGED <<drawn, rounds>>
      /\ TrainBatchStep =>
           /\ pc = "draw" /\ ~config.dapo /\ inner >= step
           /\ drawn' = drawn + 1 /\ rounds' = rounds + 1
  BY DEF Inv, Fed, UpdateFromAccumulated, TrainBatchStep, Goto
<1>3. Types'
  BY <1>1, <1>2, AppendProperties DEF Inv, Types, Kept, disk, Phases
<1>4. Bounded' /\ Ahead' /\ WrittenLast' /\ SavedTogether'
  BY <1>1, DiskKept DEF Saving, Phases
<1>5. Fed' /\ InOrderOfSteps'
  BY <1>1, <1>2 DEF Inv, Types, CurriculumType, Kept, Fed, Lag, InOrderOfSteps
<1> QED BY <1>3, <1>4, <1>5 DEF Inv

LEMMA DumpRolloutStep ==
  ASSUME Inv, DumpRollout
  PROVE  Inv'
<1>1. /\ pc = "dump" /\ pc' = "feed" /\ tracker < step /\ step \in Steps
      /\ UNCHANGED <<config, step, inner, drawn, curriculum, weights, tracker, rounds, crashes>>
  BY StepIsDirectory DEF Inv, Ahead, DumpRollout, Goto
<1>2. /\ dirs' \in [Steps -> Directories]
      /\ \A s \in Steps : dirs'[s].shards = dirs[s].shards /\ dirs'[s].state = dirs[s].state
  BY <1>1, PartWritten DEF Inv, Types, DumpRollout
<1>3. Types' /\ Bounded' /\ Ahead'
  BY <1>1, <1>2 DEF Inv, Types, Phases, Bounded, Ahead
<1>4. WrittenLast'
  BY <1>1, <1>2 DEF Inv, WrittenLast, Saving
<1>5. SavedTogether'
  BY <1>1, <1>2, StepIsDirectory DEF Inv, SavedTogether
<1>6. Fed' /\ InOrderOfSteps'
  BY <1>1 DEF Inv, Fed, Lag, InOrderOfSteps
<1> QED BY <1>3, <1>4, <1>5, <1>6 DEF Inv

LEMMA FeedAfterUpdateStep ==
  ASSUME Inv, FeedAfterUpdate
  PROVE  Inv'
<1>1. Kept /\ pc = "feed" /\ tracker < step /\ UNCHANGED <<inner, drawn, weights, rounds>>
  BY DEF Inv, Ahead, FeedAfterUpdate, Kept
<1>2. /\ pc' \in {"save", "failed"} /\ curriculum' \in CurriculumType
      /\ config.v2 /\ pc' # "failed" => curriculum'.fed = curriculum.fed + Lag
  <2> DEFINE measured == {update[i].problem : i \in DOMAIN update}
  <2>1. CASE FeedsAfterUpdate
    <3>1. FeedCurriculum(measured)
          /\ IF Unmeasured(measured) THEN Raise("missing_accuracy") ELSE pc' = "save"
      BY <2>1 DEF FeedAfterUpdate
    <3> HIDE DEF measured
    <3>2. Lag = 1
      BY <1>1, <2>1 DEF FeedsAfterUpdate, Lag
    <3> QED BY <3>1, <3>2, FeedCounts DEF Inv, Raise
  <2>2. CASE ~FeedsAfterUpdate
    <3>1. config.v2 => Lag = 0
      BY <2>2 DEF FeedsAfterUpdate, Lag, Inv, Types, ConfigSpace
    <3> QED BY <2>2, <3>1 DEF FeedAfterUpdate, Inv, Types, CurriculumType
  <2> QED BY <2>1, <2>2
<1>3. Types'
  BY <1>1, <1>2 DEF Inv, Types, Kept, disk, Phases, Ended
<1>4. Bounded' /\ Ahead' /\ WrittenLast' /\ SavedTogether'
  BY <1>1, <1>2, DiskKept DEF Saving, Phases, Ended
<1>5. Lag' = 0
  BY <1>2 DEF Lag
<1>6. Fed' /\ InOrderOfSteps'
  BY <1>1, <1>2, <1>5 DEF Inv, Types, CurriculumType, Kept, Fed, InOrderOfSteps
<1> QED BY <1>3, <1>4, <1>6 DEF Inv

LEMMA SkipSaveStep ==
  ASSUME Inv, SkipSave
  PROVE  Inv'
<1>1. Kept /\ pc = "save" /\ pc' = "end" /\ tracker < step
  BY DEF Inv, Ahead, SkipSave, Goto, Kept
<1>2. tracker <= step
  BY <1>1, StepsAssumption DEF Inv, Types, Bounded
<1>3. Types'
  BY <1>1 DEF Inv, Types, SkipSave, disk, Phases
<1>4. Bounded' /\ Ahead' /\ WrittenLast' /\ SavedTogether'
  BY <1>1, <1>2, DiskKept DEF Saving, Phases
<1>5. Fed' /\ InOrderOfSteps'
  BY <1>1 DEF Inv, SkipSave, Fed, Lag, InOrderOfSteps
<1> QED BY <1>3, <1>4, <1>5 DEF Inv

\* The shards go to a directory that is not tracked and has no curriculum yet.
LEMMA SaveShardsStep ==
  ASSUME Inv, SaveShards
  PROVE  Inv'
<1> DEFINE written == [by |-> Process, weights |-> weights, rounds |-> rounds]
<1>1. /\ \/ pc = "save" /\ pc' = "save_tracker"
         \/ pc = "tail_save" /\ pc' = "tail_save_tracker"
      /\ dirs' = [dirs EXCEPT ![step].shards = written]
      /\ UNCHANGED <<config, step, inner, drawn, curriculum, weights, tracker, rounds, crashes>>
  BY DEF SaveShards, Goto
<1>2. step \in Steps /\ tracker \in {0} \cup Steps /\ tracker < step
  BY <1>1, StepIsDirectory DEF Inv, Ahead
<1>3. written \in Shards /\ written.by = Process /\ written.rounds = rounds
  BY DEF Inv, Types, Shards, Process
<1> HIDE DEF written
<1>4. /\ dirs' \in [Steps -> Directories]
      /\ dirs'[step].shards = written /\ dirs'[step].state = dirs[step].state
      /\ \A s \in Steps : s # step => dirs'[s] = dirs[s]
  BY <1>1, <1>2, <1>3, PartWritten DEF Inv
<1>5. Types' /\ Bounded' /\ Ahead'
  BY <1>1, <1>4 DEF Inv, Types, Phases, Bounded, Ahead
<1>6. WrittenLast'
  BY <1>1, <1>2, <1>3, <1>4 DEF Inv, WrittenLast, Process
<1>7. SavedTogether'
  <2>1. tracker # 0 => tracker \in Steps /\ tracker # step
    BY <1>2 DEF Steps
  <2> QED BY <1>1, <1>4, <2>1 DEF Inv, SavedTogether
<1>8. Fed' /\ InOrderOfSteps'
  BY <1>1 DEF Inv, Fed, Lag, InOrderOfSteps
<1> QED BY <1>5, <1>6, <1>7, <1>8 DEF Inv

LEMMA WriteTrackerStep ==
  ASSUME Inv, WriteTracker
  PROVE  Inv'
<1>1. /\ \/ pc = "save_tracker" /\ pc' = "save_state"
         \/ pc = "tail_save_tracker" /\ pc' = "tail_save_state"
      /\ tracker' = step
      /\ UNCHANGED <<config, step, inner, drawn, curriculum, weights, dirs, rounds, crashes>>
  BY DEF WriteTracker, Goto
<1>2. step \in Steps /\ tracker < step /\ step \in Int /\ tracker \in Int
  BY <1>1, StepIsDirectory, StepsAssumption DEF Inv, Types, Ahead, Bounded
<1>3. dirs[step].state.by = 0
  BY <1>2 DEF Inv, WrittenLast
<1>4. Types' /\ Bounded' /\ Ahead'
  BY <1>1, StepsAssumption DEF Inv, Types, Phases, Bounded, Ahead
<1>5. WrittenLast'
  <2>1. ASSUME NEW s \in Steps, dirs[s].state.by # 0
        PROVE  s <= step
    BY <1>2, <2>1 DEF Inv, WrittenLast, Steps
  <2> QED BY <1>1, <2>1 DEF Inv, WrittenLast, Process, Saving
<1>6. SavedTogether'
  BY <1>1, <1>3 DEF SavedTogether
<1>7. Fed' /\ InOrderOfSteps'
  BY <1>1 DEF Inv, Fed, Lag, InOrderOfSteps
<1> QED BY <1>4, <1>5, <1>6, <1>7 DEF Inv

\* The curriculum joins the shards this process has written for this step.
LEMMA SaveStateStep ==
  ASSUME Inv, SaveState
  PROVE  Inv'
<1>1. /\ \/ pc = "save_state" /\ pc' = "end"
         \/ pc = "tail_save_state" /\ pc' = "done"
      /\ UNCHANGED <<config, step, inner, drawn, curriculum, weights, tracker, rounds, crashes>>
  BY DEF SaveState, Goto
<1>2. step \in Steps /\ tracker = step /\ step \in Int
  BY <1>1, StepIsDirectory, StepsAssumption DEF Inv, Types, Ahead, Bounded
<1>3. Bounded' /\ Ahead'
  BY <1>1, <1>2 DEF Inv, Bounded, Ahead
<1>4. Fed' /\ InOrderOfSteps'
  BY <1>1 DEF Inv, Fed, Lag, InOrderOfSteps
<1>5. CASE ~config.v2
  <2>1. dirs' = dirs
    BY <1>5 DEF SaveState
  <2>2. Types' /\ WrittenLast' /\ SavedTogether'
    BY <1>1, <2>1 DEF Inv, Types, Phases, Ended, WrittenLast, SavedTogether, Saving
  <2> QED BY <1>3, <1>4, <2>2 DEF Inv
<1>6. CASE config.v2
  <2> DEFINE written == [by |-> Process, saved |-> curriculum]
  <2>1. dirs' = [dirs EXCEPT ![step].state = written]
    BY <1>6 DEF SaveState
  <2>2. written \in States /\ written.by = Process /\ written.saved = curriculum
    BY DEF Inv, Types, States, Process
  <2> HIDE DEF written
  <2>3. /\ dirs' \in [Steps -> Directories]
        /\ dirs'[step].state = written /\ dirs'[step].shards = dirs[step].shards
        /\ \A s \in Steps : s # step => dirs'[s] = dirs[s]
    BY <1>2, <2>1, <2>2, PartWritten DEF Inv
  <2>4. Types'
    BY <1>1, <2>3 DEF Inv, Types, Phases, Ended
  <2>5. WrittenLast'
    BY <1>1, <1>2, <2>3 DEF Inv, WrittenLast, Saving
  <2>6. dirs[step].shards.by = Process /\ dirs[step].shards.rounds = rounds
    BY <1>1 DEF Inv, WrittenLast, Saving
  <2>7. curriculum.fed = rounds
    BY <1>1, <1>6 DEF Inv, Types, CurriculumType, Fed, Lag
  <2>8. SavedTogether'
    BY <1>1, <1>2, <2>2, <2>3, <2>6, <2>7 DEF SavedTogether
  <2> QED BY <1>3, <1>4, <2>4, <2>5, <2>8 DEF Inv
<1> QED BY <1>5, <1>6

LEMMA EndStepStep ==
  ASSUME Inv, EndStep
  PROVE  Inv'
<1>1. /\ pc = "end" /\ tracker <= step
      /\ UNCHANGED <<config, drawn, curriculum, weights, dirs, tracker, rounds, crashes>>
  BY DEF Inv, Ahead, EndStep, disk
<1>2. \/ pc' = "done" /\ UNCHANGED <<step, inner>>
      \/ pc' = "draw" /\ step < TotalSteps /\ step' = step + 1 /\ inner' = inner + 1
  BY <1>1, StepsAssumption DEF EndStep, LeavesLoop, IsLastStep, Inv, Types, Bounded
<1>3. Types' /\ Bounded' /\ Ahead'
  BY <1>1, <1>2, StepsAssumption DEF Inv, Types, Phases, Ended, Bounded, Ahead
<1>4. WrittenLast' /\ SavedTogether'
  BY <1>1, <1>2 DEF Inv, WrittenLast, SavedTogether, Saving
<1>5. Fed' /\ InOrderOfSteps'
  BY <1>1, <1>2, StepsAssumption DEF Inv, Types, Bounded, Fed, Lag, InOrderOfSteps
<1> QED BY <1>3, <1>4, <1>5 DEF Inv

LEMMA ExhaustEpochsStep ==
  ASSUME Inv, ExhaustEpochs
  PROVE  Inv'
<1>1. Kept /\ pc = "draw" /\ pc' \in {"done", "tail_save"} /\ tracker < step
  BY DEF Inv, Ahead, ExhaustEpochs, Kept
<1>2. Types'
  BY <1>1 DEF Inv, Types, ExhaustEpochs, disk, Phases, Ended
<1>3. Bounded' /\ Ahead' /\ WrittenLast' /\ SavedTogether'
  BY <1>1, DiskKept DEF Saving, Phases, Ended
<1>4. Fed' /\ InOrderOfSteps'
  BY <1>1 DEF Inv, ExhaustEpochs, Fed, Lag, InOrderOfSteps
<1> QED BY <1>2, <1>3, <1>4 DEF Inv

LEMMA NewCurriculumType == NewCurriculum \in CurriculumType /\ NewCurriculum.fed = 0
BY DEF NewCurriculum, CurriculumType, FirstActive

LEMMA RestartStep ==
  ASSUME Inv, Restart
  PROVE  Inv'
<1>1. /\ pc # "boot" /\ pc' = "boot" /\ crashes < MaxCrashes /\ crashes' = crashes + 1
      /\ inner' = 0 /\ drawn' = 0 /\ rounds' = 0 /\ weights' = << >>
      /\ curriculum' = NewCurriculum
      /\ UNCHANGED <<config, dirs, tracker>>
  BY DEF Restart, disk
<1>2. Types'
  BY <1>1, NewCurriculumType, StepsAssumption DEF Inv, Types, Phases
<1>3. Bounded' /\ Ahead'
  BY <1>1, NewCurriculumType, StepsAssumption DEF Inv, Types, Bounded, Ahead
<1>4. WrittenLast' /\ SavedTogether' /\ Fed' /\ InOrderOfSteps'
  BY <1>1 DEF Inv, WrittenLast, SavedTogether, Saving, Fed, InOrderOfSteps
<1> QED BY <1>2, <1>3, <1>4 DEF Inv

LEMMA InitInv == Init => Inv
<1> SUFFICES ASSUME Init PROVE Inv
  OBVIOUS
<1>1. NoDirectory \in Directories /\ NoDirectory.state.by = 0
  BY NewCurriculumType DEF NoDirectory, Missing, MissingState, Directories, Shards, States
<1>2. dirs \in [Steps -> Directories] /\ \A s \in Steps : dirs[s].state.by = 0
  BY <1>1 DEF Init
<1>3. Types
  BY <1>2, NewCurriculumType, ConfigsAssumption, StepsAssumption DEF Init, Types, Phases
<1>4. Bounded /\ Ahead
  BY NewCurriculumType, StepsAssumption DEF Init, Bounded, Ahead
<1>5. WrittenLast /\ SavedTogether /\ Fed /\ InOrderOfSteps
  BY <1>2 DEF Init, WrittenLast, SavedTogether, Saving, Fed, InOrderOfSteps
<1> QED BY <1>3, <1>4, <1>5 DEF Inv

LEMMA InvStep ==
  ASSUME Inv, [Next]_vars
  PROVE  Inv'
<1>1. CASE Run
  BY <1>1, LoadCheckpointStep, SkipBatchStep, SampleRoundStep, UpdateStep, DumpRolloutStep,
     FeedAfterUpdateStep, SkipSaveStep, SaveShardsStep, WriteTrackerStep, SaveStateStep,
     EndStepStep, ExhaustEpochsStep DEF Run
<1>2. CASE Restart
  BY <1>2, RestartStep
<1>3. CASE UNCHANGED vars
  <2>1. Types' /\ Bounded' /\ Ahead'
    BY <1>3 DEF vars, driver, disk, Inv, Types, Bounded, Ahead
  <2>2. WrittenLast' /\ SavedTogether' /\ Fed' /\ InOrderOfSteps'
    BY <1>3 DEF vars, driver, disk, Inv, WrittenLast, SavedTogether, Process, Fed, Lag,
                InOrderOfSteps
  <2> QED BY <2>1, <2>2 DEF Inv
<1> QED BY <1>1, <1>2, <1>3 DEF Next, Terminated

LEMMA Invariance == Spec => []Inv
BY InitInv, InvStep, PTL DEF Spec

-----------------------------------------------------------------------------
\* The curriculum has been fed once for every round of the line of training the
\* weights belong to.
THEOREM FedOncePerRoundHolds == Spec => []FedOncePerRound
<1>1. Inv => FedOncePerRound
  BY DEF Inv, Types, CurriculumType, Fed, Lag, FedOncePerRound
<1> QED BY <1>1, Invariance, PTL

\* In the tracked directory shards and curriculum are of one process and one moment.
THEOREM SavedTogetherHolds == Spec => []SavedTogether
<1>1. Inv => SavedTogether
  BY DEF Inv
<1> QED BY <1>1, Invariance, PTL

\* Without dynamic sampling step n trains on the n-th batch, resumed or not.
THEOREM DataInOrderHolds == Spec => []DataInOrder
<1>1. Inv => DataInOrder
  BY DEF Inv, InOrderOfSteps, DataInOrder
<1> QED BY <1>1, Invariance, PTL

-----------------------------------------------------------------------------
(* Problems in pool order: the rank of a member is a bijection.               *)
Below(S, x) == {y \in S : y < x}

LEMMA Initial == \A n \in Nat : IsFiniteSet(0..(n - 1)) /\ Cardinality(0..(n - 1)) = n
BY FS_Interval

LEMMA Ranks ==
  ASSUME NEW S \in SUBSET Nat, IsFiniteSet(S)
  PROVE  LET m == Cardinality(S)
             rank == [x \in S |-> Cardinality(Below(S, x))]
         IN  /\ m \in Nat
             /\ rank \in Bijection(S, 0..(m - 1))
             /\ \A x, y \in S : x < y => rank[x] < rank[y]
<1> DEFINE m == Cardinality(S)
           rank == [x \in S |-> Cardinality(Below(S, x))]
<1>1. m \in Nat
  BY FS_CardinalityType
<1>2. ASSUME NEW x \in S
      PROVE  IsFiniteSet(Below(S, x)) /\ rank[x] \in 0..(m - 1)
  <2>1. IsFiniteSet(S \ {x}) /\ Cardinality(S \ {x}) = m - 1
    BY FS_RemoveElement
  <2>2. Below(S, x) \in SUBSET (S \ {x})
    BY DEF Below
  <2>3. /\ IsFiniteSet(Below(S, x)) /\ Cardinality(Below(S, x)) \in Nat
        /\ Cardinality(Below(S, x)) <= m - 1
    BY <2>1, <2>2, FS_Subset, FS_CardinalityType
  <2> QED BY <1>1, <2>3
<1>3. ASSUME NEW x \in S, NEW y \in S, x < y
      PROVE  rank[x] < rank[y]
  <2>0. \A z \in S : z < x => z < y /\ z # x
    BY <1>3
  <2>1. x \in Below(S, y) /\ Below(S, x) \in SUBSET (Below(S, y) \ {x})
    BY <1>3, <2>0 DEF Below
  <2>2. /\ IsFiniteSet(Below(S, y) \ {x})
        /\ Cardinality(Below(S, y) \ {x}) = Cardinality(Below(S, y)) - 1
    BY <1>2, <2>1, FS_RemoveElement
  <2>3. Cardinality(Below(S, x)) <= Cardinality(Below(S, y)) - 1
    BY <2>1, <2>2, FS_Subset
  <2> QED BY <1>2, <2>3
<1>4. rank \in Injection(S, 0..(m - 1))
  <2>1. rank \in [S -> 0..(m - 1)]
    BY <1>2
  <2>2. ASSUME NEW x \in S, NEW y \in S, rank[x] = rank[y]
        PROVE  x = y
    <3>1. ~(x < y) /\ ~(y < x)
      BY <1>2, <1>3, <2>2
    <3> QED BY <3>1
  <2> HIDE DEF rank
  <2> QED BY <2>1, <2>2 DEF Injection, IsInjective
<1>5. IsFiniteSet(0..(m - 1)) /\ Cardinality(0..(m - 1)) = m
  BY <1>1, Initial
<1>6. rank \in Surjection(S, 0..(m - 1))
  <2> HIDE DEF rank
  <2> QED BY <1>4, <1>5, FS_Injection
<1>7. rank \in Bijection(S, 0..(m - 1))
  BY <1>4, <1>6 DEF Bijection
<1> QED BY <1>1, <1>3, <1>7

LEMMA InOrderProperties ==
  ASSUME NEW S \in SUBSET Nat, IsFiniteSet(S)
  PROVE  /\ Cardinality(S) \in Nat
         /\ InOrder(S) \in [1..Cardinality(S) -> S]
         /\ \A i, j \in 1..Cardinality(S) : InOrder(S)[i] = InOrder(S)[j] => i = j
         /\ \A x \in S : \E i \in 1..Cardinality(S) : InOrder(S)[i] = x
<1> DEFINE m == Cardinality(S)
           rank == [x \in S |-> Cardinality(Below(S, x))]
           Increasing(f) == \A i, j \in DOMAIN f : i < j => f[i] < f[j]
           f == [i \in 1..m |-> CHOOSE x \in S : rank[x] = i - 1]
<1>1. /\ m \in Nat /\ rank \in Bijection(S, 0..(m - 1))
      /\ \A x, y \in S : x < y => rank[x] < rank[y]
  BY Ranks
<1>2. \A i \in 1..m : f[i] \in S /\ rank[f[i]] = i - 1
  <2>1. \A i \in 1..m : i - 1 \in 0..(m - 1)
    BY <1>1
  <2>2. \A t \in 0..(m - 1) : \E x \in S : rank[x] = t
    BY <1>1 DEF Bijection, Surjection
  <2> HIDE DEF rank
  <2> QED BY <2>1, <2>2
<1>3. f \in [1..m -> S] /\ Increasing(f)
  <2>1. ASSUME NEW i \in 1..m, NEW j \in 1..m, i < j
        PROVE  f[i] < f[j]
    <3> HIDE DEF f, rank
    <3> DEFINE x == f[i]
               y == f[j]
    <3>1. x \in S /\ y \in S /\ rank[x] = i - 1 /\ rank[y] = j - 1
      BY <1>2
    <3> HIDE DEF x, y
    <3>2. ~(y < x) /\ x # y
      BY <1>1, <2>1, <3>1
    <3>3. x \in Int /\ y \in Int
      BY <3>1
    <3>4. x < y
      BY <3>2, <3>3
    <3> QED BY <3>4 DEF x, y
  <2>2. f \in [1..m -> S]
    BY <1>2
  <2> HIDE DEF f
  <2> QED BY <2>1, <2>2
<1> HIDE DEF f
<1>4. InOrder(S) \in [1..m -> S] /\ Increasing(InOrder(S))
  <2>1. InOrder(S) = CHOOSE g \in [1..m -> S] : Increasing(g)
    BY DEF InOrder
  <2> HIDE DEF Increasing
  <2> QED BY <1>3, <2>1
<1> DEFINE g == InOrder(S)
<1> HIDE DEF g, rank
<1>5. g \in [1..m -> S] /\ \A i, j \in 1..m : i < j => g[i] < g[j]
  BY <1>4 DEF g
<1>6. \A i, j \in 1..m : g[i] = g[j] => i = j
  <2> SUFFICES ASSUME NEW i \in 1..m, NEW j \in 1..m, g[i] = g[j], i # j
               PROVE  FALSE
    OBVIOUS
  <2>1. g[i] \in Nat /\ g[j] \in Nat
    BY <1>5
  <2>2. i < j \/ j < i
    BY <1>1
  <2> QED BY <1>5, <2>1, <2>2
<1>7. g \in Surjection(1..m, S)
  <2>1. g \in Injection(1..m, S)
    BY <1>5, <1>6 DEF Injection, IsInjective
  <2>2. IsFiniteSet(1..m) /\ Cardinality(1..m) = m
    BY <1>1, FS_Interval
  <2> QED BY <2>1, <2>2, FS_Injection
<1> QED BY <1>1, <1>5, <1>6, <1>7 DEF g, Surjection

\* A batch is a set of problems of the size of a round.
LEMMA BatchProperties ==
  ASSUME NEW batch \in Batches
  PROVE  /\ batch \in SUBSET Nat /\ batch \in SUBSET Problems /\ IsFiniteSet(batch)
         /\ Cardinality(batch) = GenBatch /\ GenBatch \in Nat
<1>1. batch \in SUBSET Problems /\ Cardinality(batch) = GenBatch
  BY DEF Batches, kSubset
<1>2. IsFiniteSet(batch)
  BY <1>1, ProblemsAssumption, FS_Subset
<1>3. GenBatch \in Nat
  BY <1>1, <1>2, FS_CardinalityType
<1> QED BY <1>1, <1>2, <1>3, ProblemsAssumption

LEMMA FirstActiveIsBatch == FirstActive \in Batches
<1> DEFINE m == Cardinality(Problems)
           rank == [x \in Problems |-> Cardinality(Below(Problems, x))]
           first == [x \in FirstActive |-> rank[x]]
<1>1. m \in Nat /\ rank \in Bijection(Problems, 0..(m - 1))
  BY ProblemsAssumption, Ranks
<1>2. FirstActive = {p \in Problems : rank[p] < GenBatch}
  BY DEF FirstActive, Below
<1>3. GenBatch \in 1..m /\ IsFiniteSet(Problems)
  BY BatchAssumption, ProblemsAssumption
<1> HIDE DEF rank
<1>4. first \in Bijection(FirstActive, 0..(GenBatch - 1))
  <2>1. /\ rank \in [Problems -> 0..(m - 1)] /\ \A x, y \in Problems : rank[x] = rank[y] => x = y
        /\ \A t \in 0..(m - 1) : \E x \in Problems : rank[x] = t
    BY <1>1 DEF Bijection, Injection, Surjection, IsInjective
  <2>2. \A x \in FirstActive : first[x] \in 0..(GenBatch - 1) /\ first[x] = rank[x]
    BY <1>1, <1>2, <1>3, <2>1
  <2>3. \A t \in 0..(GenBatch - 1) : \E x \in FirstActive : first[x] = t
    <3> SUFFICES ASSUME NEW t \in 0..(GenBatch - 1)
                 PROVE  \E x \in FirstActive : first[x] = t
      OBVIOUS
    <3>1. t \in 0..(m - 1) /\ t < GenBatch
      BY <1>1, <1>3
    <3>2. PICK x \in Problems : rank[x] = t
      BY <2>1, <3>1
    <3> QED BY <1>2, <3>1, <3>2
  <2>4. \A x, y \in FirstActive : first[x] = first[y] => x = y
    BY <1>2, <2>1
  <2>5. first \in [FirstActive -> 0..(GenBatch - 1)]
    BY <2>2
  <2> HIDE DEF first
  <2> QED BY <2>3, <2>4, <2>5 DEF Bijection, Injection, Surjection, IsInjective
<1>5. IsFiniteSet(FirstActive)
  BY <1>2, <1>3, FS_Subset
<1>6. Cardinality(FirstActive) = GenBatch
  <2>1. IsFiniteSet(0..(GenBatch - 1)) /\ Cardinality(0..(GenBatch - 1)) = GenBatch
    BY <1>3, Initial
  <2>2. first \in Injection(FirstActive, 0..(GenBatch - 1))
        /\ first \in Surjection(FirstActive, 0..(GenBatch - 1))
    BY <1>4 DEF Bijection
  <2> HIDE DEF first
  <2>3. Cardinality(FirstActive) <= GenBatch
    BY <1>5, <2>1, <2>2, FS_Injection
  <2>4. GenBatch <= Cardinality(FirstActive)
    BY <1>5, <2>1, <2>2, FS_Surjection
  <2>5. Cardinality(FirstActive) \in Nat
    BY <1>5, FS_CardinalityType
  <2> QED BY <1>3, <2>3, <2>4, <2>5
<1> QED BY <1>2, <1>6 DEF Batches, kSubset

-----------------------------------------------------------------------------
(* What is accumulated and what the update takes.                             *)
Groups == [problem : Problems, gen : Nat, policy : Nat]
ProblemsOf(groups) == {groups[i].problem : i \in DOMAIN groups}
Using == {"dump", "feed"}

SamplingTypes ==
  /\ ValidConfig(config)
  /\ acc.batch \in Seq(Groups) /\ acc.gen \in Nat
  /\ update \in Seq(Groups)
  /\ curriculum.active \in Batches
  /\ \A s \in Steps : dirs[s].state.saved.active \in Batches

\* Groups wait only while the weights that rolled them out are the live ones; those of an
\* earlier round of the step have a smaller number.
Waiting ==
  /\ acc.kept = Len(acc.batch)
  /\ IsInjective(acc.batch)
  /\ \A i \in DOMAIN acc.batch : acc.batch[i].policy = Len(weights) /\ acc.batch[i].gen <= acc.gen
  /\ pc = "update" => TrainBatch <= acc.kept
  /\ pc = "boot" \/ ~config.dapo => acc = EmptyAcc

\* The update is remembered until the curriculum was fed from it.
Used ==
  /\ pc \notin Using => update = << >>
  /\ pc \in Using => Len(update) = TrainBatch /\ IsInjective(update)
  /\ \A i \in DOMAIN update : update[i].policy = Len(weights) - 1
  /\ pc \in Using /\ config.v2 /\ ~config.dapo => curriculum.active \subseteq ProblemsOf(update)
  /\ failure # "missing_accuracy"

SamplingInv == SamplingTypes /\ Waiting /\ Used

LEMMA EmptyAccProperties ==
  /\ EmptyAcc.batch = << >> /\ EmptyAcc.gen = 0 /\ EmptyAcc.kept = 0
  /\ << >> \in Seq(Groups) /\ Len(<< >>) = 0 /\ IsInjective(<< >>) /\ DOMAIN << >> = {}
BY DEF EmptyAcc, IsInjective

\* The groups of a round: one for each problem, all of the live weights.
RoundOf(S, gen) == [i \in 1..Cardinality(S) |-> Group(InOrder(S)[i], gen)]

LEMMA RoundGroups ==
  ASSUME NEW S \in SUBSET Problems, NEW gen \in Nat, weights \in Seq(Int)
  PROVE  LET groups == RoundOf(S, gen)
         IN  /\ groups \in Seq(Groups) /\ Len(groups) = Cardinality(S)
             /\ DOMAIN groups = 1..Cardinality(S) /\ Cardinality(S) \in Nat
             /\ IsInjective(groups) /\ ProblemsOf(groups) = S
             /\ \A i \in DOMAIN groups : groups[i].policy = Len(weights) /\ groups[i].gen = gen
<1>1. S \in SUBSET Nat /\ IsFiniteSet(S)
  BY ProblemsAssumption, FS_Subset
<1> DEFINE m == Cardinality(S)
           order == InOrder(S)
<1>2. /\ m \in Nat /\ order \in [1..m -> S]
      /\ \A i, j \in 1..m : order[i] = order[j] => i = j
      /\ \A x \in S : \E i \in 1..m : order[i] = x
  BY <1>1, InOrderProperties
<1> HIDE DEF m, order
<1> DEFINE groups == [i \in 1..m |-> Group(order[i], gen)]
<1>3. RoundOf(S, gen) = groups
  BY DEF RoundOf, m, order
<1>4. \A i \in 1..m : /\ groups[i] = [problem |-> order[i], gen |-> gen, policy |-> Len(weights)]
                      /\ groups[i] \in Groups /\ groups[i].problem = order[i]
  BY <1>2, LenProperties DEF Group, Groups
<1>5. groups \in [1..m -> Groups]
  BY <1>4
<1> HIDE DEF groups
<1>6. groups \in Seq(Groups) /\ Len(groups) = m /\ DOMAIN groups = 1..m
  BY <1>2, <1>5
<1>7. IsInjective(groups)
  BY <1>2, <1>4, <1>6 DEF IsInjective
<1>8. ProblemsOf(groups) = S
  <2>1. \A i \in 1..m : groups[i].problem = order[i]
    BY <1>4
  <2> QED BY <1>2, <1>6, <2>1 DEF ProblemsOf
<1>9. \A i \in DOMAIN groups : groups[i].policy = Len(weights) /\ groups[i].gen = gen
  BY <1>4, <1>6
<1> QED BY <1>2, <1>3, <1>6, <1>7, <1>8, <1>9 DEF m

\* Steps that sample nothing and use nothing.
LEMMA SamplingKept ==
  ASSUME Inv, SamplingInv,
         UNCHANGED <<config, weights, acc, curriculum, update, failure>>,
         \A s \in Steps : dirs'[s].state.saved.active \in Batches,
         pc' \notin {"boot", "update"},
         pc' \in Using <=> pc \in Using
  PROVE  SamplingInv'
<1>1. SamplingTypes' /\ Waiting'
  BY DEF SamplingInv, SamplingTypes, Waiting
<1>2. Used'
  BY DEF SamplingInv, Used, ProblemsOf
<1> QED BY <1>1, <1>2 DEF SamplingInv

LEMMA SampleRoundSamples ==
  ASSUME Inv, SamplingInv, SampleRound
  PROVE  SamplingInv'
<1> USE DEF SamplingInv
<1>1. /\ pc = "draw" /\ config.dapo
      /\ UNCHANGED <<config, weights, update, dirs>>
  BY DEF SampleRound, disk
<1> DEFINE Decides(batch, kept) ==
        IF config.v2 /\ Unmeasured(Feedback(batch, kept))
          THEN Raise("missing_accuracy") /\ UNCHANGED <<acc, curriculum, inner>>
          ELSE /\ IF config.v2 THEN FeedCurriculum(Feedback(batch, kept))
                               ELSE UNCHANGED curriculum
               /\ acc' = Accumulated(kept)
               /\ IF Outcome(acc') = "cap"
                    THEN Raise("cap")
                    ELSE pc' = Outcome(acc') /\ UNCHANGED failure
               /\ inner' = IF Outcome(acc') = "draw" THEN inner + 1 ELSE inner
<1>2. PICK batch \in Drawn : \E kept \in SUBSET batch : Decides(batch, kept)
  BY DEF SampleRound
<1>3. PICK kept \in SUBSET batch : Decides(batch, kept)
  BY <1>2
<1>4. batch \in Batches /\ (config.v2 => batch = curriculum.active)
  BY DEF Drawn, SamplingTypes
<1>5. ~(config.v2 /\ Unmeasured(Feedback(batch, kept)))
  BY <1>4 DEF Unmeasured, Feedback
<1>6. acc' = Accumulated(kept) /\ curriculum'.active \in Batches
  <2>1. CASE config.v2
    <3>1. FeedCurriculum(Feedback(batch, kept)) /\ ~Unmeasured(Feedback(batch, kept))
      BY <1>3, <1>5, <2>1
    <3>2. \E active \in Batches :
            curriculum' = [fed |-> curriculum.fed + 1, active |-> active]
      BY <3>1 DEF FeedCurriculum
    <3> QED BY <1>3, <1>5, <3>2
  <2>2. CASE ~config.v2
    BY <1>3, <2>2 DEF SamplingTypes
  <2> QED BY <2>1, <2>2
<1>7. /\ pc' \in {"draw", "update", "failed"} /\ failure' # "missing_accuracy"
      /\ pc' = "update" => TrainBatch <= acc'.kept
  <2>1. Outcome(acc') \in {"draw", "update", "cap"}
        /\ (Outcome(acc') = "update" => TrainBatch <= acc'.kept)
    <3>1. CASE acc'.kept >= TrainBatch
      BY <3>1 DEF Outcome
    <3>2. CASE ~(acc'.kept >= TrainBatch)
      BY <3>2 DEF Outcome
    <3> QED BY <3>1, <3>2
  <2> QED BY <1>3, <1>5, <2>1 DEF Raise, Used
<1> DEFINE new == NewGroups(kept)
           old == acc.batch
<1>8. /\ new \in Seq(Groups) /\ Len(new) = Cardinality(kept)
      /\ DOMAIN new = 1..Cardinality(kept) /\ Cardinality(kept) \in Nat
      /\ IsInjective(new)
      /\ \A i \in DOMAIN new : new[i].policy = Len(weights) /\ new[i].gen = acc.gen + 1
  <2>1. kept \in SUBSET Problems /\ acc.gen + 1 \in Nat /\ weights \in Seq(Int)
    <3>1. batch \in SUBSET Problems
      BY <1>4, BatchProperties
    <3>2. kept \in SUBSET Problems
      BY <3>1
    <3> QED BY <3>2 DEF SamplingTypes, Inv, Types
  <2>2. new = RoundOf(kept, acc.gen + 1)
    BY DEF NewGroups, RoundOf
  <2> HIDE DEF SamplingInv, new
  <2> QED BY <2>1, <2>2, RoundGroups
<1>9. /\ old \in Seq(Groups) /\ acc.kept = Len(old) /\ IsInjective(old) /\ acc.gen \in Nat
      /\ \A i \in DOMAIN old : old[i].policy = Len(weights) /\ old[i].gen <= acc.gen
  BY DEF SamplingTypes, Waiting
<1>10. /\ acc'.batch = old \o new /\ acc'.gen = acc.gen + 1
       /\ acc'.kept = Len(old) + Cardinality(kept)
  BY <1>6, <1>9 DEF Accumulated
<1> HIDE DEF new, old
<1>11. /\ Len(old) \in Nat /\ DOMAIN old = 1..Len(old)
       /\ old \o new \in Seq(Groups) /\ Len(old \o new) = Len(old) + Len(new)
       /\ DOMAIN (old \o new) = 1..(Len(old) + Len(new))
       /\ \A i \in 1..(Len(old) + Len(new)) :
            (old \o new)[i] = IF i <= Len(old) THEN old[i] ELSE new[i - Len(old)]
  <2>1. /\ Len(old) \in Nat /\ DOMAIN old = 1..Len(old)
        /\ old \o new \in Seq(Groups)
    BY <1>8, <1>9, LenProperties, ConcatProperties
  <2>2. /\ Len(old \o new) = Len(old) + Len(new)
        /\ \A i \in 1..(Len(old) + Len(new)) :
             (old \o new)[i] = IF i <= Len(old) THEN old[i] ELSE new[i - Len(old)]
    <3>1. old \in Seq(Groups) /\ new \in Seq(Groups)
      BY <1>8, <1>9
    <3> QED BY ONLY <3>1, ConcatProperties
  <2>3. DOMAIN (old \o new) = 1..(Len(old) + Len(new))
    BY <2>1, <2>2, LenProperties
  <2> QED BY <2>1, <2>2, <2>3
<1> DEFINE all == old \o new
           n == Len(old)
<1>12. \A i \in 1..(n + Len(new)) :
         \/ i \in DOMAIN old /\ all[i] = old[i]
         \/ i > n /\ i - n \in DOMAIN new /\ all[i] = new[i - n]
  BY <1>8, <1>11
<1> HIDE DEF all
<1>13. \A i \in DOMAIN all : all[i].policy = Len(weights) /\ all[i].gen <= acc.gen + 1
  <2> SUFFICES ASSUME NEW i \in 1..(n + Len(new))
               PROVE  all[i].policy = Len(weights) /\ all[i].gen <= acc.gen + 1
    BY <1>11 DEF all
  <2>1. CASE i \in DOMAIN old /\ all[i] = old[i]
    <3>1. old[i].gen \in Nat
      <4>1. old[i] \in Groups
        BY <1>9, <1>11, <2>1, ElementOfSeq
      <4> QED BY <4>1 DEF Groups
    <3> QED BY <1>9, <2>1, <3>1
  <2>2. CASE i > n /\ i - n \in DOMAIN new /\ all[i] = new[i - n]
    BY <1>8, <1>9, <2>2
  <2> QED BY <1>12, <2>1, <2>2
<1>14. IsInjective(all)
  <2> SUFFICES ASSUME NEW i \in 1..(n + Len(new)), NEW j \in 1..(n + Len(new)), all[i] = all[j]
               PROVE  i = j
    BY <1>11 DEF all, IsInjective
  <2>1. CASE i \in DOMAIN old /\ all[i] = old[i] /\ j \in DOMAIN old /\ all[j] = old[j]
    BY <1>9, <2>1 DEF IsInjective
  <2>2. CASE /\ i > n /\ i - n \in DOMAIN new /\ all[i] = new[i - n]
             /\ j > n /\ j - n \in DOMAIN new /\ all[j] = new[j - n]
    <3>1. i - n = j - n
      BY <1>8, <2>2 DEF IsInjective
    <3> QED BY <1>11, <3>1
  <2>3. ASSUME NEW a \in DOMAIN old, NEW b \in DOMAIN new, old[a] = new[b]
        PROVE  FALSE
    BY <1>8, <1>9, <2>3
  <2> QED BY <1>12, <2>1, <2>2, <2>3
<1>15. SamplingTypes'
  BY <1>1, <1>6, <1>9, <1>10, <1>11 DEF SamplingTypes
<1>16. Waiting'
  BY <1>1, <1>7, <1>8, <1>10, <1>11, <1>13, <1>14 DEF Waiting, all
<1>17. Used'
  BY <1>1, <1>7 DEF Used, Using
<1> QED BY <1>15, <1>16, <1>17

LEMMA WeightsGrow ==
  ASSUME weights \in Seq(Int), step \in Int, weights' = Append(weights, step)
  PROVE  Len(weights') = Len(weights) + 1 /\ Len(weights) \in Nat
BY AppendProperties, LenProperties

LEMMA UpdateSamples ==
  ASSUME Inv, SamplingInv, UpdateFromAccumulated
  PROVE  SamplingInv'
<1> USE DEF SamplingInv
<1>1. /\ pc = "update" /\ pc' = "dump" /\ acc' = EmptyAcc
      /\ update' = SubSeq(acc.batch, 1, TrainBatch)
      /\ weights' = Append(weights, step)
      /\ UNCHANGED <<config, curriculum, failure, dirs>>
  BY DEF UpdateFromAccumulated, Goto, AfterUpdate, disk
<1>2. Len(weights') = Len(weights) + 1 /\ Len(weights) \in Nat /\ config.dapo
  BY <1>1, WeightsGrow, StepIsDirectory DEF Inv, Types, Fed, Steps
<1>3. /\ acc.batch \in Seq(Groups) /\ TrainBatch \in 1..Len(acc.batch)
      /\ DOMAIN acc.batch = 1..Len(acc.batch) /\ IsInjective(acc.batch)
      /\ \A i \in DOMAIN acc.batch : acc.batch[i].policy = Len(weights)
  BY <1>1, BatchAssumption, LenProperties DEF SamplingTypes, Waiting
<1>4. /\ update' \in Seq(Groups) /\ Len(update') = TrainBatch
      /\ DOMAIN update' = 1..TrainBatch
      /\ \A i \in 1..TrainBatch : update'[i] = acc.batch[i] /\ i \in DOMAIN acc.batch
  BY <1>1, <1>3
<1>5. SamplingTypes' /\ Waiting'
  BY <1>1, <1>4, EmptyAccProperties DEF SamplingTypes, Waiting
<1>6. IsInjective(update')
  BY <1>3, <1>4 DEF IsInjective
<1>7. Used'
  BY <1>1, <1>2, <1>3, <1>4, <1>6 DEF Used, Using
<1> QED BY <1>5, <1>7

LEMMA TrainBatchSamples ==
  ASSUME Inv, SamplingInv, TrainBatchStep
  PROVE  SamplingInv'
<1> USE DEF SamplingInv
<1>1. /\ pc = "draw" /\ pc' = "dump" /\ ~config.dapo
      /\ weights' = Append(weights, step)
      /\ UNCHANGED <<config, acc, curriculum, failure, dirs>>
  BY DEF TrainBatchStep, disk
<1>2. PICK batch \in Drawn : update' = [i \in 1..GenBatch |-> Group(InOrder(batch)[i], 1)]
  BY DEF TrainBatchStep
<1>3. weights \in Seq(Int) /\ Len(weights') = Len(weights) + 1 /\ Len(weights) \in Nat
  BY <1>1, WeightsGrow, StepIsDirectory DEF Inv, Types, Steps
<1>4. batch \in Batches /\ (config.v2 => batch = curriculum.active)
  BY <1>2 DEF Drawn, SamplingTypes
<1>5. batch \in SUBSET Problems /\ Cardinality(batch) = GenBatch
  BY <1>4, BatchProperties
<1>6. /\ update' \in Seq(Groups) /\ Len(update') = GenBatch
      /\ IsInjective(update') /\ ProblemsOf(update') = batch
      /\ \A i \in DOMAIN update' : update'[i].policy = Len(weights)
  <2>1. update' = RoundOf(batch, 1)
    BY <1>2, <1>5 DEF RoundOf
  <2> QED BY <1>3, <1>5, <2>1, RoundGroups
<1>7. GenBatch = TrainBatch
  BY <1>1 DEF SamplingTypes, ValidConfig
<1>8. SamplingTypes' /\ Waiting'
  BY <1>1, <1>6, EmptyAccProperties DEF SamplingTypes, Waiting
<1>9. Used'
  <2>1. \A i \in DOMAIN update' : update'[i].policy = Len(weights') - 1
    BY <1>3, <1>6
  <2> QED BY <1>1, <1>4, <1>6, <1>7, <2>1 DEF Used, Using, ProblemsOf
<1> QED BY <1>8, <1>9

LEMMA FeedSamples ==
  ASSUME Inv, SamplingInv, FeedAfterUpdate
  PROVE  SamplingInv'
<1> USE DEF SamplingInv
<1>1. /\ pc = "feed" /\ update' = << >>
      /\ UNCHANGED <<config, acc, weights, dirs>>
  BY DEF FeedAfterUpdate, disk
<1> DEFINE measured == ProblemsOf(update)
<1>2. IF FeedsAfterUpdate
        THEN /\ FeedCurriculum(measured)
             /\ IF Unmeasured(measured)
                  THEN Raise("missing_accuracy")
                  ELSE pc' = "save" /\ UNCHANGED failure
        ELSE pc' = "save" /\ UNCHANGED <<curriculum, failure>>
  BY DEF FeedAfterUpdate, ProblemsOf
<1>3. FeedsAfterUpdate => ~Unmeasured(measured)
  BY <1>1 DEF FeedsAfterUpdate, Unmeasured, Used, Using
<1>4. pc' = "save" /\ UNCHANGED failure /\ curriculum'.active \in Batches
  <2>1. CASE FeedsAfterUpdate
    BY <1>2, <1>3, <2>1 DEF FeedCurriculum
  <2>2. CASE ~FeedsAfterUpdate
    BY <1>2, <2>2 DEF SamplingTypes
  <2> QED BY <2>1, <2>2
<1>5. SamplingTypes' /\ Waiting'
  BY <1>1, <1>4, EmptyAccProperties DEF SamplingTypes, Waiting
<1>6. Used'
  BY <1>1, <1>4, EmptyAccProperties DEF Used, Using
<1> QED BY <1>5, <1>6

LEMMA LoadSamples ==
  ASSUME Inv, SamplingInv, LoadCheckpoint
  PROVE  SamplingInv'
<1> USE DEF SamplingInv
<1>1. /\ pc = "boot" /\ tracker \in {0} \cup Steps
      /\ pc' \in {"draw", "failed"} /\ failure' \in {failure, "missing_state"}
      /\ UNCHANGED <<config, acc, update, dirs>>
  <2>1. CASE StateRefused
    BY <2>1, StepIsDirectory DEF Inv, LoadCheckpoint, Raise, disk
  <2>2. CASE ~StateRefused
    BY <2>2, StepIsDirectory DEF Inv, LoadCheckpoint, disk
  <2> QED BY <2>1, <2>2
<1>2. curriculum'.active \in Batches
  BY <1>1, StepsAssumption DEF LoadCheckpoint, ResumedCurriculum, SamplingTypes
<1>3. SamplingTypes' /\ Waiting'
  BY <1>1, <1>2, EmptyAccProperties DEF SamplingTypes, Waiting
<1>4. Used'
  BY <1>1, EmptyAccProperties DEF Used, Using
<1> QED BY <1>3, <1>4

\* Directories hold curricula of the driver.
LEMMA SavingSamples ==
  ASSUME Inv, SamplingInv, DumpRollout \/ SaveShards \/ SaveState
  PROVE  SamplingInv'
<1> USE DEF SamplingInv
<1>1. /\ UNCHANGED <<config, weights, acc, curriculum, update, failure>>
      /\ pc' \notin {"boot", "update"} /\ (pc' \in Using <=> pc \in Using)
  BY DEF DumpRollout, SaveShards, SaveState, Goto, Using
<1>2. pc # "boot" /\ step \in Steps
  BY StepIsDirectory DEF Inv, DumpRollout, SaveShards, SaveState, Goto
<1>3. \A s \in Steps : dirs[s].state.saved.active \in Batches
  BY DEF SamplingTypes
<1>4. \A s \in Steps : dirs'[s].state.saved.active \in Batches
  <2>1. CASE dirs' = dirs
    BY <1>3, <2>1
  <2>2. CASE DumpRollout /\ dirs' # dirs
    <3>1. dirs' = [dirs EXCEPT ![step].dump = TRUE]
      BY <2>2 DEF DumpRollout
    <3>2. \A s \in Steps : dirs'[s].state = dirs[s].state
      BY <1>2, <3>1, PartWritten DEF Inv
    <3> QED BY <1>3, <3>2
  <2>3. CASE SaveShards
    <3> DEFINE written == [by |-> Process, weights |-> weights, rounds |-> rounds]
    <3>1. written \in Shards /\ dirs' = [dirs EXCEPT ![step].shards = written]
      BY <2>3 DEF SaveShards, Shards, Inv, Types, Process
    <3> HIDE DEF written
    <3>2. \A s \in Steps : dirs'[s].state = dirs[s].state
      BY <1>2, <3>1, PartWritten DEF Inv
    <3> QED BY <1>3, <3>2
  <2>4. CASE SaveState /\ dirs' # dirs
    <3> DEFINE written == [by |-> Process, saved |-> curriculum]
    <3>1. written \in States /\ dirs' = [dirs EXCEPT ![step].state = written]
          /\ written.saved = curriculum
      BY <2>4 DEF SaveState, States, Inv, Types, Process
    <3> HIDE DEF written
    <3>2. dirs'[step].state = written /\ \A s \in Steps : s # step => dirs'[s] = dirs[s]
      BY <1>2, <3>1, PartWritten DEF Inv
    <3> QED BY <1>3, <3>1, <3>2 DEF SamplingTypes
  <2> QED BY <2>1, <2>2, <2>3, <2>4
<1> HIDE DEF SamplingInv
<1> QED BY <1>1, <1>4, SamplingKept

LEMMA InitSampling == Init => SamplingInv
<1> SUFFICES ASSUME Init PROVE SamplingInv
  OBVIOUS
<1>1. NewCurriculum.active \in Batches
  BY FirstActiveIsBatch DEF NewCurriculum
<1>2. \A s \in Steps : dirs[s].state.saved = NewCurriculum
  BY DEF Init, NoDirectory, MissingState
<1>3. SamplingTypes
  BY <1>1, <1>2, EmptyAccProperties DEF Init, SamplingTypes
<1>4. Waiting /\ Used
  BY EmptyAccProperties DEF Init, Waiting, Used, Using
<1> QED BY <1>3, <1>4 DEF SamplingInv

LEMMA SamplingStep ==
  ASSUME Inv, SamplingInv, [Next]_vars
  PROVE  SamplingInv'
<1>1. CASE SkipBatch \/ SkipSave \/ WriteTracker \/ EndStep \/ ExhaustEpochs
  <2>1. UNCHANGED <<config, weights, acc, curriculum, update, failure, dirs>>
    BY <1>1 DEF SkipBatch, SkipSave, WriteTracker, EndStep, ExhaustEpochs, disk
  <2>2. pc' \notin {"boot", "update"} /\ (pc' \in Using <=> pc \in Using)
    BY <1>1 DEF SkipBatch, SkipSave, WriteTracker, EndStep, ExhaustEpochs, Goto, Using
  <2> QED BY <2>1, <2>2, SamplingKept DEF SamplingInv, SamplingTypes
<1>2. CASE Restart
  <2>1. NewCurriculum.active \in Batches
    BY FirstActiveIsBatch DEF NewCurriculum
  <2>2. SamplingTypes'
    BY <1>2, <2>1, EmptyAccProperties DEF Restart, SamplingInv, SamplingTypes, disk
  <2>3. Waiting' /\ Used'
    BY <1>2, EmptyAccProperties DEF Restart, Waiting, Used, Using
  <2> QED BY <2>2, <2>3 DEF SamplingInv
<1>3. CASE UNCHANGED vars
  <2>1. SamplingTypes' /\ Waiting'
    BY <1>3 DEF vars, driver, disk, SamplingInv, SamplingTypes, Waiting
  <2>2. Used'
    BY <1>3 DEF vars, driver, disk, SamplingInv, Used, ProblemsOf
  <2> QED BY <2>1, <2>2 DEF SamplingInv
<1>4. CASE Run
  BY <1>1, <1>4, LoadSamples, SampleRoundSamples, UpdateSamples, TrainBatchSamples, FeedSamples,
     SavingSamples DEF Run
<1> QED BY <1>2, <1>3, <1>4 DEF Next, Terminated

LEMMA SamplingInvariance == Spec => []SamplingInv
BY InitSampling, SamplingStep, Invariance, PTL DEF Spec

\* Every group an update trains on, and every group that waits for one, was rolled out by
\* the weights it updates, in a batch of train_batch_size distinct groups.
THEOREM OnPolicyHolds == Spec => []OnPolicy
<1>1. SamplingInv => OnPolicy
  BY DEF SamplingInv, Waiting, Used, Using, OnPolicy
<1> QED BY <1>1, SamplingInvariance, PTL

\* The curriculum is never asked for an active problem without an accuracy.
THEOREM EveryActiveMeasuredHolds == Spec => []EveryActiveMeasured
<1>1. SamplingInv => EveryActiveMeasured
  BY DEF SamplingInv, Used, EveryActiveMeasured
<1> QED BY <1>1, SamplingInvariance, PTL

-----------------------------------------------------------------------------
(* NoiseCurriculum, for any pool, batch and ratios: rows enter the batch in   *)
(* pool order, once in a round; a round is closed only over the whole pool;   *)
(* and a checkpoint restores the controller it was taken from.  What a slope  *)
(* is does not matter here, only that it decides which slots are stable; of a *)
(* mean, that it lies between the bounds of what it is taken of.              *)
-----------------------------------------------------------------------------
(* The replaced slots, ranked in batch order, have the ranks 1, 2, ... .      *)
UpTo(S, k) == {j \in 1..k : j \in S}
RankIn(S, k) == Cardinality(UpTo(S, k))

LEMMA RankProperties ==
  ASSUME NEW n \in Nat, NEW S \in SUBSET (1..n)
  PROVE  /\ \A k \in S : IsFiniteSet(UpTo(S, k)) /\ RankIn(S, k) \in Nat \ {0}
         /\ \A j, k \in S : j < k => RankIn(S, j) < RankIn(S, k)
<1>1. ASSUME NEW k \in S
      PROVE  IsFiniteSet(UpTo(S, k)) /\ RankIn(S, k) \in Nat \ {0}
  <2>1. IsFiniteSet(1..k)
    BY FS_Interval
  <2>2. IsFiniteSet(UpTo(S, k))
    BY <2>1, FS_Subset DEF UpTo
  <2>3. k \in UpTo(S, k)
    BY DEF UpTo
  <2>4. RankIn(S, k) \in Nat /\ RankIn(S, k) # 0
    BY <2>2, <2>3, FS_CardinalityType, FS_EmptySet DEF RankIn
  <2> QED BY <2>2, <2>4
<1>2. ASSUME NEW j \in S, NEW k \in S, j < k
      PROVE  RankIn(S, j) < RankIn(S, k)
  <2>1. UpTo(S, j) \subseteq UpTo(S, k) \ {k} /\ k \in UpTo(S, k)
    BY <1>2 DEF UpTo
  <2>2. IsFiniteSet(UpTo(S, k) \ {k}) /\ Cardinality(UpTo(S, k) \ {k}) = RankIn(S, k) - 1
    BY <1>1, <2>1, FS_RemoveElement DEF RankIn
  <2>3. RankIn(S, j) <= RankIn(S, k) - 1
    BY <2>1, <2>2, FS_Subset DEF RankIn
  <2> QED BY <1>1, <2>3
<1> QED BY <1>1, <1>2

LEMMA RanksHaveNoGap ==
  ASSUME NEW n \in Nat, NEW S \in SUBSET (1..n), NEW r \in Nat
  PROVE  LET out == {k \in S : RankIn(S, k) <= r}
         IN  /\ IsFiniteSet(out) /\ Cardinality(out) \in Nat /\ Cardinality(out) <= r
             /\ {RankIn(S, k) : k \in out} = 1..Cardinality(out)
<1> DEFINE out == {k \in S : RankIn(S, k) <= r}
           m == Cardinality(out)
           f == [k \in out |-> RankIn(S, k)]
<1>0. /\ \A k \in S : RankIn(S, k) \in Nat \ {0}
      /\ \A j, k \in S : j < k => RankIn(S, j) < RankIn(S, k)
  BY RankProperties
<1>1. IsFiniteSet(out) /\ m \in Nat
  <2>1. IsFiniteSet(1..n)
    BY FS_Interval
  <2>2. out \in SUBSET (1..n)
    OBVIOUS
  <2> HIDE DEF out
  <2> QED BY <2>1, <2>2, FS_Subset, FS_CardinalityType
<1>2. ASSUME NEW k \in out
      PROVE  RankIn(S, k) \in 1..m
  <2>1. UpTo(S, k) \subseteq out
    <3>1. ASSUME NEW j \in UpTo(S, k)
          PROVE  j \in out
      <4>1. j \in S /\ (j = k \/ j < k)
        BY DEF UpTo
      <4>2. RankIn(S, j) <= RankIn(S, k)
        BY <1>0, <4>1
      <4> QED BY <1>0, <4>1, <4>2
    <3> QED BY <3>1
  <2>2. RankIn(S, k) <= m
    <3>1. UpTo(S, k) \in SUBSET out
      BY <2>1
    <3> HIDE DEF out
    <3> QED BY <1>1, <3>1, FS_Subset DEF RankIn
  <2> QED BY <1>1, <2>2, <1>0
<1>3. f \in Injection(out, 1..m)
  <2>1. f \in [out -> 1..m]
    BY <1>2
  <2>2. ASSUME NEW j \in out, NEW k \in out, f[j] = f[k]
        PROVE  j = k
    <3>1. RankIn(S, j) = RankIn(S, k)
      BY <2>2
    <3>2. j \in S /\ k \in S /\ j \in Int /\ k \in Int
      OBVIOUS
    <3> QED BY <3>1, <3>2, <1>0
  <2> HIDE DEF f, out
  <2> QED BY <2>1, <2>2 DEF Injection, IsInjective
<1>4. Cardinality(1..m) = m /\ IsFiniteSet(1..m)
  BY <1>1, FS_Interval
<1>5. f \in Surjection(out, 1..m)
  <2> HIDE DEF f, out
  <2> QED BY <1>3, <1>4, FS_Injection
<1>6. {RankIn(S, k) : k \in out} = 1..m
  <2>1. \A t \in 1..m : \E k \in out : RankIn(S, k) = t
    BY <1>5 DEF Surjection
  <2> HIDE DEF out
  <2> QED BY <1>2, <2>1
<1>7. m <= r
  <2>1. CASE m = 0
    BY <2>1
  <2>2. CASE m # 0
    <3>1. PICK k \in out : RankIn(S, k) = m
      BY <1>1, <1>6, <2>2
    <3> QED BY <3>1
  <2> QED BY <2>1, <2>2
<1> QED BY <1>1, <1>6, <1>7

-----------------------------------------------------------------------------
(* A row's history is no longer than the number of its samples.               *)
Tracked(state) ==
  /\ state = [rho |-> state.rho, history |-> state.history, samples |-> state.samples]
  /\ \E S : state.history \in Seq(S)
  /\ state.samples \in Nat
  /\ Len(state.history) <= state.samples

LEMMA FreshTracked == \A rho : Tracked(Fresh(rho))
<1> SUFFICES ASSUME NEW rho PROVE Tracked(Fresh(rho))
  OBVIOUS
<1>1. /\ Fresh(rho).rho = rho /\ Fresh(rho).history = << >> /\ Fresh(rho).samples = 0
      /\ Fresh(rho) = [rho |-> rho, history |-> << >>, samples |-> 0]
  BY DEF Fresh
<1>2. << >> \in Seq({}) /\ Len(<< >>) = 0
  OBVIOUS
<1> QED BY <1>1, <1>2 DEF Tracked

LEMMA KeepRecentShortens ==
  ASSUME NEW S, NEW h \in Seq(S)
  PROVE  KeepRecent(h) \in Seq(S) /\ Len(KeepRecent(h)) <= Len(h)
<1>1. CASE Len(h) > Window
  <2> DEFINE from == Len(h) - Window + 1
  <2>1. from \in 1..Len(h) /\ Len(h) \in Int /\ Window \in Nat /\ Window >= 2
    BY <1>1, HistoryAssumption
  <2>2. \A i \in from..Len(h) : h[i] \in S
    BY <2>1
  <2> HIDE DEF from
  <2>3. SubSeq(h, from, Len(h)) \in Seq(S) /\ Len(SubSeq(h, from, Len(h))) <= Len(h)
    BY <2>1, <2>2, SubSeqProperties
  <2> QED BY <1>1, <2>3 DEF KeepRecent, from
<1>2. CASE ~(Len(h) > Window)
  BY <1>2 DEF KeepRecent
<1> QED BY <1>1, <1>2

LEMMA AfterSampleTracked ==
  ASSUME NEW state, Tracked(state), NEW accuracy
  PROVE  /\ Tracked(AfterSample(state, accuracy))
         /\ AfterSample(state, accuracy).samples = state.samples + 1
<1> DEFINE h == state.history
           after == AfterSample(state, accuracy)
           longer == Append(h, state.rho)
<1>1. PICK S : h \in Seq(S)
  BY DEF Tracked
<1> DEFINE T == S \cup {state.rho}
<1>2. h \in Seq(T) /\ state.rho \in T
  BY <1>1
<1>3. state.samples \in Nat /\ Len(h) <= state.samples /\ Len(h) \in Nat
  BY <1>1, LenProperties DEF Tracked
<1>4. /\ after.history = KeepRecent(longer) /\ after.samples = state.samples + 1
      /\ after = [rho |-> after.rho, history |-> after.history, samples |-> after.samples]
  BY DEF AfterSample
<1> HIDE DEF h, after, T
<1>5. longer \in Seq(T) /\ Len(longer) = Len(h) + 1
  BY <1>2, AppendProperties
<1> HIDE DEF longer
<1>6. KeepRecent(longer) \in Seq(T) /\ Len(KeepRecent(longer)) <= Len(h) + 1
  BY <1>5, KeepRecentShortens
<1>7. Len(KeepRecent(longer)) \in Nat
  BY <1>6, LenProperties
<1>8. Tracked(after)
  BY <1>3, <1>4, <1>6, <1>7 DEF Tracked
<1> QED BY <1>4, <1>8 DEF after

LEMMA StableIsSampled ==
  ASSUME NEW state, Tracked(state), Stable(state)
  PROVE  state.samples >= MinHistory
<1>1. Len(state.history) \in Nat
  BY LenProperties DEF Tracked
<1> QED BY <1>1, HistoryAssumption DEF Tracked, Stable

-----------------------------------------------------------------------------
(* A controller together with the rows sampled in its round.                  *)
WellFormed(ctl, rows) ==
  /\ ctl = [active |-> ctl.active, next |-> ctl.next, states |-> ctl.states,
            retired |-> ctl.retired, introduced |-> ctl.introduced,
            round |-> ctl.round, completed |-> ctl.completed]
  /\ DOMAIN ctl.active = Slots
  /\ ctl.next \in BatchSize..PoolSize
  /\ ctl.round \in Nat \ {0}
  /\ rows \cup Batch(ctl) = 0..(ctl.next - 1)
  /\ \A i \in Batch(ctl) : Tracked(ctl.states[i])

\* No checkpoint is ahead of the controller.
NotAhead ==
  /\ updates \in Nat
  /\ saved # NoCheckpoint => /\ WellFormed(saved.curriculum, saved.sampled)
                             /\ saved.curriculum.round <= c.round
                             /\ saved.updates \in Nat /\ saved.updates <= updates

CurriculumInv == WellFormed(c, sampled) /\ NotAhead

\* The first rows of the pool, as a batch.
LEMMA FirstBatchIsBatch ==
  LET active == [k \in Slots |-> k - 1]
  IN  DOMAIN active = Slots /\ Range(active) = FirstBatch
<1> DEFINE active == [k \in Slots |-> k - 1]
<1>1. BatchSize \in Nat
  BY PoolAssumption
<1>2. \A i \in FirstBatch : i + 1 \in Slots /\ active[i + 1] = i
  BY <1>1 DEF FirstBatch, Slots
<1>3. \A k \in Slots : active[k] \in FirstBatch
  BY <1>1 DEF FirstBatch, Slots
<1> QED BY <1>2, <1>3 DEF Range

LEMMA NewControllerWellFormed == WellFormed(NewController, {}) /\ NewController.round = 1
<1>1. Batch(NewController) = FirstBatch
  BY FirstBatchIsBatch DEF NewController, Batch
<1>2. \A i \in FirstBatch : Tracked(NewController.states[i])
  BY FreshTracked DEF NewController
<1>3. /\ NewController.next \in BatchSize..PoolSize /\ NewController.round = 1
      /\ DOMAIN NewController.active = Slots /\ NewController.next = BatchSize
  BY PoolAssumption DEF NewController
<1>4. NewController =
        [active |-> NewController.active, next |-> NewController.next,
         states |-> NewController.states, retired |-> NewController.retired,
         introduced |-> NewController.introduced, round |-> NewController.round,
         completed |-> NewController.completed]
  BY DEF NewController
<1> QED BY <1>1, <1>2, <1>3, <1>4 DEF WellFormed, FirstBatch

LEMMA StartRoundWellFormed ==
  ASSUME NEW ctl, NEW rows, WellFormed(ctl, rows), NEW states
  PROVE  WellFormed(StartRound(ctl, states), {})
         /\ StartRound(ctl, states).round = ctl.round + 1
<1> DEFINE new == StartRound(ctl, states)
<1>1. Batch(new) = FirstBatch
  BY FirstBatchIsBatch DEF StartRound, Batch
<1>2. \A i \in FirstBatch : Tracked(new.states[i])
  BY FreshTracked DEF StartRound
<1>3. /\ new.next = BatchSize /\ new.next \in BatchSize..PoolSize
      /\ new.round = ctl.round + 1 /\ DOMAIN new.active = Slots
  BY PoolAssumption DEF StartRound
<1>4. ctl.round + 1 \in Nat \ {0}
  BY DEF WellFormed
<1>5. new = [active |-> new.active, next |-> new.next, states |-> new.states,
             retired |-> new.retired, introduced |-> new.introduced,
             round |-> new.round, completed |-> new.completed]
  BY DEF StartRound
<1> HIDE DEF new
<1>6. WellFormed(new, {})
  BY <1>1, <1>2, <1>3, <1>4, <1>5 DEF WellFormed, FirstBatch
<1> QED BY <1>3, <1>6 DEF new

\* The rows that enter are those at the cursor, one for every slot replaced.
LEMMA EnteringRows ==
  ASSUME NEW ctl, NEW rows, WellFormed(ctl, rows), NEW states
  PROVE  LET out == {k \in Slots : Replaced(ctl, states, k)}
         IN  /\ Cardinality(out) \in 0..Remaining(ctl)
             /\ {Entering(ctl, states, k) : k \in out} =
                  ctl.next..(ctl.next + Cardinality(out) - 1)
<1> DEFINE St == {k \in Slots : Stable(states[ctl.active[k]])}
           out == {k \in Slots : Replaced(ctl, states, k)}
           m == Cardinality(out)
<1>1. BatchSize \in Nat /\ ctl.next \in Int /\ Remaining(ctl) \in Nat
  BY PoolAssumption DEF WellFormed, Remaining
<1>2. ASSUME NEW k \in Slots
      PROVE  Rank(ctl, states, k) = RankIn(St, k)
  <2>1. StableUpTo(ctl, states, k) = UpTo(St, k)
    BY <1>1 DEF StableUpTo, UpTo, Slots
  <2> HIDE DEF St
  <2> QED BY <2>1 DEF Rank, RankIn
<1>3. out = {k \in St : RankIn(St, k) <= Remaining(ctl)}
  BY <1>2 DEF Replaced
<1>4. St \in SUBSET (1..BatchSize)
  BY DEF Slots
<1>5. \A k \in out : Entering(ctl, states, k) = ctl.next + RankIn(St, k) - 1
  BY <1>2 DEF Entering
<1> HIDE DEF St, out
<1>6. /\ m \in Nat /\ m <= Remaining(ctl)
      /\ {RankIn(St, k) : k \in out} = 1..m
  BY <1>1, <1>3, <1>4, RanksHaveNoGap
<1> HIDE DEF m
<1>7. ASSUME NEW i \in ctl.next..(ctl.next + m - 1)
      PROVE  \E k \in out : Entering(ctl, states, k) = i
  <2>1. i - ctl.next + 1 \in 1..m
    BY <1>1, <1>6
  <2>2. PICK k \in out : RankIn(St, k) = i - ctl.next + 1
    BY <1>6, <2>1
  <2> QED BY <1>1, <1>5, <2>2
<1>8. ASSUME NEW k \in out
      PROVE  Entering(ctl, states, k) \in ctl.next..(ctl.next + m - 1)
  <2>1. RankIn(St, k) \in 1..m
    BY <1>6
  <2> QED BY <1>1, <1>5, <1>6, <2>1
<1>9. {Entering(ctl, states, k) : k \in out} = ctl.next..(ctl.next + m - 1)
  BY <1>7, <1>8
<1> QED BY <1>1, <1>6, <1>9 DEF out, m

LEMMA ReplaceStableProperties ==
  ASSUME NEW ctl, NEW rows, WellFormed(ctl, rows), NEW states,
         \A i \in Batch(ctl) : Tracked(states[i])
  PROVE  LET new == ReplaceStable(ctl, states)
         IN  /\ WellFormed(new, rows \cup Batch(ctl))
             /\ new.round = ctl.round
             /\ (Batch(new) \ Batch(ctl)) \cap (rows \cup Batch(ctl)) = {}
             /\ \A i \in Batch(ctl) \ Batch(new) : Stable(states[i])
<1> DEFINE out == {k \in Slots : Replaced(ctl, states, k)}
           active == [k \in Slots |-> IF k \in out THEN Entering(ctl, states, k)
                                                   ELSE ctl.active[k]]
           m == Cardinality(out)
           entering == {Entering(ctl, states, k) : k \in out}
           new == ReplaceStable(ctl, states)
<1>1. m \in 0..Remaining(ctl) /\ entering = ctl.next..(ctl.next + m - 1)
  BY EnteringRows
<1>2. /\ ctl.next \in BatchSize..PoolSize /\ BatchSize \in Nat /\ PoolSize \in Nat
      /\ DOMAIN ctl.active = Slots /\ rows \cup Batch(ctl) = 0..(ctl.next - 1)
      /\ ctl.round \in Nat \ {0}
  BY PoolAssumption DEF WellFormed
<1>3. /\ new.active = active /\ new.next = ctl.next + m /\ new.round = ctl.round
      /\ new.states = [i \in Range(active) |->
                         IF i \in Batch(ctl) THEN states[i] ELSE Fresh(MeanRho(ctl, states))]
      /\ new = [active |-> new.active, next |-> new.next, states |-> new.states,
                retired |-> new.retired, introduced |-> new.introduced,
                round |-> new.round, completed |-> new.completed]
  BY DEF ReplaceStable
<1>4. out \subseteq Slots /\ \A k \in out : Stable(states[ctl.active[k]])
  BY DEF Replaced
<1> HIDE DEF new, m, out
<1>5. Range(active) = {ctl.active[k] : k \in Slots \ out} \cup entering
  BY <1>4 DEF Range
<1>6. Batch(ctl) = {ctl.active[k] : k \in Slots}
  BY <1>2 DEF Batch, Range
<1>7. Batch(new) = Range(active)
  BY <1>3 DEF Batch
<1>8. Batch(new) \subseteq Batch(ctl) \cup entering /\ entering \subseteq Batch(new)
  BY <1>5, <1>6, <1>7
<1> HIDE DEF entering
<1>9. (rows \cup Batch(ctl)) \cup Batch(new) = 0..(new.next - 1)
  <2>1. (rows \cup Batch(ctl)) \cup Batch(new) = (rows \cup Batch(ctl)) \cup entering
    BY <1>8
  <2>2. 0..(ctl.next - 1) \cup (ctl.next..(ctl.next + m - 1)) = 0..(ctl.next + m - 1)
    BY <1>1, <1>2
  <2> QED BY <1>1, <1>2, <1>3, <2>1, <2>2
<1>10. (Batch(new) \ Batch(ctl)) \cap (rows \cup Batch(ctl)) = {}
  <2>1. Batch(new) \ Batch(ctl) \subseteq entering
    BY <1>8
  <2>2. entering \cap (0..(ctl.next - 1)) = {}
    BY <1>1, <1>2
  <2> QED BY <1>2, <2>1, <2>2
<1>11. \A i \in Batch(ctl) \ Batch(new) : Stable(states[i])
  <2>1. ASSUME NEW i \in Batch(ctl) \ Batch(new)
        PROVE  \E k \in out : ctl.active[k] = i
    BY <1>5, <1>6, <1>7
  <2> QED BY <1>4, <2>1
<1>12. \A i \in Batch(new) : Tracked(new.states[i])
  <2> HIDE DEF active
  <2> QED BY <1>3, <1>7, FreshTracked
<1>13. new.next \in BatchSize..PoolSize /\ DOMAIN new.active = Slots
  BY <1>1, <1>2, <1>3 DEF Remaining
<1> HIDE DEF active
<1>14. WellFormed(new, rows \cup Batch(ctl))
  BY <1>2, <1>3, <1>9, <1>12, <1>13 DEF WellFormed
<1> QED BY <1>3, <1>10, <1>11, <1>14 DEF new

\* A restored controller is the saved one with histories cut to the window.
LEMMA LoadedWellFormed ==
  ASSUME NEW ctl, NEW rows, WellFormed(ctl, rows)
  PROVE  WellFormed(LoadStateDict(ctl), rows) /\ LoadStateDict(ctl).round = ctl.round
<1> DEFINE restored == [i \in Range(ctl.active) |->
                          [ctl.states[i] EXCEPT !.history = KeepRecent(@)]]
           new == LoadStateDict(ctl)
<1>1. new = [active |-> ctl.active, next |-> ctl.next, states |-> restored,
             retired |-> ctl.retired, introduced |-> ctl.introduced,
             round |-> ctl.round, completed |-> ctl.completed]
  BY DEF LoadStateDict, WellFormed
<1>2. ASSUME NEW i \in Batch(ctl)
      PROVE  Tracked(restored[i])
  <2> DEFINE state == ctl.states[i]
             h == state.history
             cut == KeepRecent(h)
  <2>1. Tracked(state)
    BY DEF WellFormed
  <2>2. PICK S : h \in Seq(S)
    BY <2>1 DEF Tracked
  <2>3. cut \in Seq(S) /\ Len(cut) <= Len(h)
    BY <2>2, KeepRecentShortens
  <2>4. Len(cut) \in Nat /\ Len(h) \in Nat
    BY <2>2, <2>3, LenProperties
  <2> HIDE DEF cut
  <2>5. restored[i] = [rho |-> state.rho, history |-> cut, samples |-> state.samples]
    <3>1. restored[i] = [state EXCEPT !.history = cut]
      BY DEF Batch, cut
    <3> HIDE DEF state, restored
    <3>2. state = [rho |-> state.rho, history |-> state.history, samples |-> state.samples]
      BY <2>1 DEF Tracked
    <3> QED BY <3>1, <3>2
  <2> HIDE DEF state, restored, h
  <2>6. /\ restored[i].rho = state.rho /\ restored[i].history = cut
        /\ restored[i].samples = state.samples
    BY <2>5
  <2>7. state.samples \in Nat /\ Len(h) <= state.samples
    BY <2>1 DEF Tracked, h
  <2> QED BY <2>3, <2>4, <2>5, <2>6, <2>7 DEF Tracked
<1> HIDE DEF restored, new
<1>3. /\ new.active = ctl.active /\ new.next = ctl.next /\ new.states = restored
      /\ new.retired = ctl.retired /\ new.introduced = ctl.introduced
      /\ new.round = ctl.round /\ new.completed = ctl.completed
  BY <1>1
<1>4. WellFormed(new, rows)
  BY <1>1, <1>2, <1>3 DEF WellFormed, Batch
<1> QED BY <1>3, <1>4 DEF new

-----------------------------------------------------------------------------
(* The steps.                                                                 *)
UpdateOf(accuracy) == [i \in Batch(c) |-> AfterSample(c.states[i], accuracy[i])]

LEMMA CurriculumUpdateStep ==
  ASSUME CurriculumInv, NEW accuracy, Update(accuracy)
  PROVE  /\ CurriculumInv'
         /\ c'.round > c.round => sampled \cup Batch(c) = Pool
         /\ c'.round = c.round =>
              /\ (Batch(c') \ Batch(c)) \cap sampled' = {}
              /\ \A i \in Batch(c) \ Batch(c') : c.states[i].samples + 1 >= MinHistory
<1> DEFINE states == UpdateOf(accuracy)
<1>1. /\ updates' = updates + 1 /\ UNCHANGED saved
      /\ \/ RoundOver(c) /\ c' = StartRound(c, states) /\ sampled' = {}
         \/ c' = ReplaceStable(c, states) /\ sampled' = sampled \cup Batch(c)
  BY DEF Update, UpdateOf
<1>2. \A i \in Batch(c) : Tracked(states[i]) /\ states[i].samples = c.states[i].samples + 1
  BY AfterSampleTracked DEF CurriculumInv, WellFormed, UpdateOf
<1> HIDE DEF states
<1>3. WellFormed(c, sampled) /\ c.round \in Nat
  BY DEF CurriculumInv, WellFormed
<1>4. CASE RoundOver(c) /\ c' = StartRound(c, states) /\ sampled' = {}
  <2>1. WellFormed(c', sampled') /\ c'.round = c.round + 1
    BY <1>3, <1>4, StartRoundWellFormed
  <2>2. NotAhead'
    BY <1>1, <1>3, <2>1 DEF CurriculumInv, NotAhead, WellFormed
  <2>3. sampled \cup Batch(c) = Pool
    BY <1>3, <1>4, PoolAssumption DEF RoundOver, Remaining, WellFormed, Pool
  <2> QED BY <1>3, <2>1, <2>2, <2>3 DEF CurriculumInv
<1>5. CASE c' = ReplaceStable(c, states) /\ sampled' = sampled \cup Batch(c)
  <2>1. /\ WellFormed(c', sampled') /\ c'.round = c.round
        /\ (Batch(c') \ Batch(c)) \cap sampled' = {}
        /\ \A i \in Batch(c) \ Batch(c') : Stable(states[i])
    BY <1>2, <1>3, <1>5, ReplaceStableProperties
  <2>2. NotAhead'
    BY <1>1, <1>3, <2>1 DEF CurriculumInv, NotAhead, WellFormed
  <2>3. ASSUME NEW i \in Batch(c) \ Batch(c')
        PROVE  c.states[i].samples + 1 >= MinHistory
    BY <1>2, <2>1, StableIsSampled
  <2> QED BY <1>3, <2>1, <2>2, <2>3 DEF CurriculumInv
<1> QED BY <1>1, <1>4, <1>5

LEMMA SaveStep ==
  ASSUME CurriculumInv, Save
  PROVE  CurriculumInv' /\ UNCHANGED <<c, updates>>
<1>1. /\ saved'.curriculum = c /\ saved'.sampled = sampled /\ saved'.updates = updates
      /\ UNCHANGED <<c, sampled, updates>>
  BY DEF Save
<1>2. c.round \in Nat /\ updates \in Nat /\ WellFormed(c, sampled)
  BY DEF CurriculumInv, WellFormed, NotAhead
<1>3. WellFormed(c', sampled') /\ WellFormed(saved'.curriculum, saved'.sampled)
  BY <1>1, <1>2
<1>4. NotAhead'
  BY <1>1, <1>2, <1>3 DEF NotAhead
<1> QED BY <1>1, <1>3, <1>4 DEF CurriculumInv

LEMMA RestartCurriculumStep ==
  ASSUME CurriculumInv, RestartCurriculum
  PROVE  CurriculumInv' /\ c'.round <= c.round /\ updates' <= updates /\ updates \in Nat /\ updates' \in Nat
<1>1. /\ c' = IF saved = NoCheckpoint THEN NewController ELSE LoadStateDict(saved.curriculum)
      /\ sampled' = saved.sampled /\ updates' = saved.updates /\ UNCHANGED saved
  BY DEF RestartCurriculum
<1>2. c.round \in Nat \ {0} /\ updates \in Nat
  BY DEF CurriculumInv, WellFormed, NotAhead
<1>3. CASE saved = NoCheckpoint
  <2>1. c' = NewController /\ sampled' = {} /\ updates' = 0 /\ saved' = NoCheckpoint
    BY <1>1, <1>3 DEF NoCheckpoint
  <2>2. WellFormed(c', sampled') /\ c'.round = 1
    BY <2>1, NewControllerWellFormed
  <2> QED BY <1>2, <2>1, <2>2 DEF CurriculumInv, NotAhead
<1>4. CASE saved # NoCheckpoint
  <2>1. /\ WellFormed(saved.curriculum, saved.sampled) /\ saved.curriculum.round <= c.round
        /\ saved.updates \in Nat /\ saved.updates <= updates
    BY <1>4 DEF CurriculumInv, NotAhead
  <2>2. WellFormed(c', sampled') /\ c'.round = saved.curriculum.round
    BY <1>1, <1>4, <2>1, LoadedWellFormed
  <2>3. NotAhead'
    BY <1>1, <2>1, <2>2 DEF NotAhead, WellFormed
  <2> QED BY <1>1, <1>2, <2>1, <2>2, <2>3 DEF CurriculumInv
<1> QED BY <1>3, <1>4

LEMMA CurriculumStep ==
  ASSUME CurriculumInv, [CurriculumNext]_curriculumVars
  PROVE  /\ CurriculumInv'
         /\ c'.round > c.round => sampled \cup Batch(c) = Pool
         /\ updates' = updates + 1 /\ c'.round = c.round =>
              /\ (Batch(c') \ Batch(c)) \cap sampled' = {}
              /\ \A i \in Batch(c) \ Batch(c') : c.states[i].samples + 1 >= MinHistory
<1>1. c.round \in Nat /\ updates \in Nat
  BY DEF CurriculumInv, WellFormed, NotAhead
<1>2. CASE \E accuracy \in [Batch(c) -> Accuracies] : Update(accuracy)
  BY <1>2, CurriculumUpdateStep
<1>3. CASE Save
  BY <1>1, <1>3, SaveStep
<1>4. CASE RestartCurriculum
  <2>1. c'.round \in Nat
    BY <1>4, RestartCurriculumStep DEF CurriculumInv, WellFormed
  <2> QED BY <1>1, <1>4, <2>1, RestartCurriculumStep
<1>5. CASE UNCHANGED curriculumVars
  <2>1. UNCHANGED <<c, saved, sampled, updates>>
    BY <1>5 DEF curriculumVars
  <2>2. CurriculumInv'
    BY <2>1 DEF CurriculumInv, NotAhead
  <2> QED BY <1>1, <2>1, <2>2
<1> QED BY <1>2, <1>3, <1>4, <1>5 DEF CurriculumNext

LEMMA CurriculumInvariance == CurriculumSpec => []CurriculumInv
<1>1. CurriculumInit => CurriculumInv
  BY NewControllerWellFormed DEF CurriculumInit, CurriculumInv, NotAhead
<1> QED BY <1>1, CurriculumStep, PTL DEF CurriculumSpec

\* The rows sampled in the round and those in the batch are the pool up to the cursor.
THEOREM RowsBeforeCursorHolds == CurriculumSpec => []RowsBeforeCursor
<1>1. CurriculumInv => RowsBeforeCursor
  BY DEF CurriculumInv, WellFormed, RowsBeforeCursor
<1> QED BY <1>1, CurriculumInvariance, PTL

\* No round is closed before every row of the pool was sampled in it.
THEOREM WholePoolSampledHolds == CurriculumSpec => WholePoolSampled
<1>1. CurriculumInv /\ [CurriculumNext]_curriculumVars => [c'.round > c.round => sampled \cup Batch(c) = Pool]_curriculumVars
  BY CurriculumStep
<1> QED BY <1>1, CurriculumInvariance, PTL DEF CurriculumSpec, WholePoolSampled

\* A row that has left the batch does not come back in its round, and none leaves
\* without a slope.
THEOREM LeavesOnceHolds == CurriculumSpec => LeavesOnce
<1>1. CurriculumInv /\ [CurriculumNext]_curriculumVars =>
        [updates' = updates + 1 /\ c'.round = c.round =>
           /\ (Batch(c') \ Batch(c)) \cap sampled' = {}
           /\ \A i \in Batch(c) \ Batch(c') : c.states[i].samples + 1 >= MinHistory]_curriculumVars
  BY CurriculumStep
<1> QED BY <1>1, CurriculumInvariance, PTL DEF CurriculumSpec, LeavesOnce
-----------------------------------------------------------------------------
(* Checkpoints: the batch has BatchSize rows of the pool; load_state_dict     *)
(* leaves every state as it is, and accepts the ratio of every row that was   *)
(* sampled.                                                                   *)
History == {h \in Seq(Int) : Len(h) <= Window}
Row == {s \in [rho : Int, history : History, samples : Nat] :
          s.samples > 0 => s.rho \in MinRho..MaxRho}

Sound(ctl) ==
  /\ ctl.active \in [Slots -> Pool]
  /\ \A j, k \in Slots : ctl.active[j] = ctl.active[k] => j = k
  /\ ctl.states \in [Batch(ctl) -> Row]

SoundInv ==
  /\ direction \in {1, -1}
  /\ Sound(c)
  /\ saved # NoCheckpoint => Sound(saved.curriculum)

\* The library states induction over the naturals for an operator; this is the
\* same fact about a set.
LEMMA SetInduction ==
  ASSUME NEW S, 0 \in S, \A n \in Nat : n \in S => n + 1 \in S
  PROVE  \A n \in Nat : n \in S
<1> DEFINE R == OpToRel(<, Nat)
<1>1. IsWellFoundedOn(R, Nat)
  BY NatLessThanWellFounded, Zenon
<1>2. \A n \in Nat : <<n, n + 1>> \in R
  BY DEF OpToRel
<1> HIDE DEF R
<1> SUFFICES ASSUME Nat \ S # {} PROVE FALSE
  OBVIOUS
<1>3. PICK m \in Nat \ S : \A k \in Nat \ S : ~(<<k, m>> \in R)
  BY <1>1, WFMin
<1>4. m # 0 /\ m - 1 \in Nat
  OBVIOUS
<1>5. m - 1 \notin S
  BY <1>4
<1>6. <<m - 1, m>> \in R
  BY <1>2, <1>4
<1> QED BY <1>3, <1>4, <1>5, <1>6

LEMMA KeepRecentFits ==
  ASSUME NEW h \in Seq(Int)
  PROVE  KeepRecent(h) \in History
<1>1. CASE Len(h) > Window
  <2> DEFINE from == Len(h) - Window + 1
  <2>1. from \in 1..Len(h) /\ Len(h) \in Int /\ Window \in Nat /\ Window >= 2
    BY <1>1, HistoryAssumption
  <2>2. \A i \in from..Len(h) : h[i] \in Int
    BY <2>1
  <2>3. Len(h) - from + 1 = Window /\ from <= Len(h) + 1
    BY <2>1
  <2> HIDE DEF from
  <2>4. SubSeq(h, from, Len(h)) \in Seq(Int) /\ Len(SubSeq(h, from, Len(h))) = Window
    BY <2>1, <2>2, <2>3, SubSeqProperties
  <2> QED BY <1>1, <2>1, <2>4 DEF KeepRecent, from, History
<1>2. CASE ~(Len(h) > Window)
  BY <1>2, HistoryAssumption DEF KeepRecent, History
<1> QED BY <1>1, <1>2

LEMMA KeepRecentKeeps ==
  ASSUME NEW h \in History
  PROVE  KeepRecent(h) = h
BY HistoryAssumption DEF KeepRecent, History

\* Every set of naturals that is not empty has a least member.
LEMMA LeastIsMember ==
  ASSUME NEW S \in SUBSET Nat, S # {}
  PROVE  Min(S) \in S
<1> DEFINE R == OpToRel(<, Nat)
<1>1. IsWellFoundedOn(R, Nat)
  BY NatLessThanWellFounded, Zenon
<1>2. \A x, y \in Nat : x < y => <<x, y>> \in R
  BY DEF OpToRel
<1> HIDE DEF R
<1>3. PICK m \in S : \A k \in S : ~(<<k, m>> \in R)
  BY <1>1, WFMin
<1>4. \A k \in S : ~(k < m)
  BY <1>2, <1>3
<1>5. \A k \in S : m =< k
  BY <1>4
<1> QED BY <1>3, <1>5 DEF Min

\* Floats and the bounds are integers.
LEMMA FloatsAreInts ==
  /\ \A f \in Floats : f \in Int
  /\ MinRho \in Int /\ MaxRho \in Int /\ InitialRho \in Int
<1>1. \A f \in Floats : f \in Nat
  BY FloatsAssumption
<1>2. \A f \in Floats : f \in Int
  BY <1>1
<1> QED BY <1>2, RhoAssumption

\* What is rounded is a float.
LEMMA RoundedIsFloat ==
  ASSUME NEW n \in Int, NEW d \in Nat \ {0}
  PROVE  Rounded(n, d) \in Floats
<1> DEFINE gap(f) == AbsoluteValue(f * d - n)
           gaps == {gap(f) : f \in Floats}
           near == {f \in Floats : gap(f) = Min(gaps)}
<1>1. \A f \in Floats : gap(f) \in Nat
  BY FloatsAssumption DEF AbsoluteValue
<1>2. Floats # {}
  BY RhoAssumption
<1>3. gaps \in SUBSET Nat /\ gaps # {}
  BY <1>1, <1>2
<1>4. Min(gaps) \in gaps
  <2> HIDE DEF gaps
  <2> QED BY <1>3, LeastIsMember
<1>5. near # {} /\ near \subseteq Floats
  BY <1>4
<1>6. Nearest(n, d) = near
  BY DEF Nearest
<1> HIDE DEF near
<1>7. (CHOOSE f \in near : EvenSignificand(f) \/ \A g \in near : ~EvenSignificand(g)) \in near
  <2>1. \E f \in near : EvenSignificand(f) \/ \A g \in near : ~EvenSignificand(g)
    BY <1>5, Zenon
  <2> QED BY <2>1, Zenon
<1>8. CASE n % d = 0 /\ n \div d \in Floats
  BY <1>8 DEF Rounded
<1>9. CASE ~(n % d = 0 /\ n \div d \in Floats)
  <2>1. Rounded(n, d) =
          CHOOSE f \in near : EvenSignificand(f) \/ \A g \in near : ~EvenSignificand(g)
    BY <1>6, <1>9 DEF Rounded
  <2> QED BY <1>5, <1>7, <2>1
<1> QED BY <1>8, <1>9

\* The rounded sums over the first n slots exist, so that the mean is the last of
\* them divided.
Sums(sum, ctl, states, n) ==
  sum = [k \in 0..n |->
           IF k = 0 THEN 0 ELSE Rounded(sum[k - 1] + states[ctl.active[k]].rho, 1)]

LEMMA SumsExist ==
  ASSUME NEW ctl, NEW states
  PROVE  \A n \in Nat : \E sum : Sums(sum, ctl, states, n)
<1> DEFINE Good == {n \in Nat : \E sum : Sums(sum, ctl, states, n)}
<1>1. 0 \in Good
  <2> DEFINE sum == [k \in 0..0 |-> 0]
  <2>1. Sums(sum, ctl, states, 0)
    BY DEF Sums
  <2> QED BY <2>1
<1>2. ASSUME NEW n \in Nat, n \in Good
      PROVE  n + 1 \in Good
  <2>1. PICK sum : Sums(sum, ctl, states, n)
    BY <1>2
  <2> DEFINE more == [k \in 0..(n + 1) |->
                        IF k = 0 THEN 0
                        ELSE Rounded(sum[k - 1] + states[ctl.active[k]].rho, 1)]
  <2>2. \A k \in 0..n : k \in 0..(n + 1) /\ more[k] = sum[k]
    BY <2>1 DEF Sums
  <2>3. \A k \in 0..(n + 1) : k # 0 => k - 1 \in 0..n
    OBVIOUS
  <2>4. \A k \in 0..(n + 1) :
          more[k] = IF k = 0 THEN 0
                    ELSE Rounded(more[k - 1] + states[ctl.active[k]].rho, 1)
    BY <2>2, <2>3
  <2>5. more = [k \in 0..(n + 1) |-> more[k]]
    OBVIOUS
  <2> HIDE DEF more
  <2>6. Sums(more, ctl, states, n + 1)
    BY <2>4, <2>5 DEF Sums
  <2> QED BY <2>6
<1> HIDE DEF Good
<1>3. \A n \in Nat : n \in Good
  BY <1>1, <1>2, SetInduction
<1> QED BY <1>3 DEF Good

\* The mean of a batch is a float, inside the bounds or not.
LEMMA MeanIsFloat ==
  ASSUME NEW ctl, NEW states, \A k \in Slots : states[ctl.active[k]].rho \in Int
  PROVE  MeanRho(ctl, states) \in Floats
<1> DEFINE sum == CHOOSE sum : Sums(sum, ctl, states, BatchSize)
<1>1. BatchSize \in Nat \ {0}
  BY PoolAssumption
<1>2. Sums(sum, ctl, states, BatchSize)
  BY <1>1, SumsExist
<1>3. MeanRho(ctl, states) = Rounded(sum[BatchSize], BatchSize)
  BY DEF MeanRho, Sums
<1> HIDE DEF sum
<1>4. \A k \in 0..BatchSize :
        sum[k] = IF k = 0 THEN 0 ELSE Rounded(sum[k - 1] + states[ctl.active[k]].rho, 1)
  BY <1>2 DEF Sums
<1> DEFINE Good == {k \in Nat : k \in 0..BatchSize => sum[k] \in Int}
<1>5. 0 \in Good
  BY <1>1, <1>4
<1>6. ASSUME NEW k \in Nat, k \in Good
      PROVE  k + 1 \in Good
  <2>1. ASSUME k + 1 \in 0..BatchSize
        PROVE  sum[k + 1] \in Int
    <3>1. k \in 0..BatchSize /\ k + 1 \in Slots /\ (k + 1) - 1 = k /\ k + 1 # 0
      BY <1>1, <2>1 DEF Slots
    <3> DEFINE more == sum[k] + states[ctl.active[k + 1]].rho
    <3>2. more \in Int
      BY <1>6, <3>1
    <3>3. sum[k + 1] = Rounded(more, 1)
      BY <1>4, <2>1, <3>1
    <3> HIDE DEF more
    <3> QED BY <3>2, <3>3, RoundedIsFloat, FloatsAreInts
  <2> QED BY <2>1
<1>7. BatchSize \in Good
  <2> HIDE DEF Good
  <2> QED BY <1>1, <1>5, <1>6, SetInduction
<1>8. sum[BatchSize] \in Int
  BY <1>1, <1>7
<1> QED BY <1>1, <1>3, <1>8, RoundedIsFloat

LEMMA FreshRow ==
  ASSUME NEW rho \in Int
  PROVE  Fresh(rho) \in Row
<1>1. << >> \in History
  BY HistoryAssumption DEF History
<1> QED BY <1>1 DEF Fresh, Row

LEMMA AfterSampleRow ==
  ASSUME NEW state \in Row, NEW accuracy \in Nat, direction \in {1, -1}
  PROVE  AfterSample(state, accuracy) \in Row
<1> DEFINE moved == state.rho + direction * Alpha * (accuracy - Target)
           float == Rounded(moved, 1)
<1>1. state.rho \in Int /\ state.history \in Seq(Int) /\ state.samples \in Nat
  BY DEF Row, History
<1>2. moved \in Int
  BY <1>1, FeedbackAssumption
<1> HIDE DEF moved
<1>3. float \in Int
  BY <1>2, RoundedIsFloat, FloatsAreInts
<1>4. AfterSample(state, accuracy) =
        [rho |-> Clip(float), history |-> KeepRecent(Append(state.history, state.rho)),
         samples |-> state.samples + 1]
  BY DEF AfterSample, moved
<1> HIDE DEF float
<1>5. Clip(float) \in MinRho..MaxRho /\ Clip(float) \in Int
  BY <1>3, RhoAssumption, FloatsAreInts DEF Clip
<1>6. KeepRecent(Append(state.history, state.rho)) \in History
  <2>1. Append(state.history, state.rho) \in Seq(Int)
    BY <1>1
  <2> QED BY <2>1, KeepRecentFits
<1> QED BY <1>1, <1>4, <1>5, <1>6 DEF Row

\* A batch has BatchSize rows.
LEMMA BatchOfSound ==
  ASSUME NEW ctl, Sound(ctl)
  PROVE  IsFiniteSet(Batch(ctl)) /\ Cardinality(Batch(ctl)) = BatchSize /\ Batch(ctl) \subseteq Pool
<1>1. IsFiniteSet(Slots) /\ Cardinality(Slots) = BatchSize
  BY PoolAssumption, FS_Interval DEF Slots
<1>2. Batch(ctl) = {ctl.active[k] : k \in Slots}
  BY DEF Sound, Batch, Range
<1>3. ctl.active \in Bijection(Slots, Batch(ctl))
  <2>1. ctl.active \in [Slots -> Batch(ctl)]
    BY <1>2 DEF Sound
  <2> QED BY <1>2, <2>1 DEF Sound, Bijection, Injection, Surjection, IsInjective
<1> QED BY <1>1, <1>2, <1>3, FS_Bijection DEF Sound, ExistsBijection

LEMMA SoundRestores ==
  ASSUME NEW ctl, NEW rows, WellFormed(ctl, rows), Sound(ctl)
  PROVE  /\ LoadStateDict(ctl) = ctl
         /\ Loadable(ctl) <=>
              \A i \in Batch(ctl) :
                ctl.states[i].samples = 0 => ctl.states[i].rho \in MinRho..MaxRho
<1>1. /\ Cardinality(Range(ctl.active)) = BatchSize /\ Range(ctl.active) \subseteq Pool
      /\ DOMAIN ctl.active = Slots /\ ctl.next \in BatchSize..PoolSize
      /\ ctl.states \in [Range(ctl.active) -> Row]
  BY BatchOfSound DEF Batch, Sound, WellFormed
<1>2. Loadable(ctl) <=> \A i \in Batch(ctl) :
        ctl.states[i].samples = 0 => ctl.states[i].rho \in MinRho..MaxRho
  <2>1. Loadable(ctl) <=> \A i \in Batch(ctl) : ctl.states[i].rho \in MinRho..MaxRho
    BY <1>1 DEF Loadable, Batch
  <2>2. ASSUME NEW i \in Batch(ctl), ctl.states[i].samples # 0
        PROVE  ctl.states[i].rho \in MinRho..MaxRho
    <3>1. ctl.states[i] \in Row
      BY <1>1 DEF Batch
    <3> QED BY <2>2, <3>1 DEF Row
  <2> QED BY <2>1, <2>2
<1> DEFINE cut == [i \in Range(ctl.active) |->
                     [ctl.states[i] EXCEPT !.history = KeepRecent(@)]]
<1>3. ASSUME NEW i \in Range(ctl.active)
      PROVE  [ctl.states[i] EXCEPT !.history = KeepRecent(@)] = ctl.states[i]
  <2>1. ctl.states[i] \in Row
    BY <1>1
  <2>2. KeepRecent(ctl.states[i].history) = ctl.states[i].history
    BY <2>1, KeepRecentKeeps DEF Row
  <2> QED BY <2>1, <2>2 DEF Row
<1>4. cut = ctl.states
  BY <1>1, <1>3
<1>5. LoadStateDict(ctl) =
        [active |-> ctl.active, next |-> ctl.next, states |-> cut,
         retired |-> ctl.retired, introduced |-> ctl.introduced,
         round |-> ctl.round, completed |-> ctl.completed]
  BY DEF LoadStateDict, WellFormed
<1> HIDE DEF cut
<1> QED BY <1>2, <1>4, <1>5 DEF WellFormed

LEMMA FirstBatchSound ==
  ASSUME NEW ctl, NEW rho \in Int,
         ctl.active = [k \in Slots |-> k - 1],
         ctl.states = [i \in FirstBatch |-> Fresh(rho)]
  PROVE  Sound(ctl)
<1>1. BatchSize \in Nat /\ PoolSize \in Nat /\ BatchSize <= PoolSize
  BY PoolAssumption
<1>2. Batch(ctl) = FirstBatch
  BY FirstBatchIsBatch DEF Batch
<1>3. ctl.states \in [Batch(ctl) -> Row]
  BY <1>2, FreshRow
<1>4. ctl.active \in [Slots -> Pool]
  BY <1>1 DEF Slots, Pool
<1>5. \A j, k \in Slots : ctl.active[j] = ctl.active[k] => j = k
  BY <1>1 DEF Slots
<1> QED BY <1>3, <1>4, <1>5 DEF Sound

\* What enters is new to the batch, and no two slots get the same row.
LEMMA ReplaceStableSound ==
  ASSUME NEW ctl, NEW rows, WellFormed(ctl, rows), Sound(ctl),
         NEW states \in [Batch(ctl) -> Row]
  PROVE  Sound(ReplaceStable(ctl, states))
<1> DEFINE St == {k \in Slots : Stable(states[ctl.active[k]])}
           out == {k \in Slots : Replaced(ctl, states, k)}
           m == Cardinality(out)
           active == [k \in Slots |-> IF k \in out THEN Entering(ctl, states, k)
                                                   ELSE ctl.active[k]]
           new == ReplaceStable(ctl, states)
<1>1. /\ m \in 0..Remaining(ctl)
      /\ \A k \in out : Entering(ctl, states, k) \in ctl.next..(ctl.next + m - 1)
  BY EnteringRows
<1>2. /\ ctl.next \in BatchSize..PoolSize /\ BatchSize \in Nat /\ PoolSize \in Nat
      /\ Batch(ctl) \subseteq 0..(ctl.next - 1)
  BY PoolAssumption DEF WellFormed
<1>3. /\ new.active = active
      /\ new.states = [i \in Range(active) |->
                         IF i \in Batch(ctl) THEN states[i] ELSE Fresh(MeanRho(ctl, states))]
  BY DEF ReplaceStable
<1>4. \A j, k \in out : j < k => Entering(ctl, states, j) < Entering(ctl, states, k)
  <2>1. St \in SUBSET (1..BatchSize)
    BY DEF Slots
  <2>2. ASSUME NEW k \in Slots
        PROVE  Rank(ctl, states, k) = RankIn(St, k)
    <3>1. StableUpTo(ctl, states, k) = UpTo(St, k)
      BY <1>2 DEF StableUpTo, UpTo, Slots
    <3> HIDE DEF St
    <3> QED BY <3>1 DEF Rank, RankIn
  <2>3. out \subseteq St /\ out \subseteq Slots
    BY DEF Replaced
  <2> HIDE DEF St, out
  <2>4. /\ \A k \in St : RankIn(St, k) \in Nat
        /\ \A j, k \in St : j < k => RankIn(St, j) < RankIn(St, k)
    BY <1>2, <2>1, RankProperties
  <2> QED BY <1>2, <2>2, <2>3, <2>4 DEF Entering
<1>5. out \subseteq Slots
  OBVIOUS
<1>6. \A k \in Slots : ctl.active[k] \in Batch(ctl)
  BY DEF Sound, Batch, Range
<1> HIDE DEF new, m, out
<1>7. active \in [Slots -> Pool]
  <2>1. \A k \in out : Entering(ctl, states, k) \in Pool
    BY <1>1, <1>2 DEF Remaining, Pool
  <2> QED BY <2>1 DEF Sound
<1>8. ASSUME NEW j \in Slots, NEW k \in Slots, active[j] = active[k]
      PROVE  j = k
  <2>1. CASE j \in out /\ k \in out
    <3>1. ~(j < k) /\ ~(k < j)
      BY <1>1, <1>2, <1>4, <1>8, <2>1
    <3> QED BY <3>1, <1>2 DEF Slots
  <2>2. CASE j \notin out /\ k \notin out
    BY <1>8, <2>2 DEF Sound
  <2>3. CASE (j \in out) # (k \in out)
    BY <1>1, <1>2, <1>6, <1>8, <2>3
  <2> QED BY <2>1, <2>2, <2>3
<1>9. Batch(new) = Range(active)
  BY <1>3 DEF Batch
<1>10. MeanRho(ctl, states) \in Int
  BY <1>6, MeanIsFloat, FloatsAreInts DEF Row
<1>11. new.states \in [Batch(new) -> Row]
  <2> HIDE DEF active
  <2> QED BY <1>3, <1>9, <1>10, FreshRow
<1> HIDE DEF active
<1>12. Sound(new)
  BY <1>3, <1>7, <1>8, <1>11 DEF Sound
<1> QED BY <1>12 DEF new

LEMMA UpdateSound ==
  ASSUME CurriculumInv, SoundInv, NEW accuracy \in [Batch(c) -> Accuracies], Update(accuracy)
  PROVE  SoundInv'
<1> DEFINE states == UpdateOf(accuracy)
<1>1. /\ UNCHANGED <<saved, direction>>
      /\ \/ c' = StartRound(c, states)
         \/ c' = ReplaceStable(c, states)
  BY DEF Update, UpdateOf
<1>2. states \in [Batch(c) -> Row]
  BY AfterSampleRow, FeedbackAssumption DEF SoundInv, Sound, UpdateOf
<1> HIDE DEF states
<1>3. Sound(StartRound(c, states))
  <2>1. \A k \in Slots : c.active[k] \in Batch(c)
    BY DEF SoundInv, Sound, Batch, Range
  <2>2. MeanRho(c, states) \in Int
    BY <1>2, <2>1, MeanIsFloat, FloatsAreInts DEF Row
  <2> QED BY <2>2, FirstBatchSound DEF StartRound
<1>4. Sound(ReplaceStable(c, states))
  BY <1>2, ReplaceStableSound DEF CurriculumInv, SoundInv
<1>5. Sound(c')
  BY <1>1, <1>3, <1>4
<1> QED BY <1>1, <1>5 DEF SoundInv

LEMMA SoundStep ==
  ASSUME CurriculumInv, SoundInv, [CurriculumNext]_curriculumVars
  PROVE  SoundInv'
<1>1. CASE \E accuracy \in [Batch(c) -> Accuracies] : Update(accuracy)
  BY <1>1, UpdateSound
<1>2. CASE Save
  <2>1. saved'.curriculum = c /\ UNCHANGED <<direction, c>>
    BY <1>2 DEF Save
  <2>2. Sound(c') /\ Sound(saved'.curriculum)
    BY <2>1 DEF SoundInv
  <2> QED BY <2>1, <2>2 DEF SoundInv
<1>3. CASE RestartCurriculum
  <2>1. /\ c' = IF saved = NoCheckpoint THEN NewController ELSE LoadStateDict(saved.curriculum)
        /\ UNCHANGED <<direction, saved>>
    BY <1>3 DEF RestartCurriculum
  <2>2. Sound(NewController)
    BY RhoAssumption, FloatsAreInts, FirstBatchSound DEF NewController
  <2>3. saved # NoCheckpoint => LoadStateDict(saved.curriculum) = saved.curriculum
    BY SoundRestores DEF CurriculumInv, NotAhead, SoundInv
  <2>4. Sound(c')
    BY <2>1, <2>2, <2>3 DEF SoundInv
  <2> QED BY <2>1, <2>4 DEF SoundInv
<1>4. CASE UNCHANGED curriculumVars
  <2>1. UNCHANGED <<direction, c, saved>>
    BY <1>4 DEF curriculumVars
  <2> QED BY <2>1 DEF SoundInv
<1> QED BY <1>1, <1>2, <1>3, <1>4 DEF CurriculumNext

LEMMA SoundInvariance == CurriculumSpec => []SoundInv
<1>1. CurriculumInit => SoundInv
  BY RhoAssumption, FloatsAreInts, FeedbackAssumption, FirstBatchSound DEF CurriculumInit, SoundInv, NewController
<1> QED BY <1>1, SoundStep, CurriculumInvariance, PTL DEF CurriculumSpec

\* A checkpoint taken at any moment restores the controller it was taken from, and
\* load_state_dict refuses it for nothing but the ratio of a row not yet sampled.
THEOREM RefusedOnlyForFreshRatioHolds == CurriculumSpec => []RefusedOnlyForFreshRatio
<1>1. CurriculumInv /\ SoundInv => RefusedOnlyForFreshRatio
  BY SoundRestores DEF CurriculumInv, SoundInv, RefusedOnlyForFreshRatio
<1> QED BY <1>1, CurriculumInvariance, SoundInvariance, PTL

=============================================================================

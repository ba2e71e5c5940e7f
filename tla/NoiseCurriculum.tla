--------------------------- MODULE NoiseCurriculum ---------------------------
(***************************************************************************)
(* PerSampleNoiseCurriculum (recipe/denoise_v2) and its mirror image       *)
(* PerSampleCorrectPrefixCurriculum (recipe/correct_prefix): a batch of    *)
(* active pool rows, each with a noise ratio rho of its own.  A row whose  *)
(* recent rhos have a flat slope is replaced by the next row of the pool;  *)
(* when the pool is exhausted an ordered round starts again.               *)
(*                                                                         *)
(* Ratios and accuracies are in units of a small fraction.  An average     *)
(* accuracy of a moves rho by direction * Alpha * (a - Target).  Floats is *)
(* the set of the floating-point numbers, and every sum and quotient is    *)
(* rounded to one of them.  The controller is a record, so that a          *)
(* checkpoint is a value of the same fields.                               *)
(***************************************************************************)
EXTENDS Integers, Sequences, FiniteSetsExt, Functions

CONSTANTS
  PoolSize, BatchSize,
  Floats,                    \* the non-negative floats, in units
  MinRho, MaxRho, InitialRho,
  Directions,                \* 1: denoise_v2, -1: correct_prefix
  Alpha, Target, Accuracies,
  Window, MinHistory,        \* history_window, min_history
  SlopeNum, SlopeDen,        \* slope_threshold = SlopeNum / SlopeDen
  MaxUpdates, MaxDeaths      \* bounds: updates of a run, process deaths

\* The checks of the constructor.
ASSUME PoolAssumption ==
  /\ PoolSize \in Nat /\ BatchSize \in 1..PoolSize
ASSUME FloatsAssumption == Floats \subseteq Nat
ASSUME RhoAssumption ==
  /\ {MinRho, MaxRho, InitialRho} \subseteq Floats /\ InitialRho \in MinRho..MaxRho
ASSUME FeedbackAssumption ==
  /\ Directions \subseteq {1, -1} /\ Alpha \in Nat /\ Target \in Nat
  /\ Accuracies \subseteq Nat
ASSUME HistoryAssumption ==
  /\ Window \in Nat /\ Window >= 2 /\ MinHistory \in 2..Window
  /\ SlopeNum \in Nat /\ SlopeDen \in Nat \ {0}
ASSUME BoundsAssumption == MaxUpdates \in Nat /\ MaxDeaths \in Nat

Pool == 0..(PoolSize - 1)
Slots == 1..BatchSize
FirstBatch == 0..(BatchSize - 1)

VARIABLES
  direction, \* which of the two recipes is run
  c,        \* the controller
  saved,    \* the checkpoint, or NoCheckpoint
  sampled,  \* rows sampled since the round began
  updates,  \* update() calls in this line of training
  deaths    \* process deaths

curriculumVars == <<direction, c, saved, sampled, updates, deaths>>

\* One row's state: SampleNoiseState.
Fresh(rho) == [rho |-> rho, history |-> << >>, samples |-> 0]

NewController ==
  [active |-> [k \in Slots |-> k - 1], next |-> BatchSize,
   states |-> [i \in FirstBatch |-> Fresh(InitialRho)],
   retired |-> 0, introduced |-> BatchSize, round |-> 1, completed |-> 0]

Batch(ctl) == Range(ctl.active)
Remaining(ctl) == PoolSize - ctl.next

AbsoluteValue(n) == IF n < 0 THEN -n ELSE n

(***************************************************************************)
(* The float nearest to n / d, which is n / d if that is a float; of two   *)
(* that are as near, the one with an even significand, which every other   *)
(* float has.  What is negative counts as 0, as feedback clips it anyway.  *)
(***************************************************************************)
Nearest(n, d) ==
  LET gaps == {AbsoluteValue(f * d - n) : f \in Floats}
      least == Min(gaps)
  IN  {f \in Floats : AbsoluteValue(f * d - n) = least}

EvenSignificand(f) == Cardinality({g \in Floats : g < f}) % 2 = 0

Rounded(n, d) ==
  LET near == Nearest(n, d)
  IN  IF n % d = 0 /\ n \div d \in Floats THEN n \div d
      ELSE CHOOSE f \in near : EvenSignificand(f) \/ \A g \in near : ~EvenSignificand(g)

(***************************************************************************)
(* The feedback of one row: the ratio it was rolled out with joins its     *)
(* history, then moves.                                                    *)
(***************************************************************************)
Clip(rho) == IF rho < MinRho THEN MinRho ELSE IF rho > MaxRho THEN MaxRho ELSE rho

KeepRecent(h) == IF Len(h) > Window THEN SubSeq(h, Len(h) - Window + 1, Len(h)) ELSE h

AfterSample(state, accuracy) ==
  [rho     |-> Clip(Rounded(state.rho + direction * Alpha * (accuracy - Target), 1)),
   history |-> KeepRecent(Append(state.history, state.rho)),
   samples |-> state.samples + 1]

(***************************************************************************)
(* The least-squares slope over the n positions of a history h is          *)
(*   6 * Moment(h) / (n * (n^2 - 1)),                                      *)
(* so |slope| <= SlopeNum / SlopeDen is an integer comparison.             *)
(***************************************************************************)
Moment(h) == MapThenSumSet(LAMBDA i : (2 * i - Len(h) - 1) * h[i], DOMAIN h)

\* Mutant: a slope is not required to be defined.
Stable_AnyHistory(state) ==
  LET n == Len(state.history) IN
    6 * AbsoluteValue(Moment(state.history)) * SlopeDen <= SlopeNum * n * (n * n - 1)

Stable(state) ==
  LET n == Len(state.history) IN
    /\ n >= MinHistory
    /\ 6 * AbsoluteValue(Moment(state.history)) * SlopeDen <= SlopeNum * n * (n * n - 1)

(***************************************************************************)
(* np.mean over the batch: ratios are added from the first to the last,    *)
(* every sum is rounded, and so is the quotient.  Nothing clips the mean:  *)
(* the mean of ratios that are all at a bound can lie beyond it.           *)
(***************************************************************************)
MeanRho(ctl, states) ==
  LET sum[k \in 0..BatchSize] ==
        IF k = 0 THEN 0 ELSE Rounded(sum[k - 1] + states[ctl.active[k]].rho, 1)
  IN  Rounded(sum[BatchSize], BatchSize)

(***************************************************************************)
(* Every row of the pool has entered the batch: the next round starts with *)
(* the first rows of the pool at the mean ratio.                           *)
(***************************************************************************)
\* Mutant: a round ends while one row has not entered the batch.
RoundOver_OneLeft(ctl) == Remaining(ctl) <= 1

RoundOver(ctl) == Remaining(ctl) = 0

StartRound(ctl, states) ==
  LET mean == MeanRho(ctl, states)
  IN  [active |-> [k \in Slots |-> k - 1], next |-> BatchSize,
       states |-> [i \in FirstBatch |-> Fresh(mean)],
       retired |-> ctl.retired + BatchSize,
       introduced |-> ctl.introduced + BatchSize,
       round |-> ctl.round + 1, completed |-> ctl.completed + 1]

(***************************************************************************)
(* The stable rows, in batch order, are replaced by the next rows of the   *)
(* pool while there are any.                                               *)
(***************************************************************************)
StableUpTo(ctl, states, k) == {j \in 1..k : Stable(states[ctl.active[j]])}
Rank(ctl, states, k) == Cardinality(StableUpTo(ctl, states, k))

Replaced(ctl, states, k) ==
  /\ Stable(states[ctl.active[k]])
  /\ Rank(ctl, states, k) <= Remaining(ctl)

\* Mutant: every replacement takes the row at the cursor.
Entering_Cursor(ctl, states, k) == ctl.next

Entering(ctl, states, k) == ctl.next + Rank(ctl, states, k) - 1

ReplaceStable(ctl, states) ==
  LET out == {k \in Slots : Replaced(ctl, states, k)}
      active == [k \in Slots |-> IF k \in out THEN Entering(ctl, states, k)
                                              ELSE ctl.active[k]]
      count == Cardinality(out)
      mean == MeanRho(ctl, states)
  IN  [active |-> active, next |-> ctl.next + count,
       states |-> [i \in Range(active) |->
                     IF i \in Batch(ctl) THEN states[i] ELSE Fresh(mean)],
       retired |-> ctl.retired + count, introduced |-> ctl.introduced + count,
       round |-> ctl.round, completed |-> ctl.completed]

(***************************************************************************)
(* state_dict and load_state_dict with its checks.  NoCheckpoint has no    *)
(* fields a checkpoint has.                                                *)
(***************************************************************************)
NoCheckpoint == [curriculum |-> << >>, sampled |-> {}, updates |-> 0]

Loadable(state) ==
  /\ DOMAIN state.active = Slots
  /\ Cardinality(Range(state.active)) = BatchSize
  /\ Range(state.active) \subseteq Pool
  /\ \A i \in Range(state.active) : /\ i \in DOMAIN state.states
                                    /\ state.states[i].rho \in MinRho..MaxRho
  /\ state.next \in BatchSize..PoolSize

\* Mutant: the histories are not restored.
LoadStateDict_NoHistory(state) ==
  [state EXCEPT !.states = [i \in Range(state.active) |->
                              [state.states[i] EXCEPT !.history = << >>]]]

LoadStateDict(state) ==
  [state EXCEPT !.states = [i \in Range(state.active) |->
     [state.states[i] EXCEPT !.history = KeepRecent(@)]]]

----------------------------------------------------------------------------
CurriculumInit ==
  /\ direction \in Directions
  /\ c = NewController
  /\ saved = NoCheckpoint
  /\ sampled = {} /\ updates = 0 /\ deaths = 0

(* update(): one average accuracy for every active row. *)
Update(accuracy) ==
  LET states == [i \in Batch(c) |-> AfterSample(c.states[i], accuracy[i])]
  IN  /\ updates < MaxUpdates
      /\ \/ /\ RoundOver(c)
            /\ c' = StartRound(c, states)
            /\ sampled' = {}
         \/ /\ ~RoundOver(c)
            /\ c' = ReplaceStable(c, states)
            /\ sampled' = sampled \cup Batch(c)
      /\ updates' = updates + 1
      /\ UNCHANGED <<direction, saved, deaths>>

(* _save_v2_state; what is sampled since the round began goes with it. *)
Save ==
  /\ saved' = [curriculum |-> c, sampled |-> sampled, updates |-> updates]
  /\ UNCHANGED <<direction, c, sampled, updates, deaths>>

(* A new process constructs the controller and loads the checkpoint; one    *)
(* that load_state_dict refuses ends the run.                               *)
RestartCurriculum ==
  /\ deaths < MaxDeaths
  /\ saved # NoCheckpoint => Loadable(saved.curriculum)
  /\ deaths' = deaths + 1
  /\ c' = IF saved = NoCheckpoint THEN NewController ELSE LoadStateDict(saved.curriculum)
  /\ sampled' = saved.sampled
  /\ updates' = saved.updates
  /\ UNCHANGED <<direction, saved>>

CurriculumNext ==
  \/ \E accuracy \in [Batch(c) -> Accuracies] : Update(accuracy)
  \/ Save
  \/ RestartCurriculum

CurriculumSpec == CurriculumInit /\ [][CurriculumNext]_curriculumVars
----------------------------------------------------------------------------
(* Rows enter in pool order without a gap: those before the cursor are the  *)
(* ones sampled in this round and the ones in the batch.                    *)
RowsBeforeCursor == sampled \cup Batch(c) = 0..(c.next - 1)

(* A checkpoint, whenever it is taken, restores the controller it was taken *)
(* from, and passes every check of load_state_dict but one: the ratio of a  *)
(* row that has not been sampled since it entered may be out of bounds, and *)
(* if it is the checkpoint is refused.                                      *)
RefusedOnlyForFreshRatio ==
  /\ LoadStateDict(c) = c
  /\ Loadable(c) <=> \A i \in Batch(c) :
                        c.states[i].samples = 0 => c.states[i].rho \in MinRho..MaxRho

(* "This update guarantees the last introduced rows were sampled at least   *)
(* once": a round is closed only when every row of the pool was sampled in  *)
(* it.                                                                      *)
WholePoolSampled ==
  [][c'.round > c.round => sampled \cup Batch(c) = Pool]_curriculumVars

(* Within a round a row that has left the batch does not come back, and     *)
(* only rows with a defined slope leave.                                    *)
LeavesOnce ==
  [][updates' = updates + 1 /\ c'.round = c.round =>
       /\ (Batch(c') \ Batch(c)) \cap sampled' = {}
       /\ \A i \in Batch(c) \ Batch(c') : c.states[i].samples + 1 >= MinHistory]_curriculumVars
=============================================================================

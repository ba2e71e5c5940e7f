--------------------------- MODULE MaskController ---------------------------
(***************************************************************************)
(* The state machine inside MLPChannelInterventionController, the object   *)
(* that owns the channel mask of one worker.                               *)
(*                                                                         *)
(* A controller is a record.  Tensors are abstracted to their PROVENANCE:  *)
(*   version   mask_version, the number of refreshes                       *)
(*   masked    the version whose selection keep_mask holds; 0: every       *)
(*             channel is kept                                             *)
(*   contrast  the version whose assignment causal_assignment_contrast     *)
(*             describes; 0: not initialised                               *)
(*   baseline  the batches folded into activation_ema, oldest first        *)
(*   score     the evidence folded into selection_score, oldest first:     *)
(*             the batches it was measured on and what it was measured     *)
(*             against (the size of the baseline, or the contrast)         *)
(*   gaps      the steps whose reward gap is in causal_reward_gap_ema      *)
(*   pending   the clean batches accumulated since the last refresh        *)
(* A batch is named by the training step it was produced at.               *)
(***************************************************************************)
EXTENDS Naturals, Sequences

Strategies == {"top_relative_activation", "random", "weighted_random", "soft_top"}

\* relative_activation, output_contribution, gradient_activation, causal_ablation
ScoreMethods == {"relative", "output", "gradient", "causal"}
ForwardScores == {"relative", "output", "gradient"}

Evidence == [batch : Seq(Nat), against : Nat]

Controller ==
  [version : Nat, masked : Nat, contrast : Nat, baseline : Seq(Nat),
   score : Seq(Evidence), gaps : Seq(Nat), pending : Seq(Nat)]

\* __init__
NewController ==
  [version |-> 0, masked |-> 0, contrast |-> 0, baseline |-> << >>,
   score |-> << >>, gaps |-> << >>, pending |-> << >>]

UsesSoftTop(strategy) == strategy \in {"soft_top", "weighted_random"}
NeedsForwardScore(method) == method \in ForwardScores

(***************************************************************************)
(* _accumulate_score: one clean batch joins the pending sums.              *)
(***************************************************************************)
AccumulateScore(c, step) == [c EXCEPT !.pending = Append(@, step)]

(***************************************************************************)
(* observe_causal_ablation: the reward gap of `step` becomes evidence only *)
(* when a gap baseline and a contrast exist; the gap then joins the        *)
(* baseline.                                                               *)
(***************************************************************************)
ObserveCausalAblation(c, step) ==
  LET informative == c.gaps # << >> /\ c.contrast # 0
  IN  [c EXCEPT
        !.score = IF informative
                    THEN Append(@, [batch |-> <<step>>, against |-> c.contrast])
                    ELSE @,
        !.gaps = Append(@, step)]

(***************************************************************************)
(* refresh_mask, in three parts: the pending batch is turned into          *)
(* evidence, a mask is selected, and the batch joins the baseline.         *)
(***************************************************************************)
ConsumesPending(c, cfg) ==
  /\ NeedsForwardScore(cfg.method)
  /\ cfg.strategy = "top_relative_activation" \/ c.pending # << >>

\* RuntimeError: no clean response activation was accumulated
RefreshFails(c, cfg) == ConsumesPending(c, cfg) /\ c.pending = << >>

\* Mutant: the baseline is updated before the score is computed.
ScoreAfterBatch_BaselineFirst(c, cfg) ==
  IF ConsumesPending(c, cfg)
    THEN Append(c.score, [batch |-> c.pending,
                          against |-> IF cfg.method = "relative"
                                        THEN Len(c.baseline) + 1 ELSE 0])
    ELSE c.score

\* The first relative batch only establishes the baseline.
ScoreAfterBatch(c, cfg) ==
  IF ConsumesPending(c, cfg) /\ ~(cfg.method = "relative" /\ c.baseline = << >>)
    THEN Append(c.score, [batch |-> c.pending,
                          against |-> IF cfg.method = "relative"
                                        THEN Len(c.baseline) ELSE 0])
    ELSE c.score

BaselineAfterBatch(c, cfg) ==
  IF ConsumesPending(c, cfg) /\ cfg.method = "relative"
    THEN c.baseline \o c.pending
    ELSE c.baseline

\* top_relative_activation masks nothing before the first relative score.
SelectsChannels(c, cfg) ==
  cfg.strategy = "top_relative_activation" => ScoreAfterBatch(c, cfg) # << >>

\* Mutant: the accumulated sums are not cleared.
RefreshMask_KeepsPending(c, cfg) ==
  [version  |-> c.version + 1,
   masked   |-> IF SelectsChannels(c, cfg) THEN c.version + 1 ELSE 0,
   contrast |-> IF cfg.method = "causal" THEN c.version + 1 ELSE c.contrast,
   baseline |-> BaselineAfterBatch(c, cfg),
   score    |-> ScoreAfterBatch(c, cfg),
   gaps     |-> c.gaps,
   pending  |-> c.pending]

RefreshMask(c, cfg) ==
  [version  |-> c.version + 1,
   masked   |-> IF SelectsChannels(c, cfg) THEN c.version + 1 ELSE 0,
   contrast |-> IF cfg.method = "causal" THEN c.version + 1 ELSE c.contrast,
   baseline |-> BaselineAfterBatch(c, cfg),
   score    |-> ScoreAfterBatch(c, cfg),
   gaps     |-> c.gaps,
   pending  |-> << >>]

(***************************************************************************)
(* state_dict holds everything but the accumulated sums; load_state_dict   *)
(* leaves those of the receiver alone.                                     *)
(***************************************************************************)
SavedState ==
  [version : Nat, masked : Nat, contrast : Nat, baseline : Seq(Nat),
   score : Seq(Evidence), gaps : Seq(Nat)]

StateDict(c) ==
  [version |-> c.version, masked |-> c.masked, contrast |-> c.contrast,
   baseline |-> c.baseline, score |-> c.score, gaps |-> c.gaps]

\* Mutant: the assignment contrast is not restored.
LoadStateDict_NoContrast(c, saved) ==
  [version |-> saved.version, masked |-> saved.masked, contrast |-> c.contrast,
   baseline |-> saved.baseline, score |-> saved.score, gaps |-> saved.gaps,
   pending |-> c.pending]

LoadStateDict(c, saved) ==
  [version |-> saved.version, masked |-> saved.masked, contrast |-> saved.contrast,
   baseline |-> saved.baseline, score |-> saved.score, gaps |-> saved.gaps,
   pending |-> c.pending]

CopyMaskStateFrom(c, other) == LoadStateDict(c, StateDict(other))
=============================================================================

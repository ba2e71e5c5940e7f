-------------------------- MODULE LossAggregation --------------------------
(* What a token of a row weighs in the loss that an actor update accumulates  *)
(* over micro-batches.  verl/workers/actor/loss_aggregation.py, agg_loss of   *)
(* verl/trainer/ppo/core_algos.py, and the groups of dp_actor.update_policy.  *)
(* A group of rows is a sequence of their trainable token counts; a weight is *)
(* a fraction <<numerator, denominator>>.                                     *)
EXTENDS Naturals, Sequences, FiniteSets, SequencesExt

AggModes == {"token-mean", "seq-mean-token-sum", "seq-mean-token-mean", "seq-mean-token-sum-norm"}

CONSTANT ResponseWidth   \* response_mask.shape[-1]
ASSUME WidthAssumption == ResponseWidth \in Nat \ {0}

TokenCount(tokens) == FoldSeq(+, 0, tokens)
ActiveCount(tokens) == Cardinality({i \in DOMAIN tokens : tokens[i] > 0})

\* agg_loss of one group: the derivative with respect to a token of a row of n tokens.
TokenWeight(mode, tokens, n) ==
  CASE mode = "token-mean"              -> <<1, TokenCount(tokens)>>
    [] mode = "seq-mean-token-sum"      -> <<1, ActiveCount(tokens)>>
    [] mode = "seq-mean-token-mean"     -> <<1, n * ActiveCount(tokens)>>
    [] mode = "seq-mean-token-sum-norm" -> <<1, ResponseWidth>>

\* aggregation_mass: the part of agg_loss's denominator that adds up over micro-batches.
\* Mutant: a token mean is weighted by rows.
AggregationMass_Rows(mode, tokens) ==
  IF mode = "seq-mean-token-sum-norm" THEN 1 ELSE ActiveCount(tokens)

AggregationMass(mode, tokens) ==
  CASE mode = "token-mean"              -> TokenCount(tokens)
    [] mode = "seq-mean-token-sum-norm" -> 1
    [] OTHER                            -> ActiveCount(tokens)

\* micro_batch_aggregation_scale: the share of a micro-batch in the mini-batch.
AggregationScale(mode, local, whole) ==
  IF TokenCount(local) = 0 \/ AggregationMass(mode, whole) = 0
  THEN <<0, 1>>
  ELSE IF mode = "seq-mean-token-sum-norm"
       THEN <<1, 1>>
       ELSE <<AggregationMass(mode, local), AggregationMass(mode, whole)>>

\* A token's weight in the accumulated loss: group aggregate, scaled to the mini-batch and
\* divided by loss_group_normalizer.
ContributedWeight(mode, local, whole, normalizer, n) ==
  LET weight == TokenWeight(mode, local, n)
      scale  == AggregationScale(mode, local, whole)
  IN <<weight[1] * scale[1], weight[2] * scale[2] * normalizer>>

SameFraction(a, b) == a[1] * b[2] = b[1] * a[2]
=============================================================================

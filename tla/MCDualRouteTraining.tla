------------------------ MODULE MCDualRouteTraining ------------------------
(***************************************************************************)
(* Instances of DualRouteTraining: configuration sets chosen so that every *)
(* strategy, score and refresh schedule the recipe accepts occurs.         *)
(***************************************************************************)
EXTENDS DualRouteTraining

Cfg(strategy, method, resample, everyStep) ==
  [strategy |-> strategy, method |-> method, resample |-> resample,
   everyStep |-> everyStep, warmup |-> 1, refreshFreq |-> 2, saveFreq |-> 2,
   criticWarmup |-> 0]

\* The recipe's scripts: every strategy, score and resampling mode together.
ShippedConfigs ==
  {Cfg(st, m, r, e) : st \in Strategies, m \in ScoreMethods,
                      r \in BOOLEAN, e \in BOOLEAN}

\* Sparse refreshes, late warm-ups and a critic warm-up.
SparseConfigs ==
  {[strategy |-> st, method |-> m, resample |-> r, everyStep |-> FALSE,
    warmup |-> w, refreshFreq |-> 3, saveFreq |-> 1, criticWarmup |-> cw] :
     st \in {"top_relative_activation", "soft_top"},
     m \in {"relative", "gradient", "causal"},
     r \in BOOLEAN, w \in {1, 2}, cw \in {0, 2}}

AllConfigs == ShippedConfigs \cup SparseConfigs
=============================================================================

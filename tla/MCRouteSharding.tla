--------------------------- MODULE MCRouteSharding ---------------------------
(* Small batches: two or four ranks, with and without tensor-parallel         *)
(* rollout, balancing and dynamic micro-batches; the last three cannot give   *)
(* every rank or shard the same number of rows of both routes.                *)
EXTENDS RouteSharding

Config(prompts, clean, masked, world, tp, balance, dynamic, micro, maxTokens, top, agg, lengths) ==
  [prompts |-> prompts, clean |-> clean, masked |-> masked, world |-> world, tp |-> tp,
   balance |-> balance, dynamic |-> dynamic, micro |-> micro, maxTokens |-> maxTokens, top |-> top,
   agg |-> agg, lens |-> lengths]

Two   == {1024, 4096}
Three == {256, 1024, 4096}

MCConfigs == {
  Config(2, 3, 3, 2, 1, TRUE,  TRUE,  1, 5000, FALSE, "token-mean", Two),
  Config(1, 4, 2, 2, 2, TRUE,  FALSE, 1, 4096, TRUE, "seq-mean-token-mean", Three),
  Config(1, 6, 6, 2, 1, FALSE, TRUE,  1, 5000, FALSE, "seq-mean-token-sum-norm", Two),
  Config(1, 4, 4, 4, 2, TRUE,  FALSE, 2, 4096, FALSE, "seq-mean-token-sum", Two),
  Config(1, 2, 6, 4, 4, FALSE, TRUE,  1, 4096, FALSE, "token-mean", Two),
  Config(1, 2, 2, 4, 1, FALSE, TRUE,  1, 4096, FALSE, "token-mean", Two),
  Config(1, 3, 3, 2, 2, TRUE,  TRUE,  1, 4096, TRUE, "token-mean", Two) }
=============================================================================

---------------------------- MODULE RouteSharding ----------------------------
(* The rows of one dual-route step, from the driver to the ranks and back:    *)
(* building the round-robin batch, generating both routes on rollout shards,  *)
(* balancing rows over ranks, recomputing log-probs, updating and reducing    *)
(* the mask score.  Every rank runs its own program of collective operations; *)
(* an operation completes when all ranks are at one of its kind, and ranks    *)
(* that disagree wait for ever.                                               *)
(*   recipe/mlp_channel_mask/{trainer,worker,intervention}.py                 *)
(*   verl/workers/actor/dp_actor.py, verl/protocol.py                         *)
(*   verl/single_controller/base/decorator.py, verl/utils/seqlen_balancing.py *)
EXTENDS SeqlenBalance, LossAggregation

CONSTANT Configs   \* [prompts, clean, masked, world, tp, balance, dynamic, micro, maxTokens, top, agg, lens]

Routes == <<"clean", "masked">>

\* What _validate_recipe_contract and the start-up checks accept; c.lens are the
\* token counts a generated row can have.
ValidConfig(c) ==
  /\ {c.prompts, c.world, c.micro, c.maxTokens} \subseteq Nat \ {0}
  /\ {c.clean, c.masked} \subseteq Nat \ {0, 1}
  /\ c.tp \in 1..c.world /\ c.world % c.tp = 0
  /\ (c.prompts * (c.clean + c.masked)) % c.world = 0
  /\ {c.balance, c.dynamic, c.top} \subseteq BOOLEAN /\ c.agg \in AggModes
  /\ c.lens # {} /\ c.lens \subseteq 1..c.maxTokens

ASSUME ConfigsAssumption == \A c \in Configs : ValidConfig(c)

VARIABLES config,
          pc,        \* where fit() is
          batch,     \* the driver's rows: uid, what the rollout returned, old log-prob
          lens,      \* length of each generated row, by dual_rollout_order
          shard,     \* of each rank and route, the rows of the call that runs
          prog,      \* of each rank, the collective operations it has left
          ran,       \* of each rank and route, the index lists forwarded so far
          loss,      \* of each rank, what each row weighs in the loss of the update so far
          pending,   \* of each rank's controller, the rows in the pending score sums
          score      \* of each rank, the rows the reduced score was summed over
vars == <<config, pc, batch, lens, shard, prog, ran, loss, pending, score>>

Ranks == 1..config.world

-----------------------------------------------------------------------------
(* Batches.                                                                   *)

Argsort(keys) == ByWeight(keys, DOMAIN keys)

\* numpy.flatnonzero(route_values == route)
RowsOfRoute(rows, route) == Ascending({i \in DOMAIN rows : rows[i].out.route = route})

\* Equal contiguous chunks, the split of every dispatch.
Chunk(rows, chunks, i) ==
  LET size == Len(rows) \div chunks IN SubSeq(rows, (i - 1) * size + 1, i * size)

Splits(n, size) ==
  [m \in 1..CeilDiv(n, size) |->
    [i \in 1..(IF m * size <= n THEN size ELSE n - (m - 1) * size) |-> (m - 1) * size + i]]

\* Positions of the routes' rows taken in turn, the longer route's rest at the end.
RoundRobinIndices(clean, masked) ==
  LET longest == IF clean > masked THEN clean ELSE masked
  IN FlattenSeq([o \in 1..longest |-> (IF o <= clean THEN <<o>> ELSE <<>>)
                                      \o (IF o <= masked THEN <<clean + o>> ELSE <<>>)])

BuildDualRouteBatch(c) ==
  LET Repeat(route, n) == [i \in 1..(c.prompts * n) |->
                            [prompt |-> (i - 1) \div n + 1, route |-> route]]
      clean  == Repeat("clean", c.clean)
      masked == Repeat("masked", c.masked)
      dual   == Select(clean \o masked, RoundRobinIndices(Len(clean), Len(masked)))
  IN [i \in DOMAIN dual |->
       [uid  |-> <<dual[i].prompt, dual[i].route>>,
        out  |-> [prompt |-> dual[i].prompt, route |-> dual[i].route, order |-> i],
        logp |-> 0]]

-----------------------------------------------------------------------------
(* Rollout.  The workers of one tensor-parallel group receive the same shard, *)
(* and only the first of them is collected.                                   *)

RolloutRank(r) == (r - 1) \div config.tp + 1
IsCollect(r) == (r - 1) % config.tp = 0
RolloutShard(r) == Chunk(batch, config.world \div config.tp, RolloutRank(r))

\* Clean rows, then masked rows, then back to the order of the shard.
\* Mutant: the output keeps the order of generation.
DualOutput_Unordered(rows) ==
  LET output == FlattenSeq([k \in DOMAIN Routes |-> Select(rows, RowsOfRoute(rows, Routes[k]))])
  IN [i \in DOMAIN output |-> output[i].out]

DualOutput(rows) ==
  LET output == FlattenSeq([k \in DOMAIN Routes |-> Select(rows, RowsOfRoute(rows, Routes[k]))])
      sorted == Argsort([i \in DOMAIN output |-> output[i].out.order])
  IN [i \in DOMAIN output |-> output[sorted[i]].out]

\* Outputs of the collected ranks, joined to the driver's rows by position.
Collected ==
  FlattenSeq([r \in Ranks |-> IF IsCollect(r) THEN DualOutput(RolloutShard(r)) ELSE <<>>])

HasBothRoutes(rows) == \A k \in DOMAIN Routes : RowsOfRoute(rows, Routes[k]) # <<>>

Fail == pc' = "failed" /\ UNCHANGED <<config, batch, lens, shard, prog, ran, loss, pending, score>>

GenerateDual ==
  /\ pc = "generate"
  /\ IF \A r \in Ranks : HasBothRoutes(RolloutShard(r))
     THEN /\ LET outs == Collected
             IN batch' = [i \in DOMAIN batch |-> [batch[i] EXCEPT !.out = outs[i]]]
          /\ lens' \in [DOMAIN batch -> config.lens]
          /\ pc' = IF config.balance THEN "balance" ELSE "log_prob"
          /\ UNCHANGED <<config, shard, prog, ran, loss, pending, score>>
     ELSE Fail

-----------------------------------------------------------------------------
(* Route-aware balancing.                                                     *)

RowWork == [i \in DOMAIN batch |-> Workload(lens[batch[i].out.order])]
QuotaDivides(route) == Len(RowsOfRoute(batch, route)) % config.world = 0

\* Rows of a route for each rank, the same number for all.
RoutePartition(route) ==
  LET rows  == RowsOfRoute(batch, route)
      parts == BalancedPartitions(Select(RowWork, rows), config.world, TRUE)
  IN [r \in Ranks |-> Select(rows, parts[r])]

\* The rows of both routes for each rank.
\* Mutant: rows are partitioned without regard to their route.
PartitionOfRanks_Mixed ==
  LET parts == BalancedPartitions(RowWork, config.world, TRUE)
  IN [r \in Ranks |-> Range(parts[r])]

PartitionOfRanks ==
  LET parts == [k \in DOMAIN Routes |-> RoutePartition(Routes[k])]
  IN [r \in Ranks |-> UNION {Range(parts[k][r]) : k \in DOMAIN Routes}]

\* Light rows at both ends.
InShard(rows) ==
  LET sorted == ByWeight(RowWork, rows) IN EveryOther(sorted) \o Reverse(TheOthers(sorted))

BalanceDualRouteBatch ==
  /\ pc = "balance"
  /\ IF \A k \in DOMAIN Routes : QuotaDivides(Routes[k])
     THEN /\ LET rows == PartitionOfRanks
             IN batch' = Select(batch, FlattenSeq([r \in Ranks |-> InShard(rows[r])]))
          /\ pc' = "log_prob"
          /\ UNCHANGED <<config, lens, shard, prog, ran, loss, pending, score>>
     ELSE Fail

-----------------------------------------------------------------------------
(* Calls on the actor: each rank takes its shard and builds micro-batches of  *)
(* one route each.  With dynamic batching their number is agreed by a MAX     *)
(* reduction; forwards gather sharded weights and step reduces the gradient   *)
(* norm, so both need every rank.                                             *)

ActorShard(r) == Chunk(batch, config.world, r)

\* A rank's rows of a route, by their rollout order.
RouteBatch(r, route) ==
  LET rows == ActorShard(r)
      idx  == RowsOfRoute(rows, route)
  IN [i \in DOMAIN idx |-> rows[idx[i]].out.order]

LensOf(orders) == [i \in DOMAIN orders |-> lens[orders[i]]]
Present(local) ==
  FlattenSeq([k \in DOMAIN Routes |-> IF local[Routes[k]] # <<>> THEN <<Routes[k]>> ELSE <<>>])

CountOp(route) == [op |-> "count", route |-> route]
RunOp(route)   == [op |-> "run", route |-> route]
StepOp         == [op |-> "step"]
ReduceOp       == [op |-> "reduce"]
Forwards(route, batches) ==
  [m \in DOMAIN batches |-> [op |-> "forward", route |-> route, rows |-> batches[m]]]

\* A route's forwards, once its index lists are known.
Expand(program, route, batches) ==
  FlattenSeq([i \in DOMAIN program |-> IF program[i] = RunOp(route)
                                       THEN Forwards(route, batches) ELSE <<program[i]>>])

FixedForwards(local, route) == Forwards(route, Splits(Len(local[route]), config.micro))

\* compute_log_prob packs and runs one route after the other.
LogProbProgram(local) ==
  LET routes == Present(local)
  IN FlattenSeq([k \in DOMAIN routes |->
       IF config.dynamic THEN <<CountOp(routes[k]), RunOp(routes[k])>>
                         ELSE FixedForwards(local, routes[k])])

\* update_policy packs all routes before the first forward.
UpdateProgram(local) ==
  LET routes == Present(local)
  IN IF config.dynamic
     THEN [k \in DOMAIN routes |-> CountOp(routes[k])] \o [k \in DOMAIN routes |-> RunOp(routes[k])]
          \o <<StepOp>>
     ELSE FlattenSeq([k \in DOMAIN routes |-> FixedForwards(local, routes[k])]) \o <<StepOp>>

Dispatch(at, running, Program(_)) ==
  /\ pc = at
  /\ pc' = running
  /\ shard' = [r \in Ranks |-> [route \in Range(Routes) |-> RouteBatch(r, route)]]
  /\ prog' = [r \in Ranks |-> Program(shard'[r])]
  /\ ran' = [r \in Ranks |-> [route \in Range(Routes) |-> <<>>]]
  /\ UNCHANGED <<config, batch, lens, loss, pending, score>>

DispatchLogProb == Dispatch("log_prob", "run_log_prob", LogProbProgram)
DispatchUpdate  == Dispatch("update", "run_update", UpdateProgram)

AllAt(op) == \A r \in Ranks : prog[r] # <<>> /\ Head(prog[r]).op = op

\* The agreed number is more than a rank has rows: its assertion fails.
AgreeOnCount ==
  /\ AllAt("count")
  /\ LET Local(r)  == LensOf(shard[r][Head(prog[r]).route])
         offers    == {ProposedCount(Local(r), config.maxTokens) : r \in Ranks}
         agreed    == CHOOSE n \in offers : \A o \in offers : n >= o
     IN IF \A r \in Ranks : agreed <= Len(Local(r))
        THEN /\ prog' = [r \in Ranks |-> Expand(Tail(prog[r]), Head(prog[r]).route,
                                                MicroBatches(Local(r), agreed))]
             /\ UNCHANGED <<config, pc, batch, lens, shard, ran, loss, pending, score>>
        ELSE Fail

\* Orders of a forwarded micro-batch, which its clean backward adds to the sums.
ForwardedRows(r) ==
  LET head == Head(prog[r]) IN Select(shard[r][head.route], head.rows)

\* Both routes are loss groups, and loss_group_normalizer is 2.  Token counts are taken in
\* blocks of 256, a row's length standing for its response.
Trainable(orders) == [i \in DOMAIN orders |-> lens[orders[i]] \div 256]

\* Weights of a micro-batch's rows in the loss of the rank's mini-batch, its whole shard.
Contribution(r) ==
  LET rows  == ForwardedRows(r)
      local == Trainable(rows)
      whole == Trainable(shard[r][Head(prog[r]).route])
  IN [i \in DOMAIN rows |->
       [row    |-> rows[i],
        weight |-> ContributedWeight(config.agg, local, whole, Len(Routes), local[i])]]

CollectsActivation(r) == pc = "run_update" /\ Head(prog[r]).route = "clean"

Forward ==
  /\ AllAt("forward")
  /\ ran' = [r \in Ranks |-> [ran[r] EXCEPT ![Head(prog[r]).route] = Append(@, Head(prog[r]).rows)]]
  /\ loss' = [r \in Ranks |-> loss[r] \o IF pc = "run_update" THEN Contribution(r) ELSE <<>>]
  /\ pending' = [r \in Ranks |-> pending[r] \o IF CollectsActivation(r) THEN ForwardedRows(r) ELSE <<>>]
  /\ prog' = [r \in Ranks |-> Tail(prog[r])]
  /\ UNCHANGED <<config, pc, batch, lens, shard, score>>

OptimizerStep ==
  /\ AllAt("step")
  /\ prog' = [r \in Ranks |-> Tail(prog[r])]
  /\ UNCHANGED <<config, pc, batch, lens, shard, ran, loss, pending, score>>

AllReturned == \A r \in Ranks : prog[r] = <<>>

\* Log-probs of a rank, first in the order of the forwards, then of its shard.
LogProbs(r) ==
  LET routes == Present(shard[r])
      OfRoute(route) ==
        LET outs == Select(shard[r][route], FlattenSeq(ran[r][route]))
        IN IF config.dynamic THEN RestoreDynamicBatch(outs, ran[r][route]) ELSE outs
      grouped == FlattenSeq([k \in DOMAIN routes |-> RowsOfRoute(ActorShard(r), routes[k])])
      joined  == FlattenSeq([k \in DOMAIN routes |-> OfRoute(routes[k])])
  IN Select(joined, Argsort(grouped))

CollectLogProb ==
  /\ pc = "run_log_prob" /\ AllReturned
  /\ LET all == FlattenSeq([r \in Ranks |-> LogProbs(r)])
     IN batch' = [i \in DOMAIN batch |-> [batch[i] EXCEPT !.logp = all[i]]]
  /\ pc' = "update"
  /\ UNCHANGED <<config, lens, shard, prog, ran, loss, pending, score>>

\* refresh_mask: a rank enters the reduction for the strict strategy, or with pending sums.
EntersReduction(r) == config.top \/ pending[r] # <<>>

DispatchRefresh ==
  /\ pc = "run_update" /\ AllReturned
  /\ pc' = "run_refresh"
  /\ prog' = [r \in Ranks |-> IF EntersReduction(r) THEN <<ReduceOp>> ELSE <<>>]
  /\ UNCHANGED <<config, batch, lens, shard, ran, loss, pending, score>>

\* SUM over ranks.
\* Mutant: the score is selected from the rank's own sums.
Reduced_Local(r) == pending[r]

Reduced(r) == FlattenSeq(pending)

\* Refused when no rank had a sample.
Reduce ==
  /\ AllAt("reduce")
  /\ IF \A r \in Ranks : Reduced(r) # <<>>
     THEN /\ score' = [r \in Ranks |-> Reduced(r)]
          /\ pending' = [r \in Ranks |-> <<>>]
          /\ prog' = [r \in Ranks |-> <<>>]
          /\ UNCHANGED <<config, pc, batch, lens, shard, ran, loss>>
     ELSE Fail

EndRefresh ==
  /\ pc = "run_refresh" /\ AllReturned
  /\ pc' = "done"
  /\ UNCHANGED <<config, batch, lens, shard, prog, ran, loss, pending, score>>

Init ==
  /\ config \in Configs
  /\ pc = "generate"
  /\ batch = BuildDualRouteBatch(config)
  /\ lens = <<>>
  /\ shard = [r \in Ranks |-> [k \in Range(Routes) |-> <<>>]]
  /\ prog = [r \in Ranks |-> <<>>]
  /\ ran = [r \in Ranks |-> [k \in Range(Routes) |-> <<>>]]
  /\ loss = [r \in Ranks |-> <<>>]
  /\ pending = [r \in Ranks |-> <<>>]
  /\ score = [r \in Ranks |-> <<>>]

Step ==
  \/ GenerateDual \/ BalanceDualRouteBatch
  \/ DispatchLogProb \/ AgreeOnCount \/ Forward \/ CollectLogProb
  \/ DispatchUpdate \/ OptimizerStep
  \/ DispatchRefresh \/ Reduce \/ EndRefresh

\* Finished, refused, or ranks at different collectives.
Hung == ~AllReturned /\ \A op \in {"count", "forward", "step", "reduce"} : ~AllAt(op)
Stop == (pc \in {"done", "failed"} \/ Hung) /\ UNCHANGED vars

Next == Step \/ Stop
Spec == Init /\ [][Next]_vars

-----------------------------------------------------------------------------
\* The driver joins rollout output to its rows by position.  Whatever the shards,
\* tensor-parallel groups and routes, a row keeps the uid of its prompt and route, by
\* which advantages are grouped.
RowsReturned ==
  \A i \in DOMAIN batch : batch[i].uid = <<batch[i].out.prompt, batch[i].out.route>>

\* Old log-probs pass through grouping by route, micro-batches packed by load and two
\* inverse permutations, and are joined by position: each row has those of its own
\* response when the policy ratio is formed.
LogProbsOfOwnRow ==
  pc \in {"update", "run_update", "run_refresh", "done"} =>
    \A i \in DOMAIN batch : batch[i].logp = batch[i].out.order

\* After route-aware balancing the loads of the ranks differ, route by route, by no more
\* than the widest group of neighbours the differencing method starts from, the bound
\* that pairing heavy with light parts gives.
RankLoad(r, route) ==
  LET local == LensOf(RouteBatch(r, route)) IN Total([i \in DOMAIN local |-> Workload(local[i])])

EvenLoad ==
  pc = "log_prob" /\ config.balance =>
    \A k \in DOMAIN Routes :
      LET work  == Select(RowWork, RowsOfRoute(batch, Routes[k]))
          loads == {RankLoad(r, Routes[k]) : r \in Ranks}
          bound == WidestGroup(work, config.world)
      IN \A a, b \in loads : a - b <= bound

\* However a rank's shard is balanced, packed into micro-batches and routed, the loss it
\* accumulates is that of the undivided shard: every row enters once, and each of its tokens
\* weighs what loss_agg_mode gives it among all the rank's rows of its route.
LossOfWholeShard ==
  pc \in {"run_refresh", "done"} =>
    \A r \in Ranks, k \in DOMAIN Routes :
      LET rows     == shard[r][Routes[k]]
          tokens   == Trainable(rows)
          Due(i)   == LET w == TokenWeight(config.agg, tokens, tokens[i])
                      IN <<w[1], w[2] * Len(Routes)>>
      IN \A i \in DOMAIN rows : \E given \in DOMAIN loss[r] :
           /\ {e \in DOMAIN loss[r] : loss[r][e].row = rows[i]} = {given}
           /\ tokens[i] > 0 => SameFraction(loss[r][given].weight, Due(i))

\* Every rank selects the next mask from the same sums: each clean row of the step
\* counted once, wherever it was trained.
ScoreOfAllCleanRows ==
  pc = "done" => \A r \in Ranks :
    /\ Range(score[r]) = {batch[i].out.order : i \in {j \in DOMAIN batch : batch[j].out.route = "clean"}}
    /\ IsInjective(score[r])

\* A step whose routes divide evenly over ranks passes every collective: no rank waits for
\* another at a different one, none lacks a route, none is asked for more micro-batches than
\* it has rows.  With as many masked rows as clean ones, round-robin rows are enough;
\* otherwise it takes the balancer, and a rollout of one shard.
EvenQuota(c) ==
  /\ (c.prompts * c.clean) % c.world = 0 /\ (c.prompts * c.masked) % c.world = 0
  /\ c.clean = c.masked \/ (c.balance /\ c.tp = c.world)

NoRankLeftWaiting == EvenQuota(config) => pc # "failed" /\ ~Hung

=============================================================================

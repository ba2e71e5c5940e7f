---------------------------- MODULE MCRewardRouter ----------------------------
(* Two workers and five requests with up to three attempts each.              *)
EXTENDS RewardRouter, TLC

CONSTANTS r1, r2, r3, r4, r5
MCRequests == {r1, r2, r3, r4, r5}
Symmetric  == Permutations(MCRequests)
=============================================================================

---------------------------- MODULE MCAgentLoop ----------------------------
(* Two workers with a row each, one worker with two rows, and rows with one   *)
(* or two calls at a time; one token in the rate limiter.                     *)
EXTENDS AgentLoop

Config(rowsOf, servers, freeCache, interaction, logprobs, parallel, threads, turns, users) ==
  [rowsOf |-> rowsOf, servers |-> servers, freeCache |-> freeCache, interaction |-> interaction,
   logprobs |-> logprobs, parallel |-> parallel, threads |-> threads, rate |-> 1, turns |-> turns,
   users |-> users]

MCConfigs == {
  Config(<<{1}, {2}>>, {1, 2}, TRUE,  FALSE, TRUE,  1, 2, 0, 0),
  Config(<<{1, 2}>>,   {1, 2}, TRUE,  FALSE, FALSE, 1, 1, 2, 0),
  Config(<<{1}>>,      {1},    FALSE, TRUE,  TRUE,  2, 2, 0, 0),
  Config(<<{1}, {2}>>, {1},    TRUE,  TRUE,  TRUE,  1, 2, 0, 1),
  Config(<<{1, 2}>>,   {1},    FALSE, FALSE, TRUE,  2, 2, 0, 0) }
=============================================================================

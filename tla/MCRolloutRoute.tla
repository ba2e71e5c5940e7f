--------------------------- MODULE MCRolloutRoute ---------------------------
(* Three training steps and two deaths: refreshes, validations and resumes *)
(* fall before and after rollouts in every order, and route, mask, weights *)
(* and cache can each be left over from an earlier call.                   *)
EXTENDS RolloutRoute
=============================================================================

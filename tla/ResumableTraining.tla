------------------------- MODULE ResumableTraining -------------------------
(***************************************************************************)
(* What checkpointing promises to training, whatever the files look like:  *)
(* there is one live state, one saved state, and a restarted process goes  *)
(* on from exactly what was saved.  A state couples the number of finished *)
(* steps, the weights and the mask state: they are saved, and come back,   *)
(* together.                                                               *)
(***************************************************************************)
EXTENDS Naturals, Sequences

CONSTANT InitialState   \* the state of a process that starts from scratch

VARIABLES live, saved

(* Work finishes at most one step, with at most one update and one new      *)
(* assignment of the mask, which comes with a version of its own.           *)
Work ==
  /\ live'.finished \in {live.finished, live.finished + 1}
  /\ live'.weights \in {live.weights, Append(live.weights, live.finished + 1)}
  /\ live'.mask.version \in {live.mask.version, live.mask.version + 1}
  /\ live'.mask.version = live.mask.version =>
       /\ live'.mask.masked = live.mask.masked
       /\ live'.mask.contrast = live.mask.contrast
  /\ saved' = saved

Save == saved' = live /\ live' = live

Resume == live' = saved /\ saved' = saved

InitResumable == live = InitialState /\ saved = InitialState

NextResumable == Work \/ Save \/ Resume

SpecResumable == InitResumable /\ [][NextResumable]_<<live, saved>>
=============================================================================

------------------------- MODULE MCDenoiseTraining -------------------------
(***************************************************************************)
(* Instances of DenoiseTraining: three problems, of which two are sampled  *)
(* in a round.                                                             *)
(***************************************************************************)
EXTENDS DenoiseTraining

Cfg(v2, dapo, freq, cap, cont, uid) ==
  [v2 |-> v2, dapo |-> dapo, saveFreq |-> freq, cap |-> cap,
   continuous |-> cont, problemAsUid |-> uid]

\* Both loops with and without the curriculum; the save frequency decides
\* which directories exist when the epochs end.
AllPaths ==
  {Cfg(v2, dapo, freq, cap, cont, FALSE) :
     v2 \in BOOLEAN, dapo \in BOOLEAN, freq \in {1, 2}, cap \in {0, 2},
     cont \in BOOLEAN}

\* The flags of the dynamic-sampling scripts of denoise_v2.
ShippedScript == {Cfg(TRUE, TRUE, 1, 2, FALSE, TRUE)}

ThreeProblems == 1..3
ProfiledSteps == {2, 3}
=============================================================================

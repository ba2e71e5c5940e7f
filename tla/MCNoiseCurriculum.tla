------------------------- MODULE MCNoiseCurriculum -------------------------
(***************************************************************************)
(* Instances of NoiseCurriculum.  One unit of rho is 1/32: a target        *)
(* accuracy of 3/4 with alpha 1/4 moves it by -2, 0 or 2 units.  Floats    *)
(* have significands of five bits: 32nds below 1, 16ths below 2, 8ths      *)
(* below 4, as far as three ratios add up to.  Five bits are the fewest    *)
(* with which the mean of three equal ratios can be a greater one.         *)
(***************************************************************************)
EXTENDS NoiseCurriculum

FiveBits == {m * u : m \in 0..31, u \in {1, 2, 4}}

\* Average accuracies of 1/2 and 1, in quarters.
NearTarget == {2, 4}

\* Both recipes: the noise grows, the correct prefix shrinks, with accuracy.
BothRecipes == {1, -1}
=============================================================================

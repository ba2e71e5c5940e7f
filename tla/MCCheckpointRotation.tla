------------------------ MODULE MCCheckpointRotation ------------------------
(***************************************************************************)
(* Instances of CheckpointRotation: two ranks, and the values of           *)
(* max_ckpt_to_keep that tell the cases of the rotation apart.             *)
(***************************************************************************)
EXTENDS CheckpointRotation

\* Rank names; rank "r0" is torch.distributed rank 0.
TwoRanks == {"r0", "r1"}

ActorOnly == <<"actor">>
ActorCritic == <<"actor", "critic">>

\* The actor keeps two checkpoints, the critic all.
KeepTwo == [actor |-> 2, critic |-> 0]
\* remove_previous_ckpt_in_save, and the recipes' max_actor_ckpt_to_keep=1
KeepOne == [actor |-> 1, critic |-> 1]
=============================================================================

-------------------------- MODULE CheckpointRotation --------------------------
(***************************************************************************)
(* _save_checkpoint / _load_checkpoint of RayPPOTrainer and, under it, the *)
(* FSDPCheckpointManager of every rank: one driver calls save_checkpoint   *)
(* on all ranks for the actor and then for the critic, and records the     *)
(* step in the tracker file once both have returned.  Ranks run            *)
(* concurrently and meet at two barriers.  Rank Zero first removes the     *)
(* checkpoints that exceed max_ckpt_to_keep, from a list that lives in     *)
(* memory only.  The job may be killed between any two steps.              *)
(*                                                                         *)
(* A rank's files of one checkpoint (model, optimizer and extra state) are *)
(* one shard: absent, torn while it is being written, or whole.            *)
(***************************************************************************)
EXTENDS Naturals, Sequences, FiniteSets

CONSTANTS
  Ranks, Zero,   \* the ranks of a worker group; the one that rotates
  Roles,         \* the worker groups in the order they are saved
  Keep,          \* max_ckpt_to_keep of each role, 0 for None
  TotalSteps,    \* training steps; each one is checkpointed
  MaxCrashes     \* bound on the number of times the job is killed

ASSUME RanksAssumption == Zero \in Ranks /\ IsFiniteSet(Ranks)
ASSUME RolesAssumption ==
  /\ Roles \in Seq({"actor", "critic"}) /\ Roles # << >>
  /\ \A i, j \in DOMAIN Roles : Roles[i] = Roles[j] => i = j
ASSUME KeepAssumption == Keep \in [{"actor", "critic"} -> Nat]
ASSUME StepsAssumption == TotalSteps \in Nat \ {0} /\ MaxCrashes \in Nat

RoleSet == {Roles[i] : i \in DOMAIN Roles}
Steps == 1..TotalSteps

\* What the tracker file holds.
NoTracker == [file |-> "absent", step |-> 0]
EmptyTracker == [file |-> "empty", step |-> 0]
Naming(s) == [file |-> "written", step |-> s]

VARIABLES
  pc,        \* what the driver does next
  step,      \* global_steps
  turn,      \* position in Roles of the group being saved
  rank,      \* where each rank is in save_checkpoint
  previous,  \* previous_saved_paths of rank Zero's manager of each role
  shards,    \* the files: step, role, rank
  tracker,   \* latest_checkpointed_iteration.txt
  crashes

memory == <<pc, step, turn, rank, previous>>
disk == <<shards, tracker>>
vars == <<memory, disk, crashes>>

Process == crashes + 1
Role == Roles[turn]

Absent == [by |-> 0, whole |-> FALSE]
Torn(p) == [by |-> p, whole |-> FALSE]
Whole(p) == [by |-> p, whole |-> TRUE]

Idle == [r \in Ranks |-> "idle"]
Nothing == [role \in RoleSet |-> << >>]

Init ==
  /\ pc = "load" /\ step = 0 /\ turn = 1 /\ rank = Idle /\ previous = Nothing
  /\ shards = [s \in Steps |-> [role \in RoleSet |-> [r \in Ranks |-> Absent]]]
  /\ tracker = NoTracker
  /\ crashes = 0

----------------------------------------------------------------------------
(***************************************************************************)
(* _load_checkpoint with resume_mode auto.  find_latest_ckpt_path converts *)
(* the tracker's text to a number and looks for global_step_N, which       *)
(* outlives the removal of the worker groups' folders in it.               *)
(***************************************************************************)
CompleteAt(s) == \A role \in RoleSet, r \in Ranks : shards[s][role][r].whole

LoadCheckpoint ==
  /\ pc = "load"
  /\ \/ /\ tracker.file = "absent"
        /\ pc' = "train" /\ UNCHANGED step
     \/ /\ tracker.file = "empty"
        /\ pc' = "unreadable" /\ UNCHANGED step
     \/ /\ tracker.file = "written"
        /\ pc' = IF CompleteAt(tracker.step) THEN "train" ELSE "missing_shards"
        /\ step' = tracker.step
  /\ UNCHANGED <<turn, rank, previous, disk, crashes>>

\* A training step, then _save_checkpoint calls the first worker group.
Train ==
  /\ pc = "train" /\ step < TotalSteps
  /\ step' = step + 1
  /\ pc' = "save" /\ turn' = 1
  /\ rank' = [r \in Ranks |-> "called"]
  /\ UNCHANGED <<previous, disk, crashes>>

Finish ==
  /\ pc = "train" /\ step = TotalSteps
  /\ pc' = "done"
  /\ UNCHANGED <<step, turn, rank, previous, disk, crashes>>

(***************************************************************************)
(* Rank Zero keeps the last Keep - 1 paths, so that the one about to be    *)
(* written is the Keep-th.  rmtree is one step: a killed removal leaves a  *)
(* partial directory, which loads no better than none.                     *)
(***************************************************************************)
Rotates(role) == Keep[role] > 0 /\ Len(previous[role]) >= Keep[role]

\* Mutant: rotation makes room for one more than the new checkpoint.
KeepStart_OneMore(role) == Len(previous[role]) - Keep[role] + 2

KeepStart(role) == Len(previous[role]) - Keep[role] + 1

Expired(role) ==
  IF Rotates(role) THEN {previous[role][i] : i \in 1..KeepStart(role)} ELSE {}

Rotate ==
  /\ rank[Zero] = "called"
  /\ rank' = [rank EXCEPT ![Zero] = "ready"]
  /\ shards' = [s \in Steps |->
                  IF s \in Expired(Role)
                    THEN [shards[s] EXCEPT ![Role] = [r \in Ranks |-> Absent]]
                    ELSE shards[s]]
  /\ previous' = IF Rotates(Role)
                   THEN [previous EXCEPT ![Role] =
                           SubSeq(@, KeepStart(Role) + 1, Len(@))]
                   ELSE previous
  /\ UNCHANGED <<pc, step, turn, tracker, crashes>>

\* The other ranks only create the directory.
MakeDirectory(r) ==
  /\ r # Zero /\ rank[r] = "called"
  /\ rank' = [rank EXCEPT ![r] = "ready"]
  /\ UNCHANGED <<pc, step, turn, previous, disk, crashes>>

\* The first barrier, then the files are opened.
BeginWrite(r) ==
  /\ rank[r] = "ready" /\ \A q \in Ranks : rank[q] # "called"
  /\ rank' = [rank EXCEPT ![r] = "writing"]
  /\ shards' = [shards EXCEPT ![step][Role][r] = Torn(Process)]
  /\ UNCHANGED <<pc, step, turn, previous, tracker, crashes>>

FinishWrite(r) ==
  /\ rank[r] = "writing"
  /\ rank' = [rank EXCEPT ![r] = "written"]
  /\ shards' = [shards EXCEPT ![step][Role][r] = Whole(Process)]
  /\ UNCHANGED <<pc, step, turn, previous, tracker, crashes>>

\* The second barrier, then the path is remembered.
Return(r) ==
  /\ rank[r] = "written" /\ \A q \in Ranks : rank[q] \in {"written", "returned"}
  /\ rank' = [rank EXCEPT ![r] = "returned"]
  /\ previous' = IF r = Zero
                   THEN [previous EXCEPT ![Role] = Append(@, step)]
                   ELSE previous
  /\ UNCHANGED <<pc, step, turn, disk, crashes>>

\* The driver waits for every rank, then calls the next group.
Saved == pc = "save" /\ \A r \in Ranks : rank[r] = "returned"

\* Mutant: the group that was saved is called again.
NextGroup_Again ==
  /\ Saved /\ turn < Len(Roles)
  /\ rank' = [r \in Ranks |-> "called"]
  /\ UNCHANGED <<pc, step, turn, previous, disk, crashes>>

NextGroup ==
  /\ Saved /\ turn < Len(Roles)
  /\ turn' = turn + 1
  /\ rank' = [r \in Ranks |-> "called"]
  /\ UNCHANGED <<pc, step, previous, disk, crashes>>

\* open(..., "w") truncates the tracker; the step reaches it at the close.
OpenTracker ==
  /\ Saved /\ turn = Len(Roles)
  /\ rank' = Idle
  /\ tracker' = EmptyTracker
  /\ pc' = "write_tracker"
  /\ UNCHANGED <<step, turn, previous, shards, crashes>>

WriteTracker ==
  /\ pc = "write_tracker"
  /\ tracker' = Naming(step)
  /\ pc' = "train"
  /\ UNCHANGED <<step, turn, rank, previous, shards, crashes>>

(***************************************************************************)
(* The job is killed and started again: the list of saved paths is lost.   *)
(***************************************************************************)
Restart ==
  /\ crashes < MaxCrashes
  /\ crashes' = crashes + 1
  /\ pc' = "load" /\ step' = 0 /\ turn' = 1 /\ rank' = Idle /\ previous' = Nothing
  /\ UNCHANGED disk

Ended == {"done", "unreadable", "missing_shards"}

Terminated == pc \in Ended /\ UNCHANGED vars

Save ==
  \/ Rotate
  \/ NextGroup
  \/ OpenTracker
  \/ WriteTracker
  \/ \E r \in Ranks : MakeDirectory(r) \/ BeginWrite(r) \/ FinishWrite(r) \/ Return(r)

Run == LoadCheckpoint \/ Train \/ Finish \/ Save

Next == Run \/ Restart \/ Terminated

Spec == Init /\ [][Next]_vars

\* Every process of the job keeps running until the job is killed.
FairSpec == Spec /\ WF_vars(Run)
----------------------------------------------------------------------------
(* A resumed job never finds shards missing.                                *)
ResumeSucceeds == pc # "missing_shards"

(* No rank waits at a barrier for ever: every started job ends.             *)
EventuallyEnds == <>[](pc \in Ended)
=============================================================================

---------------------- MODULE CheckpointRotation_proofs ----------------------
(* Proofs about CheckpointRotation, for every number of ranks, steps and      *)
(* deaths, with and without a critic, and for every limit on the checkpoints  *)
(* that are kept except one.                                                  *)
EXTENDS CheckpointRotation, SequenceTheorems, TLAPS

\* The step whose directory the tracker names, 0 while there is none.
Top == IF tracker.file = "written" THEN tracker.step ELSE 0

\* The group at position i is on disk in the save that runs, and remembered.
Remembered(i) == i < turn \/ (i = turn /\ rank[Zero] = "returned")

\* A rank's shard of the group at position i is finished.
OnDisk(i, r) == i < turn \/ (i = turn /\ rank[r] \in {"written", "returned"})

Bounded(role, s) == \A j \in DOMAIN previous[role] : previous[role][j] <= s

-----------------------------------------------------------------------------
(* The invariant.  A rotation spares the tracked directory because the paths  *)
(* it removes come before the last one remembered (with a limit above one),   *)
(* paths are remembered in the order of steps, and none is younger than the   *)
(* tracked one until the new checkpoint is written.                           *)

InOrder == \A role \in RoleSet : \A i, j \in DOMAIN previous[role] :
             i < j => previous[role][i] < previous[role][j]

Loading == pc = "load" => step = 0 /\ previous = Nothing

Training ==
  pc \in {"train", "done"} =>
    tracker.file # "empty" /\ step = Top /\ \A role \in RoleSet : Bounded(role, step)

Saving ==
  pc = "save" =>
    /\ tracker.file # "empty" /\ step = Top + 1
    /\ \A i \in DOMAIN Roles : Bounded(Roles[i], IF Remembered(i) THEN step ELSE Top)
    /\ \A i \in DOMAIN Roles, r \in Ranks : OnDisk(i, r) => shards[step][Roles[i]][r].whole

Tracking ==
  pc = "write_tracker" =>
    /\ tracker.file = "empty" /\ step \in Steps
    /\ CompleteAt(step) /\ \A role \in RoleSet : Bounded(role, step)

TrackedComplete == tracker.file = "written" => tracker.step \in Steps /\ CompleteAt(tracker.step)

RotationInv ==
  /\ pc # "save" => rank = Idle
  /\ InOrder /\ Loading /\ Training /\ Saving /\ Tracking /\ TrackedComplete
  /\ ResumeSucceeds

RankStates == {"idle", "called", "ready", "writing", "written", "returned"}
Shard == [by : 0..(MaxCrashes + 1), whole : BOOLEAN]

TypeOK ==
  /\ pc \in {"load", "train", "save", "write_tracker"} \cup Ended
  /\ step \in 0..TotalSteps /\ turn \in DOMAIN Roles
  /\ rank \in [Ranks -> RankStates]
  /\ previous \in [RoleSet -> Seq(Steps)]
  /\ shards \in [Steps -> [RoleSet -> [Ranks -> Shard]]]
  /\ tracker \in [file : {"absent", "empty", "written"}, step : 0..TotalSteps]
  /\ crashes \in 0..MaxCrashes

Inv == TypeOK /\ RotationInv

-----------------------------------------------------------------------------
LEMMA RoleFacts ==
  /\ \A i \in DOMAIN Roles : Roles[i] \in RoleSet /\ Keep[Roles[i]] \in Nat
  /\ \A role \in RoleSet : \E i \in DOMAIN Roles : role = Roles[i]
  /\ DOMAIN Roles = 1..Len(Roles) /\ Len(Roles) \in Nat \ {0}
<1>1. DOMAIN Roles = 1..Len(Roles) /\ Len(Roles) \in Nat \ {0}
  BY RolesAssumption, EmptySeq, LenProperties
<1>2. \A i \in DOMAIN Roles : Roles[i] \in {"actor", "critic"}
  BY <1>1, RolesAssumption
<1> QED BY <1>1, <1>2, KeepAssumption DEF RoleSet

LEMMA NothingFacts ==
  /\ Nothing \in [RoleSet -> Seq(Steps)]
  /\ \A role \in RoleSet : Nothing[role] = << >> /\ DOMAIN Nothing[role] = {}
BY DEF Nothing

LEMMA InvInit == Init => Inv
<1> SUFFICES ASSUME Init PROVE Inv
  OBVIOUS
<1>1. 1 \in DOMAIN Roles
  BY RoleFacts
<1>2. 0 \in 0..TotalSteps /\ 0 \in 0..MaxCrashes /\ 0 \in 0..(MaxCrashes + 1)
  BY StepsAssumption
<1>3. rank \in [Ranks -> RankStates]
  BY DEF Init, Idle, RankStates
<1>4. shards \in [Steps -> [RoleSet -> [Ranks -> Shard]]]
  BY <1>2 DEF Init, Shard, Absent
<1>5. tracker \in [file : {"absent", "empty", "written"}, step : 0..TotalSteps]
  BY <1>2 DEF Init, NoTracker
<1>6. TypeOK
  BY <1>1, <1>2, <1>3, <1>4, <1>5, NothingFacts DEF Init, TypeOK
<1>7. tracker.file = "absent"
  BY DEF Init, NoTracker
<1>8. RotationInv
  BY <1>7, NothingFacts
     DEF Init, RotationInv, InOrder, Loading, Training, Saving, Tracking, TrackedComplete,
         ResumeSucceeds
<1> QED BY <1>6, <1>8 DEF Inv

-----------------------------------------------------------------------------
(* One lemma for each action.                                                 *)

LEMMA LoadStep == ASSUME Inv, LoadCheckpoint PROVE Inv'
<1>1. UNCHANGED <<turn, rank, previous, shards, tracker, crashes>>
  BY DEF LoadCheckpoint, disk
<1>2. pc = "load" /\ step = 0 /\ previous = Nothing /\ rank = Idle
  BY DEF LoadCheckpoint, Inv, RotationInv, Loading
<1>3. \A role \in RoleSet, s \in Nat : Bounded(role, s)
  BY <1>2, NothingFacts DEF Bounded
<1>4. Top' = Top /\ Top \in Nat
  BY <1>1, StepsAssumption DEF Top, Inv, TypeOK
<1>5. tracker \in [file : {"absent", "empty", "written"}, step : 0..TotalSteps]
  BY DEF Inv, TypeOK
<1>6. \/ tracker.file = "absent" /\ pc' = "train" /\ step' = 0
      \/ tracker.file = "empty" /\ pc' = "unreadable" /\ step' = 0
      \/ tracker.file = "written" /\ pc' = "train" /\ step' = tracker.step
  BY <1>2 DEF LoadCheckpoint, Inv, RotationInv, TrackedComplete
<1>7. step' \in 0..TotalSteps
  BY <1>5, <1>6, StepsAssumption
<1>8. TypeOK'
  BY <1>1, <1>6, <1>7 DEF Inv, TypeOK, Ended
<1>9. Training'
  <2>1. pc' \in {"train", "done"} => tracker.file # "empty" /\ step' = Top
    BY <1>6 DEF Top
  <2>2. \A role \in RoleSet : Bounded(role, step')
    BY <1>3, <1>7, StepsAssumption
  <2> QED BY <1>1, <1>4, <2>1, <2>2 DEF Training, Bounded
<1> QED BY <1>1, <1>2, <1>6, <1>8, <1>9
        DEF Inv, RotationInv, InOrder, Loading, Saving, Tracking, TrackedComplete, CompleteAt,
            ResumeSucceeds

LEMMA TrainStep == ASSUME Inv, Train PROVE Inv'
<1>1. UNCHANGED <<previous, shards, tracker, crashes>>
  BY DEF Train, disk
<1>2. /\ pc = "train" /\ step < TotalSteps /\ step' = step + 1 /\ pc' = "save" /\ turn' = 1
      /\ rank' = [r \in Ranks |-> "called"]
  BY DEF Train
<1>3. tracker.file # "empty" /\ step = Top /\ \A role \in RoleSet : Bounded(role, step)
  BY <1>2 DEF Inv, RotationInv, Training
<1>4. step' \in 0..TotalSteps /\ 1 \in DOMAIN Roles
  BY <1>2, RoleFacts, StepsAssumption DEF Inv, TypeOK
<1>5. TypeOK'
  BY <1>1, <1>2, <1>4 DEF Inv, TypeOK, RankStates
<1>6. Top' = Top /\ Zero \in Ranks
  BY <1>1, RanksAssumption DEF Top
<1>7. \A i \in DOMAIN Roles : ~Remembered(i)' /\ \A r \in Ranks : ~OnDisk(i, r)'
  BY <1>2, <1>6, RoleFacts DEF Remembered, OnDisk
<1>8. Saving'
  BY <1>1, <1>2, <1>3, <1>6, <1>7, RoleFacts DEF Saving, Bounded
<1> QED BY <1>1, <1>2, <1>5, <1>8
        DEF Inv, RotationInv, InOrder, Loading, Training, Tracking, TrackedComplete, CompleteAt,
            ResumeSucceeds

LEMMA FinishStep == ASSUME Inv, Finish PROVE Inv'
<1>1. /\ pc = "train" /\ pc' = "done"
      /\ UNCHANGED <<step, turn, rank, previous, shards, tracker, crashes>>
  BY DEF Finish, disk
<1> QED BY <1>1
        DEF Inv, TypeOK, Ended, RotationInv, InOrder, Loading, Training, Saving, Tracking,
            TrackedComplete, CompleteAt, ResumeSucceeds, Top, Bounded

LEMMA RestartStep == ASSUME Inv, Restart PROVE Inv'
<1>1. /\ crashes < MaxCrashes /\ crashes' = crashes + 1
      /\ pc' = "load" /\ step' = 0 /\ turn' = 1 /\ rank' = Idle /\ previous' = Nothing
      /\ UNCHANGED <<shards, tracker>>
  BY DEF Restart, disk
<1>2. /\ 1 \in DOMAIN Roles /\ 0 \in 0..TotalSteps /\ crashes' \in 0..MaxCrashes
  BY <1>1, RoleFacts, StepsAssumption DEF Inv, TypeOK
<1>3. rank' \in [Ranks -> RankStates]
  BY <1>1 DEF Idle, RankStates
<1>4. TypeOK'
  BY <1>1, <1>2, <1>3, NothingFacts DEF Inv, TypeOK
<1> QED BY <1>1, <1>4, NothingFacts
        DEF Inv, RotationInv, InOrder, Loading, Training, Saving, Tracking, TrackedComplete,
            CompleteAt, ResumeSucceeds

\* Some rank is in the save.
LEMMA SavingFacts ==
  ASSUME Inv, NEW r \in Ranks, rank[r] # "idle"
  PROVE  /\ pc = "save" /\ Role \in RoleSet /\ turn \in DOMAIN Roles
         /\ tracker.file # "empty" /\ Top \in Nat /\ step = Top + 1 /\ step \in Steps
<1>1. pc = "save"
  BY DEF Inv, RotationInv, Idle
<1>2. turn \in DOMAIN Roles /\ Role \in RoleSet
  BY RoleFacts DEF Inv, TypeOK, Role
<1>3. tracker.file # "empty" /\ step = Top + 1
  BY <1>1 DEF Inv, RotationInv, Saving
<1>4. Top \in Nat
  BY StepsAssumption DEF Inv, TypeOK, Top
<1>5. step \in Steps
  BY <1>3, <1>4, StepsAssumption DEF Inv, TypeOK, Steps
<1> QED BY <1>1, <1>2, <1>3, <1>4, <1>5

\* A rank moves on without touching files or memory, and not to the end of its save.
LEMMA RankMoves ==
  ASSUME Inv, pc = "save", NEW r \in Ranks, rank[r] # "returned", NEW state \in RankStates,
         rank' = [rank EXCEPT ![r] = state],
         state \in {"ready", "writing"} \/ (state = "returned" /\ rank[r] = "written" /\ r # Zero),
         UNCHANGED <<pc, step, turn, previous, tracker, crashes, shards>>
  PROVE  Inv'
<1>1. rank' \in [Ranks -> RankStates] /\ \A q \in Ranks : rank'[q] = IF q = r THEN state ELSE rank[q]
  BY DEF Inv, TypeOK
<1>2. TypeOK'
  BY <1>1 DEF Inv, TypeOK
<1>3. Zero \in Ranks /\ Top' = Top
  BY RanksAssumption DEF Top
<1>4. \A i \in DOMAIN Roles : /\ Remembered(i)' <=> Remembered(i)
                              /\ \A q \in Ranks : OnDisk(i, q)' => OnDisk(i, q)
  BY <1>1, <1>3 DEF Remembered, OnDisk
<1>5. Saving'
  BY <1>3, <1>4 DEF Saving, Bounded, Inv, RotationInv
<1> QED BY <1>2, <1>5
        DEF Inv, RotationInv, InOrder, Loading, Training, Tracking, TrackedComplete, CompleteAt,
            ResumeSucceeds

\* What a rotation removes is older than the tracked checkpoint.
LEMMA ExpiredOlder ==
  ASSUME Inv, \A role \in RoleSet : Keep[role] # 1, pc = "save", rank[Zero] = "called"
  PROVE  \A s \in Expired(Role) : s < Top
<1>1. Zero \in Ranks
  BY RanksAssumption
<1>2. /\ Role \in RoleSet /\ turn \in DOMAIN Roles /\ Top \in Nat
  BY <1>1, SavingFacts
<1>3. Bounded(Role, Top)
  <2>1. ~Remembered(turn)
    BY <1>2, RoleFacts DEF Remembered
  <2> QED BY <1>2, <2>1 DEF Inv, RotationInv, Saving, Role
<1> DEFINE seq == previous[Role]
<1>4. seq \in Seq(Steps) /\ Keep[Role] \in Nat /\ Keep[Role] # 1
  BY <1>2, RoleFacts DEF Inv, TypeOK, Role
<1>5. \A i, j \in DOMAIN seq : i < j => seq[i] < seq[j]
  BY <1>2 DEF Inv, RotationInv, InOrder
<1>6. ASSUME Rotates(Role), NEW i \in 1..KeepStart(Role) PROVE seq[i] < Top
  <2>1. /\ Len(seq) \in Nat /\ DOMAIN seq = 1..Len(seq)
        /\ Keep[Role] > 0 /\ Len(seq) >= Keep[Role] /\ KeepStart(Role) = Len(seq) - Keep[Role] + 1
    BY <1>4, <1>6 DEF Rotates, KeepStart
  <2>2. i \in Nat /\ i >= 1 /\ i <= Len(seq) - Keep[Role] + 1 /\ Keep[Role] >= 2
    BY <1>4, <2>1
  <2> HIDE DEF seq
  <2>3. i \in DOMAIN seq /\ Len(seq) \in DOMAIN seq /\ i < Len(seq)
    BY <1>4, <2>1, <2>2
  <2>4. seq[i] < seq[Len(seq)] /\ seq[Len(seq)] <= Top
    BY <1>3, <1>5, <2>3 DEF Bounded, seq
  <2>5. seq[i] \in Nat /\ seq[Len(seq)] \in Nat
    <3>1. seq[i] \in Steps /\ seq[Len(seq)] \in Steps
      BY <1>4, <2>1, <2>3, ElementOfSeq
    <3> QED BY <3>1 DEF Steps
  <2> QED BY <1>2, <2>4, <2>5
<1> QED BY <1>6 DEF Expired

LEMMA RotateStep ==
  ASSUME Inv, \A role \in RoleSet : Keep[role] # 1, Rotate
  PROVE  Inv'
<1>1. Zero \in Ranks /\ rank[Zero] = "called"
  BY RanksAssumption DEF Rotate
<1>2. /\ pc = "save" /\ Role \in RoleSet /\ turn \in DOMAIN Roles
      /\ tracker.file # "empty" /\ Top \in Nat /\ step = Top + 1 /\ step \in Steps
  BY <1>1, SavingFacts
<1>3. \A s \in Expired(Role) : s < Top
  BY <1>1, <1>2, ExpiredOlder
<1> DEFINE wiped(s) == [shards[s] EXCEPT ![Role] = [r \in Ranks |-> Absent]]
<1>4. /\ rank' = [rank EXCEPT ![Zero] = "ready"]
      /\ shards' = [s \in Steps |-> IF s \in Expired(Role) THEN wiped(s) ELSE shards[s]]
      /\ previous' = IF Rotates(Role)
                       THEN [previous EXCEPT ![Role] =
                               SubSeq(previous[Role], KeepStart(Role) + 1, Len(previous[Role]))]
                       ELSE previous
      /\ UNCHANGED <<pc, step, turn, tracker, crashes>>
  BY DEF Rotate
<1>5. \A s \in Steps : s >= Top => shards'[s] = shards[s]
  BY <1>2, <1>3, <1>4 DEF Steps
<1>6. shards' \in [Steps -> [RoleSet -> [Ranks -> Shard]]]
  <2>1. Absent \in Shard
    BY StepsAssumption DEF Absent, Shard
  <2>2. [r \in Ranks |-> Absent] \in [Ranks -> Shard]
    BY <2>1
  <2>3. ASSUME NEW s \in Steps PROVE wiped(s) \in [RoleSet -> [Ranks -> Shard]]
    BY <2>2 DEF Inv, TypeOK
  <2> HIDE DEF wiped
  <2> QED BY <1>4, <2>3 DEF Inv, TypeOK
<1>7. \A role \in RoleSet :
        /\ previous'[role] \in Seq(Steps)
        /\ \E k \in Nat : \A i \in DOMAIN previous'[role] :
             i + k \in DOMAIN previous[role] /\ previous'[role][i] = previous[role][i + k]
  <2>1. ASSUME NEW role \in RoleSet, previous'[role] = previous[role]
        PROVE  /\ previous'[role] \in Seq(Steps)
               /\ \E k \in Nat : \A i \in DOMAIN previous'[role] :
                    i + k \in DOMAIN previous[role] /\ previous'[role][i] = previous[role][i + k]
    <3>1. previous[role] \in Seq(Steps)
      BY DEF Inv, TypeOK
    <3>2. \A i \in DOMAIN previous[role] : i + 0 = i
      BY <3>1
    <3> QED BY <2>1, <3>1, <3>2
  <2>2. CASE Rotates(Role)
    <3> DEFINE seq == previous[Role]
               k   == KeepStart(Role)
    <3>1. seq \in Seq(Steps) /\ Len(seq) \in Nat /\ DOMAIN seq = 1..Len(seq) /\ Keep[Role] \in Nat
      BY <1>2, RoleFacts DEF Inv, TypeOK, Role
    <3>2. k \in Nat /\ k <= Len(seq)
      BY <2>2, <3>1 DEF Rotates, KeepStart
    <3>3. previous'[Role] = SubSeq(seq, k + 1, Len(seq))
      BY <1>2, <1>4, <2>2 DEF Inv, TypeOK
    <3> HIDE DEF seq, k
    <3>4. /\ previous'[Role] \in Seq(Steps)
          /\ DOMAIN previous'[Role] = 1..(Len(seq) - k)
          /\ \A i \in 1..(Len(seq) - k) : previous'[Role][i] = seq[i + k]
      <4>1. \A i \in (k + 1)..Len(seq) : seq[i] \in Steps
        BY <3>1, <3>2
      <4>2. /\ SubSeq(seq, k + 1, Len(seq)) \in Seq(Steps)
            /\ Len(SubSeq(seq, k + 1, Len(seq))) = Len(seq) - k
            /\ \A i \in 1..(Len(seq) - k) : SubSeq(seq, k + 1, Len(seq))[i] = seq[k + 1 + i - 1]
        <5> DEFINE m == k + 1
                   n == Len(seq)
        <5>1. m \in Int /\ n \in Int /\ n - m + 1 = n - k /\ (m > n => n - k = 0)
          <6>1. m = k + 1 /\ n \in Nat /\ k \in Nat /\ k <= n
            BY <3>1, <3>2
          <6> HIDE DEF m, n
          <6> QED BY <6>1
        <5>2. \A i \in m..n : seq[i] \in Steps
          BY <4>1
        <5> HIDE DEF m, n
        <5>3. /\ SubSeq(seq, m, n) \in Seq(Steps)
              /\ Len(SubSeq(seq, m, n)) = IF m <= n THEN n - m + 1 ELSE 0
              /\ \A i \in 1..(n - m + 1) : SubSeq(seq, m, n)[i] = seq[m + i - 1]
          BY <5>1, <5>2, SubSeqProperties
        <5>4. Len(SubSeq(seq, m, n)) = n - k
          BY <5>1, <5>3
        <5> QED BY <5>1, <5>3, <5>4 DEF m, n
      <4> QED BY <3>1, <3>2, <3>3, <4>2, LenProperties
    <3>5. \A i \in 1..(Len(seq) - k) : i + k \in DOMAIN seq
      BY <3>1, <3>2
    <3>6. \A role \in RoleSet : role # Role => previous'[role] = previous[role]
      BY <1>4, <2>2 DEF Inv, TypeOK
    <3> QED BY <2>1, <3>2, <3>4, <3>5, <3>6 DEF seq
  <2>3. CASE ~Rotates(Role)
    BY <1>4, <2>1, <2>3
  <2> QED BY <2>2, <2>3
<1>8. previous' \in [RoleSet -> Seq(Steps)]
  <2>1. previous' = [role \in RoleSet |-> previous'[role]]
    BY <1>4 DEF Inv, TypeOK
  <2> QED BY <1>7, <2>1
<1>9. InOrder'
  <2> SUFFICES ASSUME NEW role \in RoleSet, NEW i \in DOMAIN previous'[role],
                      NEW j \in DOMAIN previous'[role], i < j
               PROVE  previous'[role][i] < previous'[role][j]
    BY DEF InOrder
  <2>1. PICK k \in Nat : \A n \in DOMAIN previous'[role] :
             n + k \in DOMAIN previous[role] /\ previous'[role][n] = previous[role][n + k]
    BY <1>7
  <2>2. i \in Nat /\ j \in Nat
    BY <1>7, LenProperties
  <2> QED BY <2>1, <2>2 DEF Inv, RotationInv, InOrder
<1>10. \A role \in RoleSet, b \in Nat : Bounded(role, b) => Bounded(role, b)'
  BY <1>7 DEF Bounded
<1>11. Top' = Top /\ step' \in Nat
  BY <1>2, <1>4 DEF Top, Steps
<1>12. \A i \in DOMAIN Roles : /\ Remembered(i)' <=> Remembered(i)
                               /\ \A q \in Ranks : OnDisk(i, q)' <=> OnDisk(i, q)
  BY <1>1, <1>4 DEF Remembered, OnDisk, Inv, TypeOK
<1>13. Saving'
  <2>1. \A i \in DOMAIN Roles, r \in Ranks : OnDisk(i, r)' => shards'[step][Roles[i]][r].whole
    BY <1>2, <1>5, <1>12 DEF Inv, RotationInv, Saving, Steps
  <2>2. ASSUME NEW i \in DOMAIN Roles
        PROVE  Bounded(Roles[i], IF Remembered(i) THEN step ELSE Top)'
    <3>1. Bounded(Roles[i], IF Remembered(i) THEN step ELSE Top) /\ Roles[i] \in RoleSet
      BY <1>2, RoleFacts DEF Inv, RotationInv, Saving
    <3>2. step \in Nat
      BY <1>2 DEF Steps
    <3> QED BY <1>2, <1>4, <1>10, <1>11, <1>12, <3>1, <3>2 DEF Bounded
  <2> QED BY <1>2, <1>4, <1>11, <2>1, <2>2 DEF Saving
<1>14. TrackedComplete'
  <2>1. tracker.file = "written" => tracker.step \in Steps /\ tracker.step = Top
    BY DEF Inv, RotationInv, TrackedComplete, Top
  <2> QED BY <1>2, <1>4, <1>5, <2>1 DEF Inv, RotationInv, TrackedComplete, CompleteAt, Steps
<1>15. TypeOK'
  BY <1>4, <1>6, <1>8 DEF Inv, TypeOK, RankStates
<1> QED BY <1>2, <1>4, <1>9, <1>13, <1>14, <1>15
        DEF Inv, RotationInv, Loading, Training, Tracking, ResumeSucceeds

LEMMA MakeDirectoryStep == ASSUME Inv, NEW r \in Ranks, MakeDirectory(r) PROVE Inv'
<1>1. rank[r] = "called" /\ "ready" \in RankStates
  BY DEF MakeDirectory, RankStates
<1>2. pc = "save"
  BY <1>1, SavingFacts
<1> QED BY <1>1, <1>2, RankMoves DEF MakeDirectory, disk

\* A rank's shard of the running save changes; the rank is not done with it before, and done
\* after only if the shard is whole.
LEMMA ShardWritten ==
  ASSUME Inv, NEW r \in Ranks, rank[r] \in {"ready", "writing"}, NEW state \in {"writing", "written"},
         NEW shard \in Shard, state = "written" => shard.whole,
         rank' = [rank EXCEPT ![r] = state],
         shards' = [shards EXCEPT ![step][Role][r] = shard],
         UNCHANGED <<pc, step, turn, previous, tracker, crashes>>
  PROVE  Inv'
<1>1. /\ pc = "save" /\ Role \in RoleSet /\ turn \in DOMAIN Roles
      /\ tracker.file # "empty" /\ Top \in Nat /\ step = Top + 1 /\ step \in Steps
  BY SavingFacts
<1>2. /\ rank' \in [Ranks -> RankStates]
      /\ \A q \in Ranks : rank'[q] = IF q = r THEN state ELSE rank[q]
  BY DEF Inv, TypeOK, RankStates
<1>3. /\ shards' \in [Steps -> [RoleSet -> [Ranks -> Shard]]]
      /\ \A s \in Steps, role \in RoleSet, q \in Ranks :
           shards'[s][role][q] = IF s = step /\ role = Role /\ q = r THEN shard ELSE shards[s][role][q]
  <2> DEFINE ofRole == [shards[step][Role] EXCEPT ![r] = shard]
             ofStep == [shards[step] EXCEPT ![Role] = ofRole]
  <2>1. shards' = [shards EXCEPT ![step] = ofStep]
    OBVIOUS
  <2>2. shards \in [Steps -> [RoleSet -> [Ranks -> Shard]]]
    BY DEF Inv, TypeOK
  <2>3. /\ ofRole \in [Ranks -> Shard]
        /\ \A q \in Ranks : ofRole[q] = IF q = r THEN shard ELSE shards[step][Role][q]
    BY <1>1, <2>2
  <2> HIDE DEF ofRole
  <2>4. /\ ofStep \in [RoleSet -> [Ranks -> Shard]]
        /\ \A role \in RoleSet : ofStep[role] = IF role = Role THEN ofRole ELSE shards[step][role]
    BY <1>1, <2>2, <2>3
  <2> HIDE DEF ofStep
  <2>5. /\ shards' \in [Steps -> [RoleSet -> [Ranks -> Shard]]]
        /\ \A s \in Steps : shards'[s] = IF s = step THEN ofStep ELSE shards[s]
    BY <1>1, <2>1, <2>2, <2>4
  <2> QED BY <2>3, <2>4, <2>5
<1>4. TypeOK'
  BY <1>2, <1>3 DEF Inv, TypeOK
<1>5. Zero \in Ranks /\ Top' = Top
  BY RanksAssumption DEF Top
<1>6. \A i \in DOMAIN Roles : Remembered(i)' <=> Remembered(i)
  BY <1>2, <1>5 DEF Remembered
<1>7. ASSUME NEW i \in DOMAIN Roles, NEW q \in Ranks, OnDisk(i, q)'
      PROVE  shards'[step][Roles[i]][q].whole
  <2>1. Roles[i] \in RoleSet
    BY RoleFacts
  <2>2. CASE i = turn /\ q = r
    BY <1>1, <1>2, <1>3, <1>7, <2>1, <2>2, RoleFacts DEF OnDisk, Role
  <2>3. CASE ~(i = turn /\ q = r)
    <3>1. OnDisk(i, q)
      BY <1>2, <1>7, <2>3 DEF OnDisk
    <3>2. ~(Roles[i] = Role /\ q = r)
      BY <1>1, <2>3, RolesAssumption DEF Role
    <3> QED BY <1>1, <1>3, <2>1, <3>1, <3>2 DEF Inv, RotationInv, Saving
  <2> QED BY <2>2, <2>3
<1>8. Saving'
  BY <1>1, <1>5, <1>6, <1>7 DEF Saving, Bounded, Inv, RotationInv
<1>9. TrackedComplete'
  <2>1. tracker.file = "written" => tracker.step \in Steps /\ tracker.step # step
    BY <1>1 DEF Inv, RotationInv, TrackedComplete, Top
  <2> QED BY <1>3, <2>1 DEF Inv, RotationInv, TrackedComplete, CompleteAt
<1> QED BY <1>1, <1>4, <1>8, <1>9
        DEF Inv, RotationInv, InOrder, Loading, Training, Tracking, ResumeSucceeds

LEMMA WriteStep ==
  ASSUME Inv, NEW r \in Ranks, BeginWrite(r) \/ FinishWrite(r)
  PROVE  Inv'
<1>1. Process \in 0..(MaxCrashes + 1)
  BY StepsAssumption DEF Process, Inv, TypeOK
<1>2. Torn(Process) \in Shard /\ Whole(Process) \in Shard /\ Whole(Process).whole
  BY <1>1 DEF Torn, Whole, Shard
<1>3. CASE BeginWrite(r)
  BY <1>2, <1>3, ShardWritten DEF BeginWrite
<1>4. CASE FinishWrite(r)
  BY <1>2, <1>4, ShardWritten DEF FinishWrite
<1> QED BY <1>3, <1>4

LEMMA ReturnStep == ASSUME Inv, NEW r \in Ranks, Return(r) PROVE Inv'
<1>1. /\ rank[r] = "written" /\ rank' = [rank EXCEPT ![r] = "returned"]
      /\ UNCHANGED <<pc, step, turn, shards, tracker, crashes>>
  BY DEF Return, disk
<1>2. /\ pc = "save" /\ Role \in RoleSet /\ turn \in DOMAIN Roles
      /\ tracker.file # "empty" /\ Top \in Nat /\ step = Top + 1 /\ step \in Steps
  BY <1>1, SavingFacts
<1>3. CASE r # Zero
  BY <1>1, <1>2, <1>3, RankMoves DEF Return, RankStates
<1>4. CASE r = Zero
  <2>1. previous' = [previous EXCEPT ![Role] = Append(previous[Role], step)]
    BY <1>4 DEF Return
  <2>2. /\ rank' \in [Ranks -> RankStates]
        /\ \A q \in Ranks : rank'[q] = IF q = Zero THEN "returned" ELSE rank[q]
    BY <1>1, <1>4 DEF Inv, TypeOK, RankStates
  <2> DEFINE seq == previous[Role]
  <2>3. seq \in Seq(Steps) /\ Bounded(Role, Top)
    <3>1. ~Remembered(turn)
      BY <1>1, <1>2, <1>4, RoleFacts DEF Remembered
    <3> QED BY <1>2, <3>1 DEF Inv, TypeOK, RotationInv, Saving, Role
  <2>4. /\ Append(seq, step) \in Seq(Steps)
        /\ DOMAIN Append(seq, step) = 1..(Len(seq) + 1)
        /\ \A j \in 1..(Len(seq) + 1) :
             Append(seq, step)[j] = IF j <= Len(seq) THEN seq[j] ELSE step
        /\ Len(seq) \in Nat /\ DOMAIN seq = 1..Len(seq)
    <3> HIDE DEF seq
    <3> QED BY <1>2, <2>3, LenProperties
  <2>5. /\ previous' \in [RoleSet -> Seq(Steps)]
        /\ \A role \in RoleSet :
             previous'[role] = IF role = Role THEN Append(seq, step) ELSE previous[role]
    BY <1>2, <2>1, <2>4 DEF Inv, TypeOK
  <2>6. TypeOK'
    BY <1>1, <2>2, <2>5 DEF Inv, TypeOK
  <2>7. \A j \in DOMAIN seq : seq[j] < step /\ seq[j] \in Nat
    <3>1. \A j \in DOMAIN seq : seq[j] \in Steps /\ seq[j] <= Top
      BY <2>3, <2>4, ElementOfSeq DEF Bounded
    <3> QED BY <1>2, <3>1 DEF Steps
  <2>8. \A i, j \in DOMAIN Append(seq, step) : i < j => Append(seq, step)[i] < Append(seq, step)[j]
    <3>1. \A i, j \in DOMAIN seq : i < j => seq[i] < seq[j]
      BY <1>2 DEF Inv, RotationInv, InOrder
    <3> HIDE DEF seq
    <3> QED BY <2>4, <2>7, <3>1
  <2>9. InOrder'
    <3> HIDE DEF seq
    <3> QED BY <2>5, <2>8 DEF Inv, RotationInv, InOrder
  <2>10. \A j \in DOMAIN Append(seq, step) : Append(seq, step)[j] <= step
    <3> HIDE DEF seq
    <3> QED BY <1>2, <2>4, <2>7 DEF Steps
  <2>11. Top' = Top /\ Zero \in Ranks
    BY <1>1, RanksAssumption DEF Top
  <2>12. ASSUME NEW i \in DOMAIN Roles
         PROVE  Bounded(Roles[i], IF Remembered(i) THEN step ELSE Top)'
    <3>1. CASE i = turn
      <4>1. Remembered(i)' /\ Roles[i] = Role
        BY <1>1, <2>2, <2>11, <3>1 DEF Remembered, Role
      <4> HIDE DEF seq
      <4> QED BY <1>1, <1>2, <2>5, <2>10, <4>1 DEF Bounded
    <3>2. CASE i # turn
      <4>1. Roles[i] # Role /\ Roles[i] \in RoleSet
        BY <1>2, <3>2, RolesAssumption, RoleFacts DEF Role
      <4>2. Remembered(i)' <=> Remembered(i)
        BY <1>1, <3>2 DEF Remembered
      <4> QED BY <1>1, <1>2, <2>5, <2>11, <4>1, <4>2 DEF Bounded, Inv, RotationInv, Saving
    <3> QED BY <3>1, <3>2
  <2>13. \A i \in DOMAIN Roles, q \in Ranks : OnDisk(i, q)' => OnDisk(i, q)
    BY <1>1, <1>4, <2>2 DEF OnDisk
  <2>14. Saving'
    BY <1>1, <1>2, <2>11, <2>12, <2>13 DEF Saving, Inv, RotationInv
  <2> QED BY <1>1, <1>2, <2>6, <2>9, <2>14
          DEF Inv, RotationInv, Loading, Training, Tracking, TrackedComplete, CompleteAt,
              ResumeSucceeds
<1> QED BY <1>3, <1>4

LEMMA NextGroupStep == ASSUME Inv, NextGroup PROVE Inv'
<1>1. /\ pc = "save" /\ \A r \in Ranks : rank[r] = "returned"
      /\ turn < Len(Roles) /\ turn' = turn + 1 /\ rank' = [r \in Ranks |-> "called"]
      /\ UNCHANGED <<pc, step, previous, shards, tracker, crashes>>
  BY DEF NextGroup, Saved, disk
<1>2. turn \in DOMAIN Roles /\ turn \in Nat /\ turn' \in DOMAIN Roles
  BY <1>1, RoleFacts DEF Inv, TypeOK
<1>3. TypeOK'
  BY <1>1, <1>2 DEF Inv, TypeOK, RankStates
<1>4. Zero \in Ranks /\ Top' = Top
  BY <1>1, RanksAssumption DEF Top
<1>5. \A i \in DOMAIN Roles : /\ Remembered(i)' <=> Remembered(i)
                              /\ \A q \in Ranks : OnDisk(i, q)' <=> OnDisk(i, q)
  <2>1. \A i \in DOMAIN Roles : i \in Nat
    BY RoleFacts
  <2> QED BY <1>1, <1>2, <1>4, <2>1 DEF Remembered, OnDisk
<1>6. Saving'
  BY <1>1, <1>4, <1>5 DEF Saving, Bounded, Inv, RotationInv
<1> QED BY <1>1, <1>3, <1>6
        DEF Inv, RotationInv, InOrder, Loading, Training, Tracking, TrackedComplete, CompleteAt,
            ResumeSucceeds

LEMMA OpenTrackerStep == ASSUME Inv, OpenTracker PROVE Inv'
<1>1. /\ pc = "save" /\ \A r \in Ranks : rank[r] = "returned"
      /\ turn = Len(Roles) /\ rank' = Idle /\ tracker' = EmptyTracker /\ pc' = "write_tracker"
      /\ UNCHANGED <<step, turn, previous, shards, crashes>>
  BY DEF OpenTracker, Saved
<1>2. Zero \in Ranks
  BY RanksAssumption
<1>3. step \in Steps
  BY <1>1, <1>2, SavingFacts
<1>4. \A i \in DOMAIN Roles : Remembered(i) /\ \A r \in Ranks : OnDisk(i, r)
  BY <1>1, <1>2, RoleFacts DEF Remembered, OnDisk
<1>5. CompleteAt(step) /\ \A role \in RoleSet : Bounded(role, step)
  BY <1>1, <1>4, RoleFacts DEF CompleteAt, Inv, RotationInv, Saving
<1>6. TypeOK'
  <2>1. tracker' \in [file : {"absent", "empty", "written"}, step : 0..TotalSteps]
    BY <1>1, StepsAssumption DEF EmptyTracker
  <2>2. rank' \in [Ranks -> RankStates]
    BY <1>1 DEF Idle, RankStates
  <2> QED BY <1>1, <2>1, <2>2 DEF Inv, TypeOK
<1>7. tracker'.file = "empty"
  BY <1>1 DEF EmptyTracker
<1> QED BY <1>1, <1>3, <1>5, <1>6, <1>7
        DEF Inv, RotationInv, InOrder, Loading, Training, Saving, Tracking, TrackedComplete,
            CompleteAt, Bounded, ResumeSucceeds

LEMMA WriteTrackerStep == ASSUME Inv, WriteTracker PROVE Inv'
<1>1. /\ pc = "write_tracker" /\ tracker' = Naming(step) /\ pc' = "train"
      /\ UNCHANGED <<step, turn, rank, previous, shards, crashes>>
  BY DEF WriteTracker
<1>2. step \in Steps /\ CompleteAt(step) /\ \A role \in RoleSet : Bounded(role, step)
  BY <1>1 DEF Inv, RotationInv, Tracking
<1>3. tracker'.file = "written" /\ tracker'.step = step
  BY <1>1 DEF Naming
<1>4. TypeOK'
  <2>1. tracker' \in [file : {"absent", "empty", "written"}, step : 0..TotalSteps]
    BY <1>1 DEF Naming, Inv, TypeOK
  <2> QED BY <1>1, <2>1 DEF Inv, TypeOK
<1> QED BY <1>1, <1>2, <1>3, <1>4
        DEF Inv, RotationInv, InOrder, Loading, Training, Saving, Tracking, TrackedComplete,
            CompleteAt, Bounded, ResumeSucceeds, Top

-----------------------------------------------------------------------------
LEMMA InvStep ==
  ASSUME Inv, \A role \in RoleSet : Keep[role] # 1, [Next]_vars
  PROVE  Inv'
<1>1. CASE LoadCheckpoint BY <1>1, LoadStep
<1>2. CASE Train BY <1>2, TrainStep
<1>3. CASE Finish BY <1>3, FinishStep
<1>4. CASE Rotate BY <1>4, RotateStep
<1>5. CASE NextGroup BY <1>5, NextGroupStep
<1>6. CASE OpenTracker BY <1>6, OpenTrackerStep
<1>7. CASE WriteTracker BY <1>7, WriteTrackerStep
<1>8. ASSUME NEW r \in Ranks, MakeDirectory(r) PROVE Inv' BY <1>8, MakeDirectoryStep
<1>9. ASSUME NEW r \in Ranks, BeginWrite(r) \/ FinishWrite(r) PROVE Inv' BY <1>9, WriteStep
<1>10. ASSUME NEW r \in Ranks, Return(r) PROVE Inv' BY <1>10, ReturnStep
<1>11. CASE Restart BY <1>11, RestartStep
<1>12. CASE UNCHANGED vars
  BY <1>12
     DEF vars, memory, disk, Inv, TypeOK, RotationInv, InOrder, Loading, Training, Saving,
         Tracking, TrackedComplete, CompleteAt, Bounded, ResumeSucceeds, Top, Remembered, OnDisk
<1> QED BY <1>1, <1>2, <1>3, <1>4, <1>5, <1>6, <1>7, <1>8, <1>9, <1>10, <1>11, <1>12
        DEF Next, Run, Save, Terminated

\* Unless a limit of one is configured, a resumed job finds every shard of the checkpoint
\* the tracker names, whenever it was killed and however its ranks rotated and wrote.
THEOREM ResumeSucceedsHolds ==
  (\A role \in RoleSet : Keep[role] # 1) => (Spec => []ResumeSucceeds)
<1> SUFFICES ASSUME \A role \in RoleSet : Keep[role] # 1 PROVE Spec => []ResumeSucceeds
  OBVIOUS
<1>1. Inv /\ [Next]_vars => Inv'
  BY InvStep
<1>2. Inv => ResumeSucceeds
  BY DEF Inv, RotationInv
<1> QED BY <1>1, <1>2, InvInit, PTL DEF Spec
=============================================================================

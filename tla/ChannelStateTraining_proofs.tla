---------------------- MODULE ChannelStateTraining_proofs ----------------------
(* Proofs about ChannelStateTraining, for any number of ranks, rows, steps    *)
(* and deaths of the job: statistic, weights and checkpoints tell one         *)
(* history, the replicas agree, what a step trains with was measured before   *)
(* it, and every row is trained with its own weight.                          *)
EXTENDS ChannelStateTraining, SequenceTheorems, WellFoundedInduction, TLAPS

Measurement == [process : Int, step : Int, parts : SUBSET (Ranks \X Int)]
Levels      == Seq(Measurement)
Observation == [part : Ranks \X Int, level : Levels]
Weight      == [part : Ranks \X Int, level : Levels, score : Levels]
Entry       == [process : Int, step : Int, applied : BOOLEAN, given : Seq(Weight)]
History     == Seq(Entry)
Ops         == {"load", "observe", "reduce activation", "expose", "weigh", "resample", "norm",
                "step", "finish", "write shard", "write state", "barrier"}
ConfigSpace == [recipe : Recipes, relative : BOOLEAN, warmup : Nat, saveFreq : Nat]

LEMMA BoundsFacts ==
  /\ World \in Nat \ {0} /\ RowsPerRank \in Nat \ {0} /\ TotalSteps \in Nat \ {0}
  /\ MaxCrashes \in Nat
BY BoundsAssumption

\* Induction over the naturals, about a set.
LEMMA SetInduction ==
  ASSUME NEW S, 0 \in S, \A n \in Nat : n \in S => n + 1 \in S
  PROVE  \A n \in Nat : n \in S
<1> DEFINE R == OpToRel(<, Nat)
<1>1. IsWellFoundedOn(R, Nat)
  BY NatLessThanWellFounded, Zenon
<1>2. \A n \in Nat : <<n, n + 1>> \in R
  BY DEF OpToRel
<1> HIDE DEF R
<1> SUFFICES ASSUME Nat \ S # {} PROVE FALSE
  OBVIOUS
<1>3. PICK m \in Nat \ S : \A k \in Nat \ S : ~(<<k, m>> \in R)
  BY <1>1, WFMin
<1>4. m # 0 /\ m - 1 \in Nat
  OBVIOUS
<1>5. m - 1 \notin S
  BY <1>4
<1>6. <<m - 1, m>> \in R
  BY <1>2, <1>4
<1> QED BY <1>3, <1>4, <1>5, <1>6

-----------------------------------------------------------------------------
(* Flattening: the prefixes f[1], f[1] \o f[2], ... of a sequence of          *)
(* sequences.                                                                 *)
FlatPrefixes(g, f, n) ==
  g = [i \in 1..n |-> IF i = 1 THEN f[1] ELSE g[i - 1] \o f[i]]

LEMMA FlattenIsPrefix ==
  ASSUME NEW f, Len(f) # 0
  PROVE  FlattenSeq(f) = (CHOOSE g : FlatPrefixes(g, f, Len(f)))[Len(f)]
BY DEF FlattenSeq, FlatPrefixes

LEMMA PrefixesExist ==
  ASSUME NEW f, NEW n \in Nat
  PROVE  \E g : FlatPrefixes(g, f, n)
<1> DEFINE Good == {k \in Nat : \E g : FlatPrefixes(g, f, k)}
<1>1. 0 \in Good
  <2>1. \E g : g = [i \in 1..0 |-> f[1]]
    OBVIOUS
  <2>2. PICK g : g = [i \in 1..0 |-> f[1]]
    BY <2>1
  <2>3. FlatPrefixes(g, f, 0)
    BY <2>2 DEF FlatPrefixes
  <2> QED BY <2>3
<1>2. ASSUME NEW k \in Nat, k \in Good
      PROVE  k + 1 \in Good
  <2>1. PICK g : FlatPrefixes(g, f, k)
    BY <1>2
  <2> DEFINE last == IF k = 0 THEN f[1] ELSE g[k] \o f[k + 1]
             more == [i \in 1..(k + 1) |-> IF i = k + 1 THEN last ELSE g[i]]
  <2>2. \A i \in 1..k : g[i] = IF i = 1 THEN f[1] ELSE g[i - 1] \o f[i]
    BY <2>1 DEF FlatPrefixes
  <2>3. ASSUME NEW i \in 1..(k + 1)
        PROVE  more[i] = IF i = 1 THEN f[1] ELSE more[i - 1] \o f[i]
    <3>1. CASE i = k + 1
      <4>1. more[i] = last
        BY <3>1
      <4>2. i # 1 => more[i - 1] = g[k] /\ k # 0
        BY <3>1
      <4> HIDE DEF more
      <4> QED BY <3>1, <4>1, <4>2
    <3>2. CASE i # k + 1
      <4>1. i \in 1..k /\ more[i] = g[i]
        BY <3>2
      <4>2. i # 1 => i - 1 \in 1..(k + 1) /\ i - 1 # k + 1 /\ more[i - 1] = g[i - 1]
        BY <3>2
      <4> HIDE DEF more
      <4> QED BY <2>2, <4>1, <4>2
    <3> QED BY <3>1, <3>2
  <2>4. FlatPrefixes(more, f, k + 1)
    <3>1. more = [i \in 1..(k + 1) |-> more[i]]
      OBVIOUS
    <3> HIDE DEF more
    <3> QED BY <2>3, <3>1 DEF FlatPrefixes
  <2> QED BY <2>4
<1>3. n \in Good
  <2> HIDE DEF Good
  <2> QED BY <1>1, <1>2, SetInduction
<1> QED BY <1>3

Extends(g, f, i) == g[i] = IF i = 1 THEN f[1] ELSE g[i - 1] \o f[i]

LEMMA PrefixElements ==
  ASSUME NEW f, NEW n \in Nat, NEW g, FlatPrefixes(g, f, n)
  PROVE  \A i \in 1..n : Extends(g, f, i)
BY DEF FlatPrefixes, Extends

LEMMA PrefixesType ==
  ASSUME NEW S, NEW f \in Seq(Seq(S)), NEW g, FlatPrefixes(g, f, Len(f))
  PROVE  \A i \in 1..Len(f) : g[i] \in Seq(S)
<1> DEFINE Good == {k \in Nat : k + 1 \in 1..Len(f) => g[k + 1] \in Seq(S)}
<1>0. Len(f) \in Nat /\ \A i \in 1..Len(f) : f[i] \in Seq(S)
  OBVIOUS
<1>e. \A i \in 1..Len(f) : Extends(g, f, i)
  BY <1>0, PrefixElements
<1>1. 0 \in Good
  <2>1. 1 \in 1..Len(f) => g[1] = f[1]
    BY <1>e DEF Extends
  <2> QED BY <1>0, <2>1
<1>2. ASSUME NEW k \in Nat, k \in Good
      PROVE  k + 1 \in Good
  <2>1. SUFFICES ASSUME k + 2 \in 1..Len(f) PROVE g[k + 2] \in Seq(S)
    BY <1>0
  <2>2. k + 1 \in 1..Len(f) /\ (k + 1) + 1 = k + 2
    BY <1>0, <2>1
  <2>e. Extends(g, f, k + 2)
    BY <1>e, <2>1
  <2>n. k + 2 # 1 /\ (k + 2) - 1 = k + 1
    OBVIOUS
  <2>3. g[k + 2] = g[k + 1] \o f[k + 2]
    BY <2>e, <2>n DEF Extends
  <2>4. g[k + 1] \in Seq(S) /\ f[k + 2] \in Seq(S)
    BY <1>0, <1>2, <2>1, <2>2
  <2> HIDE DEF Good
  <2> QED BY <2>3, <2>4
<1>3. \A k \in Nat : k \in Good
  <2> HIDE DEF Good
  <2> QED BY <1>1, <1>2, SetInduction
<1>4. ASSUME NEW i \in 1..Len(f)
      PROVE  g[i] \in Seq(S)
  <2>1. i - 1 \in Nat /\ (i - 1) + 1 = i
    BY <1>0
  <2>2. i - 1 \in Good
    BY <1>3, <2>1
  <2> QED BY <2>1, <2>2
<1> QED BY <1>4

\* Flattening one more sequence appends it.
LEMMA FlattenAppend ==
  ASSUME NEW S, NEW f \in Seq(Seq(S)), NEW x \in Seq(S)
  PROVE  /\ FlattenSeq(f) \in Seq(S)
         /\ FlattenSeq(Append(f, x)) = FlattenSeq(f) \o x
<1> DEFINE l == Len(f)
           F == Append(f, x)
           g == CHOOSE g : FlatPrefixes(g, f, l)
           G == CHOOSE G : FlatPrefixes(G, F, l + 1)
<1>1. l \in Nat /\ \A i \in 1..l : f[i] \in Seq(S)
  OBVIOUS
<1>2. /\ F \in Seq(Seq(S)) /\ Len(F) = l + 1 /\ F[l + 1] = x
      /\ \A i \in 1..l : F[i] = f[i]
  OBVIOUS
<1>3. FlattenSeq(F) = G[l + 1] /\ (l # 0 => FlattenSeq(f) = g[l])
  <2>1. Len(F) # 0
    BY <1>1, <1>2
  <2> HIDE DEF F
  <2> QED BY <1>2, <2>1, FlattenIsPrefix
<1> HIDE DEF F, l
<1>4. FlatPrefixes(g, f, l) /\ FlatPrefixes(G, F, l + 1)
  <2>1. l + 1 \in Nat
    BY <1>1
  <2> QED BY <1>1, <2>1, PrefixesExist
<1> HIDE DEF g, G
<1>e. (\A i \in 1..l : Extends(g, f, i)) /\ (\A i \in 1..(l + 1) : Extends(G, F, i))
  <2>1. l + 1 \in Nat
    BY <1>1
  <2> QED BY <1>1, <1>4, <2>1, PrefixElements
<1>5. \A i \in 1..l : G[i] = g[i]
  <2> DEFINE Good == {k \in Nat : k + 1 \in 1..l => G[k + 1] = g[k + 1]}
  <2>1. 0 \in Good
    <3>1. 1 \in 1..l => G[1] = F[1] /\ g[1] = f[1] /\ F[1] = f[1]
      BY <1>1, <1>2, <1>e DEF Extends
    <3> QED BY <1>1, <3>1
  <2>2. ASSUME NEW k \in Nat, k \in Good
        PROVE  k + 1 \in Good
    <3>1. SUFFICES ASSUME k + 2 \in 1..l PROVE G[k + 2] = g[k + 2]
      BY <1>1
    <3>2. k + 1 \in 1..l /\ (k + 1) + 1 = k + 2 /\ k + 1 \in 1..(l + 1) /\ k + 2 \in 1..(l + 1)
      BY <1>1, <3>1
    <3>3. Extends(G, F, k + 2) /\ Extends(g, f, k + 2)
      BY <1>e, <3>1, <3>2
    <3>n. k + 2 # 1 /\ (k + 2) - 1 = k + 1
      OBVIOUS
    <3>4. G[k + 2] = G[k + 1] \o F[k + 2]
      BY <3>n, <3>3 DEF Extends
    <3>5. g[k + 2] = g[k + 1] \o f[k + 2]
      BY <3>n, <3>3 DEF Extends
    <3>6. G[k + 1] = g[k + 1] /\ F[k + 2] = f[k + 2]
      BY <1>2, <2>2, <3>1, <3>2
    <3> QED BY <3>4, <3>5, <3>6
  <2>3. \A k \in Nat : k \in Good
    <3> HIDE DEF Good
    <3> QED BY <2>1, <2>2, SetInduction
  <2>4. ASSUME NEW i \in 1..l
        PROVE  G[i] = g[i]
    <3>1. i - 1 \in Nat /\ (i - 1) + 1 = i
      BY <1>1
    <3>2. i - 1 \in Good
      BY <2>3, <3>1
    <3> QED BY <3>1, <3>2
  <2> QED BY <2>4
<1>6. CASE l = 0
  <2>1. f = <<>> /\ FlattenSeq(f) = <<>>
    BY <1>6 DEF FlattenSeq, l
  <2>2. G[l + 1] = x
    <3>1. Extends(G, F, l + 1) /\ l + 1 = 1
      BY <1>6, <1>e
    <3> QED BY <1>2, <3>1 DEF Extends
  <2>3. <<>> \in Seq(S) /\ <<>> \o x = x
    OBVIOUS
  <2> QED BY <1>3, <2>1, <2>2, <2>3 DEF F
<1>7. CASE l # 0
  <2>1. l \in 1..l /\ l \in 1..(l + 1) /\ l + 1 \in 1..(l + 1) /\ l + 1 \in Nat
    BY <1>1, <1>7
  <2>e. Extends(G, F, l + 1) /\ l + 1 # 1 /\ (l + 1) - 1 = l
    BY <1>1, <1>7, <1>e, <2>1
  <2>2. G[l + 1] = G[l] \o F[l + 1]
    BY <2>e DEF Extends
  <2>3. g[l] \in Seq(S)
    BY <1>4, <2>1, PrefixesType DEF l
  <2> QED BY <1>2, <1>3, <1>5, <1>7, <2>1, <2>2, <2>3 DEF F
<1> QED BY <1>6, <1>7

LEMMA FlattenType ==
  ASSUME NEW S, NEW f \in Seq(Seq(S))
  PROVE  FlattenSeq(f) \in Seq(S)
<1>1. <<>> \in Seq(S)
  OBVIOUS
<1> QED BY <1>1, FlattenAppend

LEMMA OneMore ==
  ASSUME NEW S, NEW f \in Seq(S), NEW k \in Nat, k < Len(f)
  PROVE  /\ SubSeq(f, 1, k) \in Seq(S) /\ SubSeq(f, 1, k + 1) \in Seq(S)
         /\ SubSeq(f, 1, k + 1) = Append(SubSeq(f, 1, k), f[k + 1])
OBVIOUS

LEMMA WholeSeq ==
  ASSUME NEW S, NEW f \in Seq(S)
  PROVE  SubSeq(f, 1, Len(f)) = f
OBVIOUS

\* The first k pieces begin the flattening of all.
Begins(x, y, S) == \E z \in Seq(S) : y = x \o z

LEMMA FlattenBegins ==
  ASSUME NEW S, NEW f \in Seq(Seq(S)), NEW r \in 0..Len(f)
  PROVE  Begins(FlattenSeq(SubSeq(f, 1, r)), FlattenSeq(f), S)
<1> DEFINE Flat(k) == FlattenSeq(SubSeq(f, 1, k))
           Good == {k \in Nat : r + k <= Len(f) => Begins(Flat(r), Flat(r + k), S)}
<1>1. \A k \in 0..Len(f) : SubSeq(f, 1, k) \in Seq(Seq(S))
  OBVIOUS
<1>2. \A k \in 0..Len(f) : Flat(k) \in Seq(S)
  BY <1>1, FlattenType
<1>3. ASSUME NEW k \in 0..Len(f), k < Len(f)
      PROVE  Flat(k + 1) = Flat(k) \o f[k + 1]
  <2>1. SubSeq(f, 1, k + 1) = Append(SubSeq(f, 1, k), f[k + 1]) /\ SubSeq(f, 1, k) \in Seq(Seq(S))
    BY <1>3, OneMore
  <2>2. f[k + 1] \in Seq(S)
    BY <1>3
  <2> QED BY <2>1, <2>2, FlattenAppend
<1> HIDE DEF Flat
<1>4. 0 \in Good
  <2>1. Flat(r) = Flat(r) \o <<>> /\ <<>> \in Seq(S) /\ r + 0 = r
    BY <1>2
  <2> QED BY <2>1 DEF Begins
<1>5. ASSUME NEW k \in Nat, k \in Good
      PROVE  k + 1 \in Good
  <2> SUFFICES ASSUME r + (k + 1) <= Len(f) PROVE Begins(Flat(r), Flat(r + (k + 1)), S)
    OBVIOUS
  <2>1. r + k \in 0..Len(f) /\ r + k < Len(f) /\ (r + k) + 1 = r + (k + 1)
    OBVIOUS
  <2>a. Begins(Flat(r), Flat(r + k), S)
    BY <1>5, <2>1
  <2>2. PICK z \in Seq(S) : Flat(r + k) = Flat(r) \o z
    BY <2>a DEF Begins
  <2>3. Flat((r + k) + 1) = Flat(r + k) \o f[(r + k) + 1]
    BY <1>3, <2>1
  <2>4. f[(r + k) + 1] \in Seq(S) /\ Flat(r) \in Seq(S)
    BY <1>2, <2>1
  <2> DEFINE x == Flat(r)
             y == f[(r + k) + 1]
  <2>5. (x \o z) \o y = x \o (z \o y) /\ z \o y \in Seq(S)
    <3>1. x \in Seq(S) /\ y \in Seq(S) /\ z \in Seq(S)
      BY <2>4
    <3> HIDE DEF x, y
    <3> QED BY <3>1
  <2> QED BY <2>1, <2>2, <2>3, <2>5 DEF Begins
<1>6. Len(f) - r \in Good
  <2>1. Len(f) - r \in Nat
    OBVIOUS
  <2> HIDE DEF Good
  <2> QED BY <1>4, <1>5, <2>1, SetInduction
<1>7. Begins(Flat(r), Flat(Len(f)), S)
  BY <1>6
<1> QED BY <1>7, WholeSeq DEF Flat

\* Cutting a piece out again gives the piece.
LEMMA FlattenCut ==
  ASSUME NEW S, NEW f \in Seq(Seq(S)), NEW r \in 1..Len(f)
  PROVE  SubSeq(FlattenSeq(f), Len(FlattenSeq(SubSeq(f, 1, r - 1))) + 1,
                Len(FlattenSeq(SubSeq(f, 1, r - 1))) + Len(f[r])) = f[r]
<1> DEFINE x == FlattenSeq(SubSeq(f, 1, r - 1))
           y == f[r]
           whole == FlattenSeq(f)
<1>1. r - 1 \in Nat /\ r - 1 < Len(f) /\ (r - 1) + 1 = r /\ r \in 0..Len(f)
  OBVIOUS
<1>2. SubSeq(f, 1, r) = Append(SubSeq(f, 1, r - 1), y) /\ SubSeq(f, 1, r - 1) \in Seq(Seq(S))
  BY <1>1, OneMore
<1>3. y \in Seq(S)
  OBVIOUS
<1>4. x \in Seq(S) /\ FlattenSeq(SubSeq(f, 1, r)) = x \o y
  <2> HIDE DEF y
  <2> QED BY <1>2, <1>3, FlattenAppend
<1>5. PICK z \in Seq(S) : whole = (x \o y) \o z
  BY <1>1, <1>4, FlattenBegins DEF Begins
<1> HIDE DEF x, y, whole
<1>6. SubSeq((x \o y) \o z, Len(x) + 1, Len(x) + Len(y)) = y
  BY <1>3, <1>4
<1>7. SubSeq(whole, Len(x) + 1, Len(x) + Len(y)) = y
  BY <1>5, <1>6
<1> QED BY <1>7 DEF x, y, whole

\* Every rank gets back the rows it gave.
LEMMA OwnRowsAreOwn ==
  ASSUME NEW r \in Ranks, \A s \in Ranks : observed[s] \in Seq(Observation)
  PROVE  OwnRows(r) = observed[r]
<1> DEFINE f == [s \in Ranks |-> observed[s]]
<1>1. f \in Seq(Seq(Observation)) /\ Len(f) = World /\ f[r] = observed[r] /\ r \in 1..Len(f)
  <2>1. World \in Nat
    BY BoundsFacts
  <2> QED BY <2>1 DEF Ranks
<1> HIDE DEF f
<1>2. SubSeq(FlattenSeq(f), Len(FlattenSeq(SubSeq(f, 1, r - 1))) + 1,
             Len(FlattenSeq(SubSeq(f, 1, r - 1))) + Len(f[r])) = f[r]
  BY <1>1, FlattenCut
<1> QED BY <1>1, <1>2 DEF OwnRows, f

-----------------------------------------------------------------------------
(* The inductive invariant: where each rank is in its call and what its state *)
(* is there, what the ranks agree on, and what the tracked directory holds.   *)

Mark(c, process, at) == [process |-> process, step |-> at, parts |-> AllParts(c)]
Now == Mark(config, Process, step)

Parts  == {NoPart} \cup [by : Int, updates : History]
States == {NoPart} \cup [by : Int, level : Levels, score : Levels]

TypeOk ==
  /\ config \in ConfigSpace /\ step \in Nat /\ tracker \in 0..LastStep
  /\ crashes \in 0..MaxCrashes
  /\ prog \in [Ranks -> Seq(Ops)] /\ observed \in [Ranks -> Seq(Observation)]
  /\ level \in [Ranks -> Levels] /\ score \in [Ranks -> Levels]
  /\ given \in [Ranks -> Seq(Weight)] /\ updates \in [Ranks -> History]
  /\ dirs \in [1..LastStep -> [shards : [Ranks -> Parts], state : States]]

Loop == {"step", "scoring", "update", "updating", "save", "saving", "tracker"}

\* A resumed job takes one step even beyond the last one.
Bounded ==
  /\ pc \in Loop \cup {"boot", "loading", "end", "done"}
  /\ tracker <= TotalSteps + crashes
  /\ pc \in {"boot", "loading"} => tracker < TotalSteps + crashes
  /\ pc \in Loop => tracker < step /\ step <= TotalSteps + crashes
  /\ pc = "end"  => tracker <= step

\* Operations left of a call that measures: the parts, then the rest.
Todo(n, rest) == [i \in 1..n |-> "observe"] \o rest

RowsOf(c) == IF c.recipe = "relative_update" THEN 1 ELSE RowsPerRank

\* The parts seen so far are the rank's first ones, against the average as it still is.
Seen(r) ==
  /\ Len(observed[r]) <= RowsOf(config)
  /\ \A i \in DOMAIN observed[r] : observed[r][i] = [part |-> <<r, i>>, level |-> level[r]]
SeenAll(r) == Seen(r) /\ Len(observed[r]) = RowsOf(config)
Measuring(r, rest) == Seen(r) /\ prog[r] = Todo(RowsOf(config) - Len(observed[r]), rest)

Quiet(r) == Behind(config, updates[r], level[r], score[r])

Entered(applied, basis) ==
  [process |-> Process, step |-> step, applied |-> applied, given |-> basis]

EntryOk(c, r, past, u) ==
  /\ u.applied => \A g \in Range(u.given) :
       [level |-> g.level, score |-> g.score] = DueBasis(c, past, u)
  /\ (c.recipe = "rarity" /\ u.given # Neutral(r)) =>
       Len(u.given) = RowsPerRank /\ \A i \in DOMAIN u.given : u.given[i].part = <<r, i>>
HistoryOk(c, r, history) ==
  \A i \in DOMAIN history : EntryOk(c, r, SubSeq(history, 1, i - 1), history[i])

\* Rarity, once the batch is scored: the statistic is behind the update to come, whether or
\* not it is applied, and the weights are what that update should train with.
Scored(r) ==
  \A applied \in BOOLEAN :
    /\ Behind(config, Append(updates[r], Entered(applied, given[r])), level[r], score[r])
    /\ EntryOk(config, r, updates[r], Entered(applied, given[r]))

Exposing(r) ==
  prog[r] = <<"expose", "weigh">> /\ SeenAll(r) /\ Quiet(r) /\ updates[r] # <<>>
Weighing(r) ==
  /\ prog[r] = <<"weigh">> /\ SeenAll(r) /\ updates[r] # <<>>
  /\ level[r] = DueLevel(config, updates[r])
  /\ score[r] = Append(DueScore(config, updates[r]), Now)
Ready(r) ==
  prog[r] = <<>> /\ (IF config.recipe = "rarity" THEN Scored(r) ELSE Quiet(r))

Scoring(r) ==
  \/ Ready(r)
  \/ config.recipe = "rarity" /\ (\/ Measuring(r, <<"reduce activation">>) /\ Quiet(r)
                                  \/ Exposing(r) \/ Weighing(r))

\* Consistency, between the update and the end of its scores.
LevelDue(r) == IF config.relative THEN Append(level[r], Now) ELSE level[r]
ScoreDue(r) == IF config.relative /\ level[r] = <<>> THEN score[r] ELSE Append(score[r], Now)
Finishing(r) ==
  prog[r] = <<"finish">> /\ SeenAll(r) /\ Behind(config, updates[r], LevelDue(r), ScoreDue(r))
Masked(r) == given[r] = <<[part |-> <<r, 1>>, level |-> <<>>, score |-> score[r]]>>

Updating(r) ==
  \/ prog[r] = <<>> /\ Quiet(r)
  \/ config.recipe = "rarity" /\ prog[r] = <<"norm">> /\ Scored(r)
  \/ config.recipe = "relative_update" /\ Quiet(r)
     /\ (\/ prog[r] = <<"norm", "observe", "step">> /\ observed[r] = <<>>
         \/ Measuring(r, <<"step">>))
  \/ config.recipe = "consistency" /\ Quiet(r)
     /\ (\/ prog[r] = UpdateProgram(r) /\ observed[r] = <<>>
         \/ Measuring(r, <<"norm", "finish">>) /\ Masked(r))
  \/ config.recipe = "consistency" /\ Finishing(r)

ShardWritten(r) == dirs[step].shards[r] = [by |-> Process, updates |-> updates[r]]
StateWritten(r) == r = 1 => dirs[step].state = [by |-> Process, level |-> level[r], score |-> score[r]]

Saving(r) ==
  /\ Quiet(r)
  /\ \/ prog[r] = SaveProgram(r)
     \/ prog[r] = Tail(SaveProgram(r)) /\ ShardWritten(r)
     \/ prog[r] = Tail(Tail(SaveProgram(r))) /\ ShardWritten(r)
     \/ prog[r] = <<"barrier">> /\ ShardWritten(r) /\ StateWritten(r)
     \/ prog[r] = <<>> /\ ShardWritten(r) /\ StateWritten(r)

Fresh(r) == updates[r] = <<>> /\ level[r] = <<>> /\ score[r] = <<>>
Loaded(r) ==
  IF tracker = 0 THEN Fresh(r)
  ELSE /\ updates[r] = dirs[tracker].shards[r].updates
       /\ level[r] = dirs[tracker].state.level /\ score[r] = dirs[tracker].state.score
Loading(r) ==
  \/ prog[r] = <<"load">> /\ Fresh(r) /\ tracker # 0
  \/ prog[r] = <<>> /\ Loaded(r)

\* Where a rank is in the call the driver waits for.
Placed(r) ==
  /\ pc = "boot"     => prog[r] = <<>> /\ Fresh(r)
  /\ pc = "loading"  => Loading(r)
  /\ pc = "scoring"  => Scoring(r)
  /\ pc = "update"   => Ready(r)
  /\ pc = "updating" => Updating(r)
  /\ pc = "saving"   => Saving(r)
  /\ pc = "tracker"  => ShardWritten(r) /\ StateWritten(r)
  /\ pc \in {"step", "save", "tracker", "end", "done"} => prog[r] = <<>> /\ Quiet(r)

\* Loading is the only call in which replicas differ.
Basis(weights) == {[level |-> g.level, score |-> g.score] : g \in Range(weights)}
Alike(r, s) ==
  /\ config.recipe # "consistency" => Basis(given[r]) = Basis(given[s])
  /\ pc # "loading" =>
       level[r] = level[s] /\ score[r] = score[s] /\ WithoutParts(updates[r]) = WithoutParts(updates[s])

SavedWell(c, saved) ==
  /\ saved.state.by # 0
  /\ \A r \in Ranks :
       /\ saved.shards[r].by # 0
       /\ Behind(c, saved.shards[r].updates, saved.state.level, saved.state.score)
       /\ HistoryOk(c, r, saved.shards[r].updates)
  /\ \A r, s \in Ranks :
       WithoutParts(saved.shards[r].updates) = WithoutParts(saved.shards[s].updates)

AllPlaced == \A r \in Ranks : Placed(r)
AllAlike  == \A r, s \in Ranks : Alike(r, s)
AllSound  == \A r \in Ranks : HistoryOk(config, r, updates[r])
Tracked   == tracker # 0 => SavedWell(config, dirs[tracker])

TrainingInv == TypeOk /\ Bounded /\ AllPlaced /\ AllAlike /\ AllSound /\ Tracked

-----------------------------------------------------------------------------
(* What one more update does to what a replica should hold.                   *)

LEMMA MarkType ==
  ASSUME NEW c \in ConfigSpace, NEW process \in Int, NEW at \in Int
  PROVE  Mark(c, process, at) \in Measurement
<1>1. AllParts(c) \in SUBSET (Ranks \X Int)
  BY BoundsFacts DEF AllParts, ConfigSpace
<1> QED BY <1>1 DEF Mark, Measurement

LEMMA MeasuredByType ==
  ASSUME NEW c \in ConfigSpace, NEW h \in History
  PROVE  /\ MeasuredBy(c, h) \in Levels /\ Len(MeasuredBy(c, h)) = Len(h)
         /\ \A i \in 1..Len(h) : MeasuredBy(c, h)[i] = Mark(c, h[i].process, h[i].step)
         /\ MeasuredBy(c, h) = <<>> <=> h = <<>>
<1>1. Len(h) \in Nat /\ DOMAIN h = 1..Len(h) /\ \A i \in 1..Len(h) : h[i] \in Entry
  BY DEF History
<1>2. MeasuredBy(c, h) = [i \in 1..Len(h) |-> Mark(c, h[i].process, h[i].step)]
  BY <1>1 DEF MeasuredBy, Mark
<1>3. \A i \in 1..Len(h) : Mark(c, h[i].process, h[i].step) \in Measurement
  BY <1>1, MarkType DEF Entry
<1>4. MeasuredBy(c, h) \in Levels /\ Len(MeasuredBy(c, h)) = Len(h)
  BY <1>1, <1>2, <1>3 DEF Levels
<1> QED BY <1>1, <1>2, <1>4 DEF History, Levels

LEMMA MeasuredByAppend ==
  ASSUME NEW c \in ConfigSpace, NEW h \in History, NEW u \in Entry
  PROVE  MeasuredBy(c, Append(h, u)) = Append(MeasuredBy(c, h), Mark(c, u.process, u.step))
<1> DEFINE H == Append(h, u)
           x == MeasuredBy(c, h)
           y == MeasuredBy(c, H)
           m == Mark(c, u.process, u.step)
<1>1. /\ H \in History /\ Len(H) = Len(h) + 1 /\ H[Len(h) + 1] = u /\ Len(h) \in Nat
      /\ \A i \in 1..Len(h) : H[i] = h[i]
  BY DEF History
<1>2. x \in Seq(Measurement) /\ Len(x) = Len(h)
      /\ \A i \in 1..Len(h) : x[i] = Mark(c, h[i].process, h[i].step)
  BY MeasuredByType DEF Levels
<1>3. y \in Seq(Measurement) /\ Len(y) = Len(h) + 1
      /\ \A i \in 1..(Len(h) + 1) : y[i] = Mark(c, H[i].process, H[i].step)
  <2> HIDE DEF H
  <2> QED BY <1>1, MeasuredByType DEF Levels
<1>4. m \in Measurement
  BY MarkType DEF Entry
<1>5. (\A i \in 1..Len(h) : y[i] = x[i]) /\ y[Len(h) + 1] = m
  <2> HIDE DEF H, x, y
  <2> QED BY <1>1, <1>2, <1>3
<1>6. y = Append(x, m)
  <2> HIDE DEF x, y, m
  <2> QED BY <1>1, <1>2, <1>3, <1>4, <1>5
<1> QED BY <1>6

LEMMA EmptyHistory ==
  /\ <<>> \in History /\ AfterFirst(<<>>) = <<>> /\ Applied(<<>>) = <<>>
  /\ \A c \in ConfigSpace : MeasuredBy(c, <<>>) = <<>>
<1>1. <<>> \in History
  BY DEF History
<1>2. [i \in DOMAIN <<>> |-> IF <<>>[i].applied THEN << <<>>[i] >> ELSE <<>>] = <<>>
  OBVIOUS
<1>3. FlattenSeq(<<>>) = <<>>
  BY DEF FlattenSeq
<1> QED BY <1>1, <1>2, <1>3, MeasuredByType DEF AfterFirst, Applied

LEMMA AfterFirstAppend ==
  ASSUME NEW h \in History, NEW u \in Entry
  PROVE  /\ AfterFirst(h) \in History
         /\ AfterFirst(Append(h, u)) = IF h = <<>> THEN <<>> ELSE Append(AfterFirst(h), u)
<1>1. AfterFirst(h) \in History
  BY DEF History, AfterFirst
<1>2. CASE h = <<>>
  BY <1>1, <1>2 DEF AfterFirst
<1>3. CASE h # <<>>
  <2>1. Append(h, u) # <<>> /\ Tail(Append(h, u)) = Append(Tail(h), u)
    BY <1>3 DEF History
  <2> QED BY <1>1, <1>3, <2>1 DEF AfterFirst
<1> QED BY <1>2, <1>3

LEMMA AppliedAppend ==
  ASSUME NEW h \in History, NEW u \in Entry
  PROVE  /\ Applied(h) \in History
         /\ Applied(Append(h, u)) = IF u.applied THEN Append(Applied(h), u) ELSE Applied(h)
<1> DEFINE One(v) == IF v.applied THEN <<v>> ELSE <<>>
           H == Append(h, u)
           f == [i \in DOMAIN h |-> One(h[i])]
           F == [i \in DOMAIN H |-> One(H[i])]
<1>1. /\ H \in Seq(Entry) /\ h \in Seq(Entry) /\ Len(H) = Len(h) + 1 /\ H[Len(h) + 1] = u
      /\ Len(h) \in Nat /\ \A i \in 1..Len(h) : H[i] = h[i]
  BY DEF History
<1>2. \A v \in Entry : One(v) \in Seq(Entry)
  OBVIOUS
<1> HIDE DEF One, H
<1>3. /\ f \in Seq(Seq(Entry)) /\ Len(f) = Len(h)
      /\ \A i \in 1..Len(h) : f[i] = One(h[i])
  <2>1. DOMAIN h = 1..Len(h) /\ \A i \in 1..Len(h) : One(h[i]) \in Seq(Entry)
    BY <1>1, <1>2
  <2>2. f = [i \in 1..Len(h) |-> One(h[i])]
    BY <2>1
  <2> QED BY <1>1, <2>1, <2>2
<1>4. /\ F \in Seq(Seq(Entry)) /\ Len(F) = Len(h) + 1
      /\ \A i \in 1..(Len(h) + 1) : F[i] = One(H[i])
  BY <1>1, <1>2
<1> HIDE DEF f, F
<1>5. F = Append(f, One(u))
  <2>1. One(u) \in Seq(Entry)
    BY <1>2
  <2>2. (\A i \in 1..Len(h) : F[i] = f[i]) /\ F[Len(h) + 1] = One(u)
    BY <1>1, <1>3, <1>4
  <2> QED BY <1>1, <1>3, <1>4, <2>1, <2>2
<1>6. FlattenSeq(f) \in Seq(Entry) /\ FlattenSeq(F) = FlattenSeq(f) \o One(u)
  BY <1>2, <1>3, <1>5, FlattenAppend
<1>7. Applied(h) = FlattenSeq(f) /\ Applied(Append(h, u)) = FlattenSeq(F)
  BY DEF Applied, f, F, H, One
<1>8. FlattenSeq(f) \o One(u) = IF u.applied THEN Append(FlattenSeq(f), u) ELSE FlattenSeq(f)
  <2> DEFINE x == FlattenSeq(f)
  <2> HIDE DEF x
  <2>1. x \in Seq(Entry)
    BY <1>6 DEF x
  <2>2. x \o <<u>> = Append(x, u) /\ x \o <<>> = x
    BY <2>1
  <2>3. u.applied \in BOOLEAN
    BY DEF Entry
  <2> QED BY <2>2, <2>3 DEF One, x
<1> QED BY <1>6, <1>7, <1>8 DEF History

\* The levels and scores a replica should hold, one update later.
LevelGrows(c, h, u) ==
  DueLevel(c, Append(h, u)) =
    CASE c.recipe = "rarity"          -> Append(DueLevel(c, h), Mark(c, u.process, u.step))
      [] c.recipe = "relative_update" ->
           IF u.applied THEN Append(DueLevel(c, h), Mark(c, u.process, u.step)) ELSE DueLevel(c, h)
      [] c.recipe = "consistency"     ->
           IF c.relative THEN Append(DueLevel(c, h), Mark(c, u.process, u.step)) ELSE <<>>
ScoreGrows(c, h, u) ==
  DueScore(c, Append(h, u)) =
    CASE c.recipe = "relative_update" -> <<>>
      [] c.recipe = "rarity" \/ (c.recipe = "consistency" /\ c.relative) ->
           IF h = <<>> THEN <<>> ELSE Append(DueScore(c, h), Mark(c, u.process, u.step))
      [] c.recipe = "consistency" /\ ~c.relative -> Append(DueScore(c, h), Mark(c, u.process, u.step))

LEMMA DueType ==
  ASSUME NEW c \in ConfigSpace, NEW h \in History
  PROVE  DueLevel(c, h) \in Levels /\ DueScore(c, h) \in Levels
<1>1. AfterFirst(h) \in History /\ Applied(h) \in History
  <2>1. AfterFirst(h) \in History
    BY DEF AfterFirst, History
  <2>2. PICK u : u \in Entry
    <3>1. [process |-> 0, step |-> 0, applied |-> TRUE, given |-> <<>>] \in Entry
      BY DEF Entry
    <3> QED BY <3>1
  <2> QED BY <2>1, <2>2, AppliedAppend
<1>2. \A k \in History : MeasuredBy(c, k) \in Levels
  BY MeasuredByType
<1>3. <<>> \in Levels
  BY DEF Levels
<1>4. c.recipe \in Recipes
  BY DEF ConfigSpace
<1> QED BY <1>1, <1>2, <1>3, <1>4 DEF DueLevel, DueScore, Recipes

LEMMA DueOfNothing ==
  ASSUME NEW c \in ConfigSpace
  PROVE  DueLevel(c, <<>>) = <<>> /\ DueScore(c, <<>>) = <<>>
<1>1. c.recipe \in Recipes
  BY DEF ConfigSpace
<1> QED BY <1>1, EmptyHistory DEF DueLevel, DueScore, Recipes

LEMMA DueLevelGrows ==
  ASSUME NEW c \in ConfigSpace, NEW h \in History, NEW u \in Entry
  PROVE  LevelGrows(c, h, u)
<1>1. c.recipe \in Recipes
  BY DEF ConfigSpace
<1>2. MeasuredBy(c, Append(h, u)) = Append(MeasuredBy(c, h), Mark(c, u.process, u.step))
  BY MeasuredByAppend
<1>3. MeasuredBy(c, Append(Applied(h), u)) = Append(MeasuredBy(c, Applied(h)), Mark(c, u.process, u.step))
  BY AppliedAppend, MeasuredByAppend
<1>4. Applied(Append(h, u)) = IF u.applied THEN Append(Applied(h), u) ELSE Applied(h)
  BY AppliedAppend
<1> QED BY <1>1, <1>2, <1>3, <1>4 DEF LevelGrows, DueLevel, Recipes

LEMMA DueScoreGrows ==
  ASSUME NEW c \in ConfigSpace, NEW h \in History, NEW u \in Entry
  PROVE  ScoreGrows(c, h, u)
<1>1. c.recipe \in Recipes /\ c.relative \in BOOLEAN
  BY DEF ConfigSpace
<1>2. MeasuredBy(c, Append(h, u)) = Append(MeasuredBy(c, h), Mark(c, u.process, u.step))
  BY MeasuredByAppend
<1>3. MeasuredBy(c, Append(AfterFirst(h), u))
        = Append(MeasuredBy(c, AfterFirst(h)), Mark(c, u.process, u.step))
  BY AfterFirstAppend, MeasuredByAppend
<1>4. AfterFirst(Append(h, u)) = IF h = <<>> THEN <<>> ELSE Append(AfterFirst(h), u)
  BY AfterFirstAppend
<1>5. MeasuredBy(c, <<>>) = <<>>
  BY EmptyHistory
<1> QED BY <1>1, <1>2, <1>3, <1>4, <1>5 DEF ScoreGrows, DueScore, Recipes

\* Whether anything happened shows in the statistic.
LEMMA NothingYet ==
  ASSUME NEW c \in ConfigSpace, NEW h \in History,
         c.recipe = "rarity" \/ (c.recipe = "consistency" /\ c.relative)
  PROVE  DueLevel(c, h) = <<>> <=> h = <<>>
BY MeasuredByType DEF DueLevel

LEMMA AppliedCount ==
  ASSUME NEW c \in ConfigSpace, NEW h \in History, c.recipe = "relative_update"
  PROVE  Len(DueLevel(c, h)) = Len(Applied(h))
<1>1. Applied(h) \in History
  <2>1. [process |-> 0, step |-> 0, applied |-> TRUE, given |-> <<>>] \in Entry
    BY DEF Entry
  <2> QED BY <2>1, AppliedAppend
<1> QED BY <1>1, MeasuredByType DEF DueLevel

\* A history stays sound when the update that ends it trained with what the past gave.
LEMMA HistoryGrows ==
  ASSUME NEW c, NEW r, NEW h \in History, NEW u \in Entry,
         HistoryOk(c, r, h), EntryOk(c, r, h, u)
  PROVE  HistoryOk(c, r, Append(h, u))
<1> DEFINE H == Append(h, u)
<1>1. /\ H \in Seq(Entry) /\ Len(H) = Len(h) + 1 /\ Len(h) \in Nat /\ H[Len(h) + 1] = u
      /\ DOMAIN H = 1..(Len(h) + 1) /\ DOMAIN h = 1..Len(h)
      /\ \A i \in 1..Len(h) : H[i] = h[i]
      /\ \A i \in 1..Len(h) : SubSeq(H, 1, i - 1) = SubSeq(h, 1, i - 1)
      /\ SubSeq(H, 1, (Len(h) + 1) - 1) = h
  BY DEF History
<1> HIDE DEF H
<1>2. SUFFICES ASSUME NEW i \in 1..(Len(h) + 1)
               PROVE  EntryOk(c, r, SubSeq(H, 1, i - 1), H[i])
  BY <1>1 DEF HistoryOk, H
<1>3. CASE i = Len(h) + 1
  BY <1>1, <1>3
<1>4. CASE i # Len(h) + 1
  <2>1. i \in 1..Len(h)
    BY <1>1, <1>4
  <2> QED BY <1>1, <2>1 DEF HistoryOk
<1> QED BY <1>3, <1>4

LEMMA NoHistory ==
  ASSUME NEW c, NEW r
  PROVE  HistoryOk(c, r, <<>>)
BY DEF HistoryOk

\* What the ranks must agree on of an update.
Bare(u) ==
  [process |-> u.process, step |-> u.step, applied |-> u.applied, basis |-> Basis(u.given)]

LEMMA WithoutPartsGrows ==
  ASSUME NEW h \in History, NEW u \in Entry
  PROVE  WithoutParts(Append(h, u)) = Append(WithoutParts(h), Bare(u))
<1> DEFINE H == Append(h, u)
           x == WithoutParts(h)
           y == WithoutParts(H)
<1>1. /\ Len(H) = Len(h) + 1 /\ H[Len(h) + 1] = u /\ Len(h) \in Nat
      /\ DOMAIN H = 1..(Len(h) + 1) /\ DOMAIN h = 1..Len(h)
      /\ \A i \in 1..Len(h) : H[i] = h[i]
  BY DEF History
<1> HIDE DEF H
<1>2. x = [i \in 1..Len(h) |-> Bare(h[i])]
  BY <1>1 DEF WithoutParts, Bare, Basis
<1>3. y = [i \in 1..(Len(h) + 1) |-> Bare(H[i])]
  BY <1>1 DEF WithoutParts, Bare, Basis
<1> HIDE DEF x, y
<1>4. x \in Seq({Bare(v) : v \in Entry}) /\ Len(x) = Len(h)
  <2>1. \A i \in 1..Len(h) : h[i] \in Entry
    BY <1>1 DEF History
  <2> HIDE DEF Bare
  <2> QED BY <1>1, <1>2, <2>1
<1>5. y \in Seq({Bare(v) : v \in Entry}) /\ Len(y) = Len(h) + 1
  <2>1. \A i \in 1..(Len(h) + 1) : H[i] \in Entry
    BY <1>1 DEF History, H
  <2> HIDE DEF Bare
  <2> QED BY <1>1, <1>3, <2>1
<1>6. Bare(u) \in {Bare(v) : v \in Entry}
  OBVIOUS
<1>7. (\A i \in 1..Len(h) : y[i] = x[i]) /\ y[Len(h) + 1] = Bare(u)
  BY <1>1, <1>2, <1>3
<1>8. y = Append(x, Bare(u))
  BY <1>1, <1>4, <1>5, <1>6, <1>7
<1> QED BY <1>8 DEF x, y, H

-----------------------------------------------------------------------------
(* The programs of the ranks, and what a reduction adds up.                   *)

LEMMA TodoShape ==
  ASSUME NEW n \in Nat, NEW rest \in Seq(Ops)
  PROVE  /\ Todo(n, rest) \in Seq(Ops)
         /\ n = 0 => Todo(n, rest) = rest
         /\ n # 0 => /\ Todo(n, rest) # <<>> /\ Head(Todo(n, rest)) = "observe"
                     /\ Tail(Todo(n, rest)) = Todo(n - 1, rest)
<1> DEFINE x == [i \in 1..n |-> "observe"]
           y == [i \in 1..(n - 1) |-> "observe"]
<1>0. "observe" \in Ops
  BY DEF Ops
<1>1. x \in Seq(Ops) /\ Len(x) = n
  BY <1>0
<1>2. n = 0 => x = <<>>
  OBVIOUS
<1>3. n # 0 => x # <<>> /\ Head(x) = "observe" /\ Tail(x) = y /\ y \in Seq(Ops) /\ Len(y) = n - 1
  BY <1>0
<1> HIDE DEF x, y
<1>4. x \o rest \in Seq(Ops)
  BY <1>1
<1>5. n = 0 => x \o rest = rest
  BY <1>2
<1>6. ASSUME n # 0
      PROVE  x \o rest # <<>> /\ Head(x \o rest) = Head(x) /\ Tail(x \o rest) = Tail(x) \o rest
  BY <1>1, <1>3, <1>6
<1> QED BY <1>3, <1>4, <1>5, <1>6 DEF Todo, x, y

LEMMA PairOfOps ==
  ASSUME NEW a \in Ops, NEW b \in Ops
  PROVE  Append(<<a>>, b) = <<a, b>>
<1> DEFINE x == Append(<<a>>, b)
           y == <<a, b>>
<1>1. x \in Seq(Ops) /\ Len(x) = 2 /\ x[1] = a /\ x[2] = b
  BY <<a>> \in Seq(Ops)
<1>2. y \in Seq(Ops) /\ Len(y) = 2 /\ y[1] = a /\ y[2] = b
  OBVIOUS
<1> HIDE DEF x, y
<1>3. \A i \in 1..2 : x[i] = y[i]
  BY <1>1, <1>2
<1>4. x = y
  BY <1>1, <1>2, <1>3
<1> QED BY <1>4 DEF x, y

LEMMA SaveShape ==
  ASSUME NEW r
  PROVE  /\ SaveProgram(r) = IF r = 1 THEN <<"write shard", "barrier", "write state", "barrier">>
                             ELSE <<"write shard", "barrier", "barrier">>
         /\ Tail(SaveProgram(r)) = IF r = 1 THEN <<"barrier", "write state", "barrier">>
                                   ELSE <<"barrier", "barrier">>
         /\ Tail(Tail(SaveProgram(r))) = IF r = 1 THEN <<"write state", "barrier">>
                                         ELSE <<"barrier">>
BY DEF SaveProgram

LEMMA RowsOfType ==
  ASSUME NEW c \in ConfigSpace
  PROVE  RowsOf(c) \in Nat \ {0}
BY BoundsFacts DEF RowsOf

LEMMA ScoreShape ==
  ASSUME TypeOk, NEW r
  PROVE  ScoreProgram(r) = IF config.recipe = "rarity"
                           THEN Todo(RowsOf(config), <<"reduce activation">>) ELSE <<>>
BY DEF ScoreProgram, Todo, Observations, RowsOf

LEMMA UpdateShape ==
  ASSUME TypeOk, NEW r
  PROVE  /\ config.recipe = "rarity" => UpdateProgram(r) = <<"norm">>
         /\ config.recipe = "relative_update" =>
              /\ UpdateProgram(r) = <<"norm", "observe", "step">>
              /\ Tail(UpdateProgram(r)) = Todo(RowsOf(config), <<"step">>)
         /\ config.recipe = "consistency" =>
              /\ UpdateProgram(r) \in Seq(Ops) /\ UpdateProgram(r) # <<>>
              /\ Head(UpdateProgram(r)) = "resample"
              /\ Tail(UpdateProgram(r)) = Todo(RowsOf(config), <<"norm", "finish">>)
<1>1. config.recipe = "rarity" => UpdateProgram(r) = <<"norm">>
  BY DEF UpdateProgram
<1>2. ASSUME config.recipe = "relative_update"
      PROVE  /\ UpdateProgram(r) = <<"norm", "observe", "step">>
             /\ Tail(UpdateProgram(r)) = Todo(RowsOf(config), <<"step">>)
  <2>1. UpdateProgram(r) = <<"norm", "observe", "step">>
    BY <1>2 DEF UpdateProgram
  <2>2. [i \in 1..1 |-> "observe"] = <<"observe">>
    OBVIOUS
  <2>3. <<"observe">> \o <<"step">> = <<"observe", "step">>
    <3>1. <<"observe">> \in Seq(Ops) /\ "step" \in Ops
      BY DEF Ops
    <3>2. <<"observe">> \o <<"step">> = Append(<<"observe">>, "step")
      BY <3>1
    <3> QED BY <3>1, <3>2, PairOfOps DEF Ops
  <2>4. Todo(RowsOf(config), <<"step">>) = <<"observe", "step">>
    BY <1>2, <2>2, <2>3 DEF Todo, RowsOf
  <2> QED BY <2>1, <2>4
<1>3. ASSUME config.recipe = "consistency"
      PROVE  /\ UpdateProgram(r) \in Seq(Ops) /\ UpdateProgram(r) # <<>>
             /\ Head(UpdateProgram(r)) = "resample"
             /\ Tail(UpdateProgram(r)) = Todo(RowsOf(config), <<"norm", "finish">>)
  <2> DEFINE x == <<"resample">>
             y == Observations
             z == <<"norm", "finish">>
  <2>1. UpdateProgram(r) = (x \o y) \o z
    BY <1>3 DEF UpdateProgram
  <2>2. x \in Seq(Ops) /\ y \in Seq(Ops) /\ z \in Seq(Ops) /\ x # <<>> /\ Tail(x) = <<>>
        /\ Head(x) = "resample" /\ Len(x) = 1
    <3>1. {"resample", "observe", "norm", "finish"} \subseteq Ops
      BY DEF Ops
    <3>2. y \in Seq(Ops)
      BY <3>1, BoundsFacts DEF Observations
    <3> QED BY <3>1, <3>2
  <2>3. Todo(RowsOf(config), z) = y \o z
    BY <1>3 DEF Todo, RowsOf, Observations
  <2> HIDE DEF x, y, z
  <2>4. (x \o y) \o z \in Seq(Ops) /\ (x \o y) \o z # <<>> /\ Head((x \o y) \o z) = Head(x)
    BY <2>2
  <2>5. Tail((x \o y) \o z) = (Tail(x) \o y) \o z
    BY <2>2
  <2>6. <<>> \o y = y
    BY <2>2
  <2> QED BY <2>1, <2>2, <2>3, <2>4, <2>5, <2>6 DEF z
<1> QED BY <1>1, <1>2, <1>3

\* A rank that measures observes its next part, and goes on when it has seen all.
LEMMA MeasuringShape ==
  ASSUME TypeOk, NEW r \in Ranks, NEW rest \in Seq(Ops), Measuring(r, rest)
  PROVE  /\ Len(observed[r]) < RowsOf(config) =>
              /\ prog[r] # <<>> /\ Head(prog[r]) = "observe"
              /\ Tail(prog[r]) = Todo(RowsOf(config) - (Len(observed[r]) + 1), rest)
         /\ Len(observed[r]) >= RowsOf(config) => SeenAll(r) /\ prog[r] = rest
<1>1. config \in ConfigSpace /\ Len(observed[r]) \in Nat
  BY DEF TypeOk
<1>2. RowsOf(config) \in Nat
  BY <1>1, RowsOfType
<1>3. Len(observed[r]) <= RowsOf(config)
  BY DEF Measuring, Seen
<1> DEFINE n == RowsOf(config) - Len(observed[r])
<1>4. n \in Nat /\ (Len(observed[r]) < RowsOf(config) <=> n # 0)
      /\ n - 1 = RowsOf(config) - (Len(observed[r]) + 1)
  BY <1>1, <1>2, <1>3
<1>5. prog[r] = Todo(n, rest) /\ Seen(r)
  BY DEF Measuring
<1>6. Len(observed[r]) >= RowsOf(config) => n = 0 /\ Len(observed[r]) = RowsOf(config)
  BY <1>1, <1>2, <1>3
<1> HIDE DEF n
<1>7. n = 0 => Todo(n, rest) = rest
  BY <1>4, TodoShape
<1>8. n # 0 => /\ Todo(n, rest) # <<>> /\ Head(Todo(n, rest)) = "observe"
               /\ Tail(Todo(n, rest)) = Todo(n - 1, rest)
  BY <1>4, TodoShape
<1> QED BY <1>4, <1>5, <1>6, <1>7, <1>8 DEF SeenAll

\* Ranks that saw all their parts add up the whole measurement of this step.
LEMMA ReducedIsNow ==
  ASSUME TypeOk, \A s \in Ranks : SeenAll(s), NEW r
  PROVE  Reduced(r) = Now
<1>1. ASSUME NEW s \in Ranks
      PROVE  {o.part : o \in Range(observed[s])} = {<<s, i>> : i \in 1..RowsOf(config)}
  <2>1. DOMAIN observed[s] = 1..RowsOf(config)
    BY DEF SeenAll, TypeOk
  <2>2. \A i \in 1..RowsOf(config) : observed[s][i].part = <<s, i>>
    <3>1. \A i \in 1..RowsOf(config) : observed[s][i] = [part |-> <<s, i>>, level |-> level[s]]
      BY <2>1 DEF SeenAll, Seen
    <3>2. \A i, l : [part |-> <<s, i>>, level |-> l].part = <<s, i>>
      OBVIOUS
    <3> QED BY <3>1, <3>2
  <2>3. Range(observed[s]) = {observed[s][i] : i \in 1..RowsOf(config)}
    BY <2>1 DEF Range
  <2> QED BY <2>2, <2>3
<1>2. AllParts(config) = Ranks \X (1..RowsOf(config))
  <2>1. 1..1 = {1}
    OBVIOUS
  <2> QED BY <2>1 DEF AllParts, RowsOf
<1>3. UNION {{o.part : o \in Range(observed[s])} : s \in Ranks} = Ranks \X (1..RowsOf(config))
  <2>1. {{o.part : o \in Range(observed[s])} : s \in Ranks}
          = {{<<s, i>> : i \in 1..RowsOf(config)} : s \in Ranks}
    BY <1>1
  <2>2. UNION {{<<s, i>> : i \in 1..RowsOf(config)} : s \in Ranks} = Ranks \X (1..RowsOf(config))
    OBVIOUS
  <2> QED BY <2>1, <2>2
<1> QED BY <1>2, <1>3 DEF Reduced, Measured, Now, Mark

LEMMA NowType ==
  ASSUME TypeOk
  PROVE  Now \in Measurement /\ Process \in Int
<1>1. Process \in Int /\ step \in Int /\ config \in ConfigSpace
  BY BoundsFacts DEF TypeOk, Process
<1> QED BY <1>1, MarkType DEF Now

LEMMA EnteredType ==
  ASSUME TypeOk, NEW applied \in BOOLEAN, NEW basis \in Seq(Weight)
  PROVE  Entered(applied, basis) \in Entry
         /\ Mark(config, Entered(applied, basis).process, Entered(applied, basis).step) = Now
BY NowType DEF Entered, Entry, TypeOk, Now

-----------------------------------------------------------------------------
(* Where in the training a rank is that is about to do an operation.          *)

\* Still to observe, or through with it.
ToObserve(r, rest) ==
  Measuring(r, rest) /\ Len(observed[r]) < RowsOf(config) /\ Head(prog[r]) = "observe"
Through(r, rest) == SeenAll(r) /\ prog[r] = rest

LEMMA MeasuringSplits ==
  ASSUME TypeOk, NEW r \in Ranks, NEW rest \in Seq(Ops), Measuring(r, rest)
  PROVE  ToObserve(r, rest) \/ Through(r, rest)
<1>1. Len(observed[r]) \in Nat /\ RowsOf(config) \in Nat
  BY RowsOfType DEF TypeOk
<1> QED BY <1>1, MeasuringShape DEF ToObserve, Through

LEMMA RestsAreOps ==
  /\ <<"reduce activation">> \in Seq(Ops) /\ <<"step">> \in Seq(Ops)
  /\ <<"norm", "finish">> \in Seq(Ops)
BY DEF Ops

ScoringOp(r) ==
  /\ pc = "scoring" /\ config.recipe = "rarity"
  /\ \/ ToObserve(r, <<"reduce activation">>) /\ Quiet(r)
     \/ Through(r, <<"reduce activation">>) /\ Quiet(r)
     \/ Exposing(r) \/ Weighing(r)
UpdatingOp(r) ==
  /\ pc = "updating"
  /\ \/ config.recipe = "rarity" /\ prog[r] = <<"norm">> /\ Scored(r)
     \/ /\ config.recipe = "relative_update" /\ Quiet(r)
        /\ \/ prog[r] = <<"norm", "observe", "step">> /\ observed[r] = <<>>
           \/ ToObserve(r, <<"step">>) \/ Through(r, <<"step">>)
     \/ /\ config.recipe = "consistency" /\ Quiet(r)
        /\ \/ prog[r] = UpdateProgram(r) /\ Head(prog[r]) = "resample" /\ observed[r] = <<>>
           \/ ToObserve(r, <<"norm", "finish">>) /\ Masked(r)
           \/ Through(r, <<"norm", "finish">>) /\ Masked(r)
     \/ config.recipe = "consistency" /\ Finishing(r)
SavingOp(r) == pc = "saving" /\ Saving(r) /\ prog[r] # <<>>
LoadingOp(r) == pc = "loading" /\ prog[r] = <<"load">> /\ Fresh(r) /\ tracker # 0

LEMMA Positions ==
  ASSUME TypeOk, Bounded, NEW r \in Ranks, Placed(r), prog[r] # <<>>
  PROVE  LoadingOp(r) \/ ScoringOp(r) \/ UpdatingOp(r) \/ SavingOp(r)
<1>1. pc \in {"loading", "scoring", "updating", "saving", "tracker"}
  BY DEF Bounded, Loop, Placed, Ready
<1>2. pc # "tracker"
  BY DEF Placed
<1>3. CASE pc = "loading"
  BY <1>3 DEF Placed, Loading, LoadingOp
<1>4. CASE pc = "saving"
  BY <1>4 DEF Placed, SavingOp
<1>5. CASE pc = "scoring"
  <2>1. config.recipe = "rarity" /\ (\/ Measuring(r, <<"reduce activation">>) /\ Quiet(r)
                                     \/ Exposing(r) \/ Weighing(r))
    BY <1>5 DEF Placed, Scoring, Ready
  <2> QED BY <1>5, <2>1, MeasuringSplits, RestsAreOps DEF ScoringOp
<1>6. CASE pc = "updating"
  <2>1. Updating(r)
    BY <1>6 DEF Placed
  <2>2. CASE config.recipe = "rarity"
    BY <1>6, <2>1, <2>2 DEF Updating, UpdatingOp
  <2>3. CASE config.recipe = "relative_update"
    BY <1>6, <2>1, <2>3, MeasuringSplits, RestsAreOps DEF Updating, UpdatingOp
  <2>4. CASE config.recipe = "consistency"
    BY <1>6, <2>1, <2>4, MeasuringSplits, RestsAreOps, UpdateShape DEF Updating, UpdatingOp
  <2>5. config.recipe \in Recipes
    BY DEF TypeOk, ConfigSpace
  <2> QED BY <2>2, <2>3, <2>4, <2>5 DEF Recipes
<1> QED BY <1>1, <1>2, <1>3, <1>4, <1>5, <1>6

\* The head of what is left, stage by stage.
LEMMA Heads ==
  ASSUME TypeOk, Bounded, NEW r \in Ranks, Placed(r)
  PROVE  /\ Local(r, "load") => LoadingOp(r)
         /\ Local(r, "observe") =>
              \/ pc = "scoring" /\ config.recipe = "rarity" /\ Quiet(r)
                 /\ ToObserve(r, <<"reduce activation">>)
              \/ pc = "updating" /\ config.recipe = "relative_update" /\ Quiet(r)
                 /\ ToObserve(r, <<"step">>)
              \/ pc = "updating" /\ config.recipe = "consistency" /\ Quiet(r) /\ Masked(r)
                 /\ ToObserve(r, <<"norm", "finish">>)
         /\ Local(r, "reduce activation") =>
              /\ pc = "scoring" /\ config.recipe = "rarity" /\ Quiet(r)
              /\ Through(r, <<"reduce activation">>)
         /\ Local(r, "expose") => pc = "scoring" /\ config.recipe = "rarity" /\ Exposing(r)
         /\ Local(r, "weigh") => pc = "scoring" /\ config.recipe = "rarity" /\ Weighing(r)
         /\ Local(r, "resample") =>
              /\ pc = "updating" /\ config.recipe = "consistency" /\ Quiet(r)
              /\ prog[r] = UpdateProgram(r) /\ observed[r] = <<>>
         /\ Local(r, "norm") =>
              /\ pc = "updating"
              /\ \/ config.recipe = "rarity" /\ prog[r] = <<"norm">> /\ Scored(r)
                 \/ config.recipe = "relative_update" /\ Quiet(r) /\ observed[r] = <<>>
                    /\ prog[r] = <<"norm", "observe", "step">>
                 \/ config.recipe = "consistency" /\ Quiet(r) /\ Masked(r)
                    /\ Through(r, <<"norm", "finish">>)
         /\ Local(r, "step") =>
              pc = "updating" /\ config.recipe = "relative_update" /\ Quiet(r) /\ Through(r, <<"step">>)
         /\ Local(r, "finish") => pc = "updating" /\ config.recipe = "consistency" /\ Finishing(r)
         /\ (\/ Local(r, "write shard") \/ Local(r, "write state") \/ Local(r, "barrier")) => SavingOp(r)
<1> SUFFICES ASSUME prog[r] # <<>>
             PROVE  /\ Head(prog[r]) = "load" => LoadingOp(r)
                    /\ Head(prog[r]) = "observe" =>
                         \/ pc = "scoring" /\ config.recipe = "rarity" /\ Quiet(r)
                            /\ ToObserve(r, <<"reduce activation">>)
                         \/ pc = "updating" /\ config.recipe = "relative_update" /\ Quiet(r)
                            /\ ToObserve(r, <<"step">>)
                         \/ pc = "updating" /\ config.recipe = "consistency" /\ Quiet(r) /\ Masked(r)
                            /\ ToObserve(r, <<"norm", "finish">>)
                    /\ Head(prog[r]) = "reduce activation" =>
                         /\ pc = "scoring" /\ config.recipe = "rarity" /\ Quiet(r)
                         /\ Through(r, <<"reduce activation">>)
                    /\ Head(prog[r]) = "expose" => pc = "scoring" /\ config.recipe = "rarity" /\ Exposing(r)
                    /\ Head(prog[r]) = "weigh" => pc = "scoring" /\ config.recipe = "rarity" /\ Weighing(r)
                    /\ Head(prog[r]) = "resample" =>
                         /\ pc = "updating" /\ config.recipe = "consistency" /\ Quiet(r)
                         /\ prog[r] = UpdateProgram(r) /\ observed[r] = <<>>
                    /\ Head(prog[r]) = "norm" =>
                         /\ pc = "updating"
                         /\ \/ config.recipe = "rarity" /\ prog[r] = <<"norm">> /\ Scored(r)
                            \/ config.recipe = "relative_update" /\ Quiet(r) /\ observed[r] = <<>>
                               /\ prog[r] = <<"norm", "observe", "step">>
                            \/ config.recipe = "consistency" /\ Quiet(r) /\ Masked(r)
                               /\ Through(r, <<"norm", "finish">>)
                    /\ Head(prog[r]) = "step" =>
                         pc = "updating" /\ config.recipe = "relative_update" /\ Quiet(r)
                         /\ Through(r, <<"step">>)
                    /\ Head(prog[r]) = "finish" => pc = "updating" /\ config.recipe = "consistency" /\ Finishing(r)
                    /\ (Head(prog[r]) \in {"write shard", "write state", "barrier"}) => SavingOp(r)
  BY DEF Local
<1>1. CASE LoadingOp(r)
  <2>1. Head(prog[r]) = "load"
    BY <1>1 DEF LoadingOp
  <2> QED BY <1>1, <2>1
<1>2. CASE ScoringOp(r)
  <2>1. Through(r, <<"reduce activation">>) => Head(prog[r]) = "reduce activation"
    <3>1. Head(<<"reduce activation">>) = "reduce activation"
      OBVIOUS
    <3> QED BY <3>1 DEF Through
  <2>2. Exposing(r) => Head(prog[r]) = "expose"
    BY DEF Exposing
  <2>3. Weighing(r) => Head(prog[r]) = "weigh"
    BY DEF Weighing
  <2>4. ToObserve(r, <<"reduce activation">>) => Head(prog[r]) = "observe"
    BY DEF ToObserve
  <2> QED BY <1>2, <2>1, <2>2, <2>3, <2>4 DEF ScoringOp
<1>3. CASE UpdatingOp(r)
  <2>1. prog[r] = <<"norm">> \/ prog[r] = <<"norm", "observe", "step">> => Head(prog[r]) = "norm"
    OBVIOUS
  <2>2. ToObserve(r, <<"step">>) \/ ToObserve(r, <<"norm", "finish">>) => Head(prog[r]) = "observe"
    BY DEF ToObserve
  <2>3. Through(r, <<"step">>) => Head(prog[r]) = "step"
    BY DEF Through
  <2>4. Through(r, <<"norm", "finish">>) => Head(prog[r]) = "norm"
    BY DEF Through
  <2>5. Finishing(r) => Head(prog[r]) = "finish"
    BY DEF Finishing
  <2> QED BY <1>3, <2>1, <2>2, <2>3, <2>4, <2>5 DEF UpdatingOp
<1>4. CASE SavingOp(r)
  <2>1. \/ prog[r] = SaveProgram(r) \/ prog[r] = Tail(SaveProgram(r))
        \/ prog[r] = Tail(Tail(SaveProgram(r))) \/ prog[r] = <<"barrier">>
    BY <1>4 DEF SavingOp, Saving
  <2>2. /\ Head(SaveProgram(r)) = "write shard" /\ Head(Tail(SaveProgram(r))) = "barrier"
        /\ Head(Tail(Tail(SaveProgram(r)))) \in {"write state", "barrier"}
        /\ Head(<<"barrier">>) = "barrier"
    <3>1. /\ Head(<<"write shard", "barrier", "write state", "barrier">>) = "write shard"
          /\ Head(<<"write shard", "barrier", "barrier">>) = "write shard"
      OBVIOUS
    <3>2. /\ Head(<<"barrier", "write state", "barrier">>) = "barrier"
          /\ Head(<<"barrier", "barrier">>) = "barrier" /\ Head(<<"barrier">>) = "barrier"
      OBVIOUS
    <3>3. Head(<<"write state", "barrier">>) = "write state"
      OBVIOUS
    <3> QED BY <3>1, <3>2, <3>3, SaveShape
  <2>3. Head(prog[r]) \in {"write shard", "write state", "barrier"}
    BY <2>1, <2>2
  <2> QED BY <1>4, <2>3
<1> QED BY <1>1, <1>2, <1>3, <1>4, Positions

-----------------------------------------------------------------------------
(* The steps of the driver.                                                   *)

LEMMA InitTraining ==
  ASSUME Init
  PROVE  TrainingInv
<1>1. TypeOk
  <2>1. config \in ConfigSpace
    BY ConfigsAssumption DEF Init, ConfigSpace
  <2>2. <<>> \in Levels /\ <<>> \in History /\ <<>> \in Seq(Ops) /\ <<>> \in Seq(Observation)
    BY DEF Levels, History
  <2>3. \A r \in Ranks : Neutral(r) \in Seq(Weight)
    BY <2>2, BoundsFacts DEF Neutral, Weight, Ranks
  <2>4. NoDirectory \in [shards : [Ranks -> Parts], state : States]
    BY DEF NoDirectory, Parts, States
  <2>5. 0 \in 0..LastStep /\ 0 \in 0..MaxCrashes
    BY BoundsFacts DEF LastStep
  <2> QED BY <2>1, <2>2, <2>3, <2>4, <2>5 DEF Init, Empty, TypeOk
<1>2. Bounded
  BY BoundsFacts DEF Init, Bounded, Loop
<1>3. ASSUME NEW r \in Ranks
      PROVE  prog[r] = <<>> /\ Fresh(r)
  BY DEF Init, Empty, Fresh
<1>4. AllPlaced
  BY <1>3 DEF Init, AllPlaced, Placed
<1>5. AllAlike
  <2>1. \A r \in Ranks : Basis(Neutral(r)) = {[level |-> <<>>, score |-> <<>>]}
    BY DEF Basis, Neutral, Range
  <2> QED BY <1>3, <2>1 DEF Init, AllAlike, Alike, Fresh
<1>6. AllSound
  BY <1>3, NoHistory DEF AllSound, Fresh
<1>7. Tracked
  BY DEF Init, Tracked
<1> QED BY <1>1, <1>2, <1>4, <1>5, <1>6, <1>7 DEF TrainingInv

LEMMA LoadCheckpointKeeps ==
  ASSUME TrainingInv, LoadCheckpoint
  PROVE  TrainingInv'
<1>1. /\ pc = "boot" /\ pc' = "loading" /\ prog' = [r \in Ranks |-> LoadProgram(r)]
      /\ observed' = Empty(<<>>)
      /\ UNCHANGED <<config, step, level, score, given, updates, dirs, tracker, crashes>>
  BY DEF LoadCheckpoint, Call
<1>2. \A r \in Ranks : LoadProgram(r) = IF tracker = 0 THEN <<>> ELSE <<"load">>
  BY DEF LoadProgram
<1>3. TypeOk'
  <2>1. <<>> \in Seq(Ops) /\ <<"load">> \in Seq(Ops) /\ <<>> \in Seq(Observation)
    BY DEF Ops
  <2>2. prog' \in [Ranks -> Seq(Ops)] /\ observed' \in [Ranks -> Seq(Observation)]
    BY <1>1, <1>2, <2>1 DEF Empty
  <2> QED BY <1>1, <2>2 DEF TrainingInv, TypeOk
<1>4. Bounded'
  BY <1>1 DEF TrainingInv, Bounded, Loop
<1>5. AllPlaced'
  <2>1. ASSUME NEW r \in Ranks
        PROVE  Loading(r)'
    <3>1. Fresh(r)
      BY <1>1 DEF TrainingInv, AllPlaced, Placed
    <3>2. Fresh(r)'
      BY <1>1, <3>1 DEF Fresh
    <3>3. prog'[r] = IF tracker = 0 THEN <<>> ELSE <<"load">>
      BY <1>1, <1>2
    <3> QED BY <1>1, <3>2, <3>3 DEF Loading, Loaded
  <2> QED BY <1>1, <2>1 DEF AllPlaced, Placed
<1>6. AllAlike'
  BY <1>1 DEF TrainingInv, AllAlike, Alike
<1>7. AllSound' /\ Tracked'
  BY <1>1 DEF TrainingInv, AllSound, Tracked
<1> QED BY <1>3, <1>4, <1>5, <1>6, <1>7 DEF TrainingInv

LEMMA StartFitKeeps ==
  ASSUME TrainingInv, StartFit
  PROVE  TrainingInv'
<1>1. /\ pc = "loading" /\ pc' = "step" /\ step' = tracker + 1 /\ \A r \in Ranks : prog[r] = <<>>
      /\ UNCHANGED <<config, prog, observed, level, score, given, updates, dirs, tracker, crashes>>
  BY DEF StartFit, AllReturned, ranks
<1>2. TypeOk'
  BY <1>1, BoundsFacts DEF TrainingInv, TypeOk, LastStep
<1>3. Bounded'
  BY <1>1, BoundsFacts DEF TrainingInv, TypeOk, Bounded, Loop, LastStep
<1>4. ASSUME NEW r \in Ranks
      PROVE  Loaded(r)
  <2>1. <<"load">> # <<>>
    OBVIOUS
  <2> QED BY <1>1, <2>1 DEF TrainingInv, AllPlaced, Placed, Loading
<1>5. AllPlaced'
  <2>1. ASSUME NEW r \in Ranks
        PROVE  Quiet(r)
    <3>1. CASE tracker = 0
      BY <1>4, <3>1, DueOfNothing DEF TrainingInv, TypeOk, Loaded, Fresh, Quiet, Behind
    <3>2. CASE tracker # 0
      BY <1>4, <3>2 DEF TrainingInv, Tracked, SavedWell, Loaded, Quiet
    <3> QED BY <3>1, <3>2
  <2>2. \A r \in Ranks : Quiet(r)'
    BY <1>1, <2>1 DEF Quiet
  <2> QED BY <1>1, <2>2 DEF AllPlaced, Placed
<1>6. AllAlike'
  <2>1. \A r, s \in Ranks :
          level[r] = level[s] /\ score[r] = score[s] /\ WithoutParts(updates[r]) = WithoutParts(updates[s])
    <3>1. CASE tracker = 0
      BY <1>4, <3>1 DEF Loaded, Fresh
    <3>2. CASE tracker # 0
      BY <1>4, <3>2 DEF TrainingInv, Tracked, SavedWell, Loaded
    <3> QED BY <3>1, <3>2
  <2> QED BY <1>1, <2>1 DEF TrainingInv, AllAlike, Alike
<1>7. AllSound' /\ Tracked'
  BY <1>1 DEF TrainingInv, AllSound, Tracked
<1> QED BY <1>2, <1>3, <1>5, <1>6, <1>7 DEF TrainingInv

\* A step that leaves statistics, weights, updates and files alone.
LEMMA Unmoved ==
  ASSUME TrainingInv, pc # "loading",
         UNCHANGED <<config, level, score, given, updates, dirs, tracker>>
  PROVE  /\ AllAlike' /\ AllSound' /\ Tracked'
         /\ \A r \in Ranks : Quiet(r) => Quiet(r)'
<1>1. AllAlike'
  BY DEF TrainingInv, AllAlike, Alike
<1>2. AllSound' /\ Tracked'
  BY DEF TrainingInv, AllSound, Tracked
<1>3. \A r \in Ranks : Quiet(r) => Quiet(r)'
  BY DEF Quiet
<1> QED BY <1>1, <1>2, <1>3

LEMMA ComputeLogProbKeeps ==
  ASSUME TrainingInv, ComputeLogProb
  PROVE  TrainingInv'
<1>1. /\ pc = "step" /\ pc' = "scoring" /\ prog' = [r \in Ranks |-> ScoreProgram(r)]
      /\ observed' = Empty(<<>>)
      /\ UNCHANGED <<config, step, level, score, given, updates, dirs, tracker, crashes>>
  BY DEF ComputeLogProb, Call
<1>t. TypeOk /\ RowsOf(config) \in Nat \ {0}
  BY RowsOfType DEF TrainingInv, TypeOk
<1>2. TypeOk'
  <2>1. \A r \in Ranks : ScoreProgram(r) \in Seq(Ops)
    <3>1. <<>> \in Seq(Ops)
      OBVIOUS
    <3> QED BY <1>t, <3>1, ScoreShape, TodoShape, RestsAreOps
  <2>2. prog' \in [Ranks -> Seq(Ops)] /\ observed' \in [Ranks -> Seq(Observation)]
    BY <1>1, <2>1 DEF Empty
  <2> QED BY <1>1, <2>2 DEF TrainingInv, TypeOk
<1>3. Bounded'
  BY <1>1 DEF TrainingInv, Bounded, Loop
<1>4. AllPlaced'
  <2>1. ASSUME NEW r \in Ranks
        PROVE  Scoring(r)'
    <3>1. Quiet(r)'
      BY <1>1, Unmoved DEF TrainingInv, AllPlaced, Placed
    <3>2. prog'[r] = ScoreProgram(r) /\ observed'[r] = <<>>
      BY <1>1 DEF Empty
    <3>3. CASE config.recipe = "rarity"
      <4>1. RowsOf(config') = RowsOf(config) /\ Len(observed'[r]) = 0 /\ RowsOf(config) - 0 = RowsOf(config)
        BY <1>1, <1>t, <3>2
      <4>2. prog'[r] = Todo(RowsOf(config') - Len(observed'[r]), <<"reduce activation">>)
        BY <1>t, <3>2, <3>3, <4>1, ScoreShape
      <4>3. Seen(r)'
        BY <1>t, <3>2, <4>1 DEF Seen
      <4>4. Measuring(r, <<"reduce activation">>)'
        BY <4>2, <4>3 DEF Measuring
      <4> QED BY <1>1, <3>1, <3>3, <4>4 DEF Scoring
    <3>4. CASE config.recipe # "rarity"
      BY <1>1, <1>t, <3>1, <3>2, <3>4, ScoreShape DEF Scoring, Ready
    <3> QED BY <3>3, <3>4
  <2> QED BY <1>1, <2>1 DEF AllPlaced, Placed
<1> QED BY <1>1, <1>2, <1>3, <1>4, Unmoved DEF TrainingInv

\* The end of a call: nothing is left of the program, and the rank is where it ends.
LEMMA Ended ==
  ASSUME TypeOk, NEW r \in Ranks, prog[r] = <<>>
  PROVE  /\ \A rest \in {<<"reduce activation">>, <<"step">>, <<"norm", "finish">>} : ~Measuring(r, rest)
         /\ UpdateProgram(r) # <<>>
<1>1. ASSUME NEW rest \in {<<"reduce activation">>, <<"step">>, <<"norm", "finish">>},
             Measuring(r, rest)
      PROVE  FALSE
  <2>1. rest \in Seq(Ops) /\ rest # <<>>
    <3>1. <<"reduce activation">> # <<>> /\ <<"step">> # <<>> /\ <<"norm", "finish">> # <<>>
      OBVIOUS
    <3>2. \/ rest = <<"reduce activation">> \/ rest = <<"step">> \/ rest = <<"norm", "finish">>
      OBVIOUS
    <3>3. CASE rest = <<"reduce activation">>
      BY <3>1, <3>3, RestsAreOps
    <3>4. CASE rest = <<"step">>
      BY <3>1, <3>4, RestsAreOps
    <3>5. CASE rest = <<"norm", "finish">>
      BY <3>1, <3>5, RestsAreOps
    <3> QED BY <3>2, <3>3, <3>4, <3>5
  <2>2. ToObserve(r, rest) \/ Through(r, rest)
    BY <1>1, <2>1, MeasuringSplits
  <2>3. config \in ConfigSpace
    BY DEF TypeOk
  <2> QED BY <1>1, <2>1, <2>2, <2>3, MeasuringShape DEF ToObserve, Through
<1>2. UpdateProgram(r) # <<>>
  <2>1. config.recipe \in Recipes
    BY DEF TypeOk, ConfigSpace
  <2> QED BY <2>1, UpdateShape DEF Recipes
<1> QED BY <1>1, <1>2

LEMMA EndLogProbKeeps ==
  ASSUME TrainingInv, EndLogProb
  PROVE  TrainingInv'
<1>1. /\ pc = "scoring" /\ pc' = "update" /\ \A r \in Ranks : prog[r] = <<>>
      /\ UNCHANGED <<config, step, prog, observed, level, score, given, updates, dirs, tracker, crashes>>
  BY DEF EndLogProb, Return, AllReturned, ranks
<1>2. TypeOk'
  BY <1>1 DEF TrainingInv, TypeOk
<1>3. Bounded'
  BY <1>1 DEF TrainingInv, Bounded, Loop
<1>4. AllPlaced'
  <2>1. ASSUME NEW r \in Ranks
        PROVE  Ready(r)'
    <3>1. Scoring(r)
      BY <1>1 DEF TrainingInv, AllPlaced, Placed
    <3>2. Ready(r)
      <4>1. ~Measuring(r, <<"reduce activation">>)
        BY <1>1, Ended DEF TrainingInv
      <4>2. ~Exposing(r) /\ ~Weighing(r)
        BY <1>1 DEF Exposing, Weighing
      <4> QED BY <3>1, <4>1, <4>2 DEF Scoring
    <3> QED BY <1>1, <3>2 DEF Ready, Scored, Quiet, Entered, Process
  <2> QED BY <1>1, <2>1 DEF AllPlaced, Placed
<1> QED BY <1>1, <1>2, <1>3, <1>4, Unmoved DEF TrainingInv

LEMMA UpdateActorKeeps ==
  ASSUME TrainingInv, UpdateActor
  PROVE  TrainingInv'
<1>1. /\ pc = "update" /\ pc' = "updating" /\ prog' = [r \in Ranks |-> UpdateProgram(r)]
      /\ observed' = Empty(<<>>)
      /\ UNCHANGED <<config, step, level, score, given, updates, dirs, tracker, crashes>>
  BY DEF UpdateActor, Call
<1>t. TypeOk /\ config.recipe \in Recipes
  BY DEF TrainingInv, TypeOk, ConfigSpace
<1>2. TypeOk'
  <2>1. \A r \in Ranks : UpdateProgram(r) \in Seq(Ops)
    <3>1. <<"norm">> \in Seq(Ops) /\ <<"norm", "observe", "step">> \in Seq(Ops)
      BY DEF Ops
    <3> QED BY <1>t, <3>1, UpdateShape DEF Recipes
  <2>2. prog' \in [Ranks -> Seq(Ops)] /\ observed' \in [Ranks -> Seq(Observation)]
    BY <1>1, <2>1 DEF Empty
  <2> QED BY <1>1, <2>2 DEF TrainingInv, TypeOk
<1>3. Bounded'
  BY <1>1 DEF TrainingInv, Bounded, Loop
<1>4. AllPlaced'
  <2>1. ASSUME NEW r \in Ranks
        PROVE  Updating(r)'
    <3>1. Ready(r)
      BY <1>1 DEF TrainingInv, AllPlaced, Placed
    <3>2. prog'[r] = UpdateProgram(r) /\ observed'[r] = <<>>
      BY <1>1 DEF Empty
    <3>3. UpdateProgram(r)' = UpdateProgram(r)
      BY <1>1 DEF UpdateProgram, Observations
    <3>4. CASE config.recipe = "rarity"
      <4>1. Scored(r)'
        BY <1>1, <3>1, <3>4 DEF Ready, Scored, Entered, Process
      <4> QED BY <1>1, <1>t, <3>2, <3>4, <4>1, UpdateShape DEF Updating
    <3>5. CASE config.recipe # "rarity"
      <4>1. Quiet(r)'
        BY <1>1, <3>1, <3>5 DEF Ready, Quiet
      <4> QED BY <1>1, <1>t, <3>2, <3>3, <3>5, <4>1, UpdateShape DEF Updating, Recipes
    <3> QED BY <3>4, <3>5
  <2> QED BY <1>1, <2>1 DEF AllPlaced, Placed
<1> QED BY <1>1, <1>2, <1>3, <1>4, Unmoved DEF TrainingInv

LEMMA EndUpdateKeeps ==
  ASSUME TrainingInv, EndUpdate
  PROVE  TrainingInv'
<1>1. /\ pc = "updating" /\ pc' = "save" /\ \A r \in Ranks : prog[r] = <<>>
      /\ UNCHANGED <<config, step, prog, observed, level, score, given, updates, dirs, tracker, crashes>>
  BY DEF EndUpdate, Return, AllReturned, ranks
<1>2. TypeOk'
  BY <1>1 DEF TrainingInv, TypeOk
<1>3. Bounded'
  BY <1>1 DEF TrainingInv, Bounded, Loop
<1>4. AllPlaced'
  <2>1. ASSUME NEW r \in Ranks
        PROVE  Quiet(r)'
    <3>1. Updating(r)
      BY <1>1 DEF TrainingInv, AllPlaced, Placed
    <3>2. Quiet(r)
      <4>1. ~Measuring(r, <<"step">>) /\ ~Measuring(r, <<"norm", "finish">>) /\ UpdateProgram(r) # <<>>
        BY <1>1, Ended DEF TrainingInv
      <4>2. prog[r] # <<"norm">> /\ prog[r] # <<"norm", "observe", "step">> /\ prog[r] # <<"finish">>
        BY <1>1
      <4> QED BY <1>1, <3>1, <4>1, <4>2 DEF Updating, Finishing
    <3> QED BY <1>1, <3>2, Unmoved
  <2> QED BY <1>1, <2>1 DEF AllPlaced, Placed
<1> QED BY <1>1, <1>2, <1>3, <1>4, Unmoved DEF TrainingInv

LEMMA SaveCheckpointKeeps ==
  ASSUME TrainingInv, SaveCheckpoint
  PROVE  TrainingInv'
<1>1. /\ pc = "save" /\ pc' = "saving" /\ prog' = [r \in Ranks |-> SaveProgram(r)]
      /\ observed' = Empty(<<>>)
      /\ UNCHANGED <<config, step, level, score, given, updates, dirs, tracker, crashes>>
  BY DEF SaveCheckpoint, Call
<1>2. TypeOk'
  <2>1. \A r \in Ranks : SaveProgram(r) \in Seq(Ops)
    <3>1. /\ <<"write shard", "barrier", "write state", "barrier">> \in Seq(Ops)
          /\ <<"write shard", "barrier", "barrier">> \in Seq(Ops)
      BY DEF Ops
    <3> QED BY <3>1, SaveShape
  <2>2. prog' \in [Ranks -> Seq(Ops)] /\ observed' \in [Ranks -> Seq(Observation)]
    BY <1>1, <2>1 DEF Empty
  <2> QED BY <1>1, <2>2 DEF TrainingInv, TypeOk
<1>3. Bounded'
  BY <1>1 DEF TrainingInv, Bounded, Loop
<1>4. AllPlaced'
  <2>1. ASSUME NEW r \in Ranks
        PROVE  Saving(r)'
    <3>1. Quiet(r)'
      BY <1>1, Unmoved DEF TrainingInv, AllPlaced, Placed
    <3>2. prog'[r] = SaveProgram(r)
      BY <1>1
    <3> QED BY <3>1, <3>2 DEF Saving
  <2> QED BY <1>1, <2>1 DEF AllPlaced, Placed
<1> QED BY <1>1, <1>2, <1>3, <1>4, Unmoved DEF TrainingInv

LEMMA EndSaveKeeps ==
  ASSUME TrainingInv, EndSave
  PROVE  TrainingInv'
<1>1. /\ pc = "saving" /\ pc' = "tracker" /\ \A r \in Ranks : prog[r] = <<>>
      /\ UNCHANGED <<config, step, prog, observed, level, score, given, updates, dirs, tracker, crashes>>
  BY DEF EndSave, Return, AllReturned, ranks
<1>2. TypeOk'
  BY <1>1 DEF TrainingInv, TypeOk
<1>3. Bounded'
  BY <1>1 DEF TrainingInv, Bounded, Loop
<1>4. AllPlaced'
  <2>1. ASSUME NEW r \in Ranks
        PROVE  Quiet(r)' /\ ShardWritten(r)' /\ StateWritten(r)'
    <3>1. Saving(r)
      BY <1>1 DEF TrainingInv, AllPlaced, Placed
    <3>2. /\ prog[r] # SaveProgram(r) /\ prog[r] # Tail(SaveProgram(r))
          /\ prog[r] # Tail(Tail(SaveProgram(r))) /\ prog[r] # <<"barrier">>
      <4>1. /\ <<"write shard", "barrier", "write state", "barrier">> # <<>>
            /\ <<"write shard", "barrier", "barrier">> # <<>>
            /\ <<"barrier", "write state", "barrier">> # <<>> /\ <<"barrier", "barrier">> # <<>>
            /\ <<"write state", "barrier">> # <<>> /\ <<"barrier">> # <<>>
        OBVIOUS
      <4>2. prog[r] = <<>>
        BY <1>1
      <4> QED BY <4>1, <4>2, SaveShape
    <3>3. Quiet(r) /\ ShardWritten(r) /\ StateWritten(r)
      BY <3>1, <3>2 DEF Saving
    <3> QED BY <1>1, <3>3, Unmoved DEF ShardWritten, StateWritten, Process
  <2> QED BY <1>1, <2>1 DEF AllPlaced, Placed
<1> QED BY <1>1, <1>2, <1>3, <1>4, Unmoved DEF TrainingInv

LEMMA SkipSaveKeeps ==
  ASSUME TrainingInv, SkipSave
  PROVE  TrainingInv'
<1>1. /\ pc = "save" /\ pc' = "end"
      /\ UNCHANGED <<config, step, prog, observed, level, score, given, updates, dirs, tracker, crashes>>
  BY DEF SkipSave, ranks
<1>2. TypeOk'
  BY <1>1 DEF TrainingInv, TypeOk
<1>3. Bounded'
  BY <1>1 DEF TrainingInv, TypeOk, Bounded, Loop, LastStep
<1>4. AllPlaced'
  BY <1>1, Unmoved DEF TrainingInv, AllPlaced, Placed
<1> QED BY <1>1, <1>2, <1>3, <1>4, Unmoved DEF TrainingInv

LEMMA WriteTrackerKeeps ==
  ASSUME TrainingInv, WriteTracker
  PROVE  TrainingInv'
<1>1. /\ pc = "tracker" /\ pc' = "end" /\ tracker' = step
      /\ UNCHANGED <<config, step, prog, observed, level, score, given, updates, dirs, crashes>>
  BY DEF WriteTracker, ranks
<1>2. TypeOk /\ Bounded
  BY DEF TrainingInv
<1>3. TypeOk'
  BY <1>1, <1>2, BoundsFacts DEF TypeOk, Bounded, Loop, LastStep
<1>4. Bounded'
  BY <1>1, <1>2, BoundsFacts DEF TypeOk, Bounded, Loop, LastStep
<1>5. ASSUME NEW r \in Ranks
      PROVE  Quiet(r) /\ ShardWritten(r) /\ StateWritten(r) /\ prog[r] = <<>>
  BY <1>1 DEF TrainingInv, AllPlaced, Placed
<1>6. AllPlaced'
  <2>1. \A r \in Ranks : Quiet(r)'
    BY <1>1, <1>5 DEF Quiet
  <2> QED BY <1>1, <1>5, <2>1 DEF AllPlaced, Placed
<1>7. AllAlike'
  BY <1>1 DEF TrainingInv, AllAlike, Alike
<1>8. AllSound'
  BY <1>1 DEF TrainingInv, AllSound
<1>9. Tracked'
  <2>1. Process \in Nat /\ Process # 0
    BY <1>2, BoundsFacts DEF TypeOk, Process
  <2>2. 1 \in Ranks
    BY BoundsFacts DEF Ranks
  <2>3. \A r \in Ranks : dirs[step].shards[r].by = Process /\ dirs[step].shards[r].updates = updates[r]
    <3>1. ASSUME NEW r \in Ranks
          PROVE  dirs[step].shards[r].by = Process /\ dirs[step].shards[r].updates = updates[r]
      <4> DEFINE shard == [by |-> Process, updates |-> updates[r]]
      <4>1. shard.by = Process /\ shard.updates = updates[r]
        OBVIOUS
      <4>2. dirs[step].shards[r] = shard
        BY <1>5 DEF ShardWritten
      <4> HIDE DEF shard
      <4> QED BY <4>1, <4>2
    <3> QED BY <3>1
  <2>4. /\ dirs[step].state.by = Process /\ dirs[step].state.level = level[1]
        /\ dirs[step].state.score = score[1]
    <3> DEFINE state == [by |-> Process, level |-> level[1], score |-> score[1]]
    <3>1. state.by = Process /\ state.level = level[1] /\ state.score = score[1]
      OBVIOUS
    <3>2. dirs[step].state = state
      BY <1>5, <2>2 DEF StateWritten
    <3> HIDE DEF state
    <3> QED BY <3>1, <3>2
  <2>5. \A r, s \in Ranks :
          level[r] = level[s] /\ score[r] = score[s] /\ WithoutParts(updates[r]) = WithoutParts(updates[s])
    BY <1>1 DEF TrainingInv, AllAlike, Alike
  <2>6. \A r \in Ranks : Behind(config, updates[r], level[1], score[1])
    BY <1>5, <2>2, <2>5 DEF Quiet
  <2>7. SavedWell(config, dirs[step])
    BY <2>1, <2>3, <2>4, <2>5, <2>6 DEF SavedWell, TrainingInv, AllSound
  <2> QED BY <1>1, <2>7 DEF Tracked
<1> QED BY <1>3, <1>4, <1>6, <1>7, <1>8, <1>9 DEF TrainingInv

LEMMA EndStepKeeps ==
  ASSUME TrainingInv, EndStep
  PROVE  TrainingInv'
<1>1. /\ pc = "end" /\ pc' = (IF step >= TotalSteps THEN "done" ELSE "step") /\ step' = step + 1
      /\ UNCHANGED <<config, prog, observed, level, score, given, updates, dirs, tracker, crashes>>
  BY DEF EndStep, ranks
<1>2. TypeOk'
  BY <1>1 DEF TrainingInv, TypeOk
<1>3. Bounded'
  BY <1>1, BoundsFacts DEF TrainingInv, TypeOk, Bounded, Loop, LastStep
<1>4. AllPlaced'
  BY <1>1, Unmoved DEF TrainingInv, AllPlaced, Placed
<1> QED BY <1>1, <1>2, <1>3, <1>4, Unmoved DEF TrainingInv

LEMMA RestartKeeps ==
  ASSUME TrainingInv, Restart
  PROVE  TrainingInv'
<1>1. /\ pc # "boot" /\ crashes < MaxCrashes /\ crashes' = crashes + 1 /\ pc' = "boot" /\ step' = 0
      /\ prog' = Empty(<<>>) /\ observed' = Empty(<<>>) /\ level' = Empty(<<>>) /\ score' = Empty(<<>>)
      /\ given' = [r \in Ranks |-> Neutral(r)] /\ updates' = Empty(<<>>)
      /\ UNCHANGED <<config, dirs, tracker>>
  BY DEF Restart
<1>2. TypeOk'
  <2>1. <<>> \in Levels /\ <<>> \in History /\ <<>> \in Seq(Ops) /\ <<>> \in Seq(Observation)
    BY DEF Levels, History
  <2>2. \A r \in Ranks : Neutral(r) \in Seq(Weight)
    BY <2>1, BoundsFacts DEF Neutral, Weight, Ranks
  <2> QED BY <1>1, <2>1, <2>2, BoundsFacts DEF TrainingInv, TypeOk, Empty
<1>3. Bounded'
  BY <1>1, BoundsFacts DEF TrainingInv, TypeOk, Bounded, Loop
<1>4. \A r \in Ranks : /\ prog'[r] = <<>> /\ updates'[r] = <<>> /\ level'[r] = <<>> /\ score'[r] = <<>>
                       /\ given'[r] = Neutral(r)
  BY <1>1 DEF Empty
<1>5. AllPlaced'
  BY <1>1, <1>4 DEF AllPlaced, Placed, Fresh
<1>6. AllAlike'
  <2>1. \A r \in Ranks : Basis(Neutral(r)) = {[level |-> <<>>, score |-> <<>>]}
    BY DEF Basis, Neutral, Range
  <2> QED BY <1>4, <2>1 DEF AllAlike, Alike
<1>7. AllSound'
  BY <1>4, NoHistory DEF AllSound
<1>8. Tracked'
  BY <1>1 DEF TrainingInv, Tracked
<1> QED BY <1>2, <1>3, <1>5, <1>6, <1>7, <1>8 DEF TrainingInv

\* A rank whose own state and files a step leaves alone stays where it is.
LEMMA Untouched ==
  ASSUME NEW r \in Ranks, Placed(r), pc' = pc, UNCHANGED <<config, step, tracker, crashes>>,
         prog'[r] = prog[r], observed'[r] = observed[r], level'[r] = level[r],
         score'[r] = score[r], given'[r] = given[r], updates'[r] = updates[r],
         tracker # 0 => dirs'[tracker] = dirs[tracker],
         ShardWritten(r) => ShardWritten(r)', StateWritten(r) => StateWritten(r)'
  PROVE  Placed(r)'
<1>1. /\ (Ready(r) => Ready(r)') /\ (Quiet(r) => Quiet(r)') /\ (Fresh(r) => Fresh(r)')
      /\ (Scored(r) => Scored(r)')
  BY DEF Fresh, Ready, Scored, Entered, Process, Quiet
<1>2. Loading(r) => Loading(r)'
  BY DEF Loading, Loaded, Fresh
<1>3. Saving(r) => Saving(r)'
  BY <1>1 DEF Saving
<1>4. \A rest : Measuring(r, rest) => Measuring(r, rest)'
  BY DEF Measuring, Seen
<1>5. Scoring(r) => Scoring(r)'
  <2>1. (Exposing(r) => Exposing(r)') /\ (Weighing(r) => Weighing(r)')
    BY <1>1 DEF Exposing, Weighing, SeenAll, Seen, Now, Process
  <2> QED BY <1>1, <1>4, <2>1 DEF Scoring
<1>6. Updating(r) => Updating(r)'
  <2>1. Finishing(r) => Finishing(r)'
    BY DEF Finishing, SeenAll, Seen, Now, Process, LevelDue, ScoreDue
  <2>2. UpdateProgram(r)' = UpdateProgram(r)
    BY DEF UpdateProgram, Observations
  <2> QED BY <1>1, <1>4, <2>1, <2>2 DEF Updating, Masked
<1> QED BY <1>1, <1>2, <1>3, <1>5, <1>6 DEF Placed

LEMMA StutterKeeps ==
  ASSUME TrainingInv, UNCHANGED vars
  PROVE  TrainingInv'
<1>1. pc' = pc /\ UNCHANGED <<config, step, prog, observed, level, score, given, updates, dirs, tracker, crashes>>
  BY DEF vars, ranks
<1>2. TypeOk' /\ Bounded'
  BY <1>1 DEF TrainingInv, TypeOk, Bounded
<1>3. AllAlike' /\ AllSound' /\ Tracked'
  BY <1>1 DEF TrainingInv, AllAlike, Alike, AllSound, Tracked
<1>4. ASSUME NEW r \in Ranks
      PROVE  Placed(r)'
  <2>1. Placed(r)
    BY DEF TrainingInv, AllPlaced
  <2>2. (ShardWritten(r) => ShardWritten(r)') /\ (StateWritten(r) => StateWritten(r)')
    BY <1>1 DEF ShardWritten, StateWritten, Process
  <2> QED BY <1>1, <2>1, <2>2, Untouched
<1> QED BY <1>2, <1>3, <1>4 DEF TrainingInv, AllPlaced

-----------------------------------------------------------------------------
(* The steps of one rank.                                                     *)

LEMMA ObservesNext ==
  ASSUME TypeOk, NEW r \in Ranks, NEW rest \in Seq(Ops), ToObserve(r, rest), Observe(r)
  PROVE  Measuring(r, rest)'
<1>1. /\ observed' = [observed EXCEPT ![r] =
           Append(@, [part |-> <<r, Len(@) + 1>>, level |-> level[r]])]
      /\ prog' = [prog EXCEPT ![r] = Tail(@)] /\ level' = level /\ config' = config
  BY DEF Observe, Done, OnlyRanks
<1>2. observed[r] \in Seq(Observation) /\ Len(observed[r]) \in Nat /\ config \in ConfigSpace
  BY DEF TypeOk
<1>3. RowsOf(config) \in Nat
  BY <1>2, RowsOfType
<1>4. Len(observed[r]) < RowsOf(config) /\ Measuring(r, rest)
  BY DEF ToObserve
<1> DEFINE n == Len(observed[r]) + 1
           o == [part |-> <<r, n>>, level |-> level[r]]
<1>5. observed'[r] = Append(observed[r], o)
  BY <1>1 DEF TypeOk
<1>6. prog'[r] = Todo(RowsOf(config) - n, rest)
  <2>1. prog'[r] = Tail(prog[r])
    BY <1>1 DEF TypeOk
  <2> QED BY <2>1, <1>4, MeasuringShape
<1>7. /\ Len(observed'[r]) = n /\ DOMAIN observed'[r] = 1..n /\ observed'[r][n] = o
      /\ \A i \in 1..Len(observed[r]) : observed'[r][i] = observed[r][i]
  <2>1. o \in Observation
    BY <1>2 DEF TypeOk, Observation
  <2> HIDE DEF o
  <2> QED BY <1>2, <1>5, <2>1
<1>8. \A i \in 1..n : observed'[r][i] = [part |-> <<r, i>>, level |-> level[r]]
  <2>1. \A i \in 1..Len(observed[r]) : observed[r][i] = [part |-> <<r, i>>, level |-> level[r]]
    BY <1>2, <1>4 DEF Measuring, Seen
  <2>2. ASSUME NEW i \in 1..n, i # n
        PROVE  i \in 1..Len(observed[r])
    BY <1>2, <2>2
  <2> HIDE DEF n
  <2> QED BY <1>7, <2>1, <2>2 DEF o
<1>9. n <= RowsOf(config)
  BY <1>2, <1>3, <1>4
<1>10. Seen(r)'
  <2> HIDE DEF n, o
  <2> QED BY <1>1, <1>7, <1>8, <1>9 DEF Seen
<1> HIDE DEF n
<1> QED BY <1>1, <1>6, <1>7, <1>10 DEF Measuring

LEMMA ObserveKeeps ==
  ASSUME TrainingInv, NEW r \in Ranks, Observe(r)
  PROVE  TrainingInv'
<1>1. /\ observed' = [observed EXCEPT ![r] =
           Append(@, [part |-> <<r, Len(@) + 1>>, level |-> level[r]])]
      /\ prog' = [prog EXCEPT ![r] = Tail(@)] /\ Local(r, "observe")
      /\ UNCHANGED <<config, pc, step, level, score, given, updates, dirs, tracker, crashes>>
  BY DEF Observe, Done, OnlyRanks
<1>2. TypeOk /\ Bounded /\ AllPlaced
  BY DEF TrainingInv
<1>3. \/ pc = "scoring" /\ config.recipe = "rarity" /\ Quiet(r) /\ ToObserve(r, <<"reduce activation">>)
      \/ pc = "updating" /\ config.recipe = "relative_update" /\ Quiet(r) /\ ToObserve(r, <<"step">>)
      \/ pc = "updating" /\ config.recipe = "consistency" /\ Quiet(r) /\ Masked(r)
         /\ ToObserve(r, <<"norm", "finish">>)
  BY <1>1, <1>2, Heads DEF AllPlaced
<1>4. TypeOk'
  <2>1. Tail(prog[r]) \in Seq(Ops)
    BY <1>1, <1>2 DEF TypeOk, Local
  <2>2. Append(observed[r], [part |-> <<r, Len(observed[r]) + 1>>, level |-> level[r]]) \in Seq(Observation)
    <3> DEFINE o == [part |-> <<r, Len(observed[r]) + 1>>, level |-> level[r]]
    <3>1. observed[r] \in Seq(Observation) /\ Len(observed[r]) \in Nat /\ level[r] \in Levels
      BY <1>2 DEF TypeOk
    <3>o. o \in Observation
      BY <3>1 DEF Observation
    <3> HIDE DEF o
    <3>2. Append(observed[r], o) \in Seq(Observation)
      BY <3>1, <3>o
    <3> QED BY <3>2 DEF o
  <2>3. prog' \in [Ranks -> Seq(Ops)] /\ observed' \in [Ranks -> Seq(Observation)]
    BY <1>1, <1>2, <2>1, <2>2 DEF TypeOk
  <2> QED BY <1>1, <1>2, <2>3 DEF TypeOk
<1>5. Bounded'
  BY <1>1, <1>2 DEF Bounded
<1>6. pc # "loading"
  BY <1>3
<1>7. ASSUME NEW s \in Ranks
      PROVE  Placed(s)'
  <2>1. CASE s = r
    <3>1. Quiet(r)' /\ (Masked(r) => Masked(r)')
      BY <1>1, <1>3 DEF Quiet, Masked
    <3>2. CASE pc = "scoring"
      <4>1. Measuring(r, <<"reduce activation">>)'
        BY <1>2, <1>3, <3>2, ObservesNext, RestsAreOps
      <4>2. Scoring(r)'
        BY <1>1, <1>3, <3>1, <3>2, <4>1 DEF Scoring
      <4> QED BY <1>1, <2>1, <3>2, <4>2 DEF Placed
    <3>3. CASE pc = "updating" /\ config.recipe = "relative_update"
      <4>1. Measuring(r, <<"step">>)'
        BY <1>2, <1>3, <3>3, ObservesNext, RestsAreOps
      <4>2. Updating(r)'
        BY <1>1, <1>3, <3>1, <3>3, <4>1 DEF Updating
      <4> QED BY <1>1, <2>1, <3>3, <4>2 DEF Placed
    <3>4. CASE pc = "updating" /\ config.recipe = "consistency"
      <4>1. Measuring(r, <<"norm", "finish">>)'
        BY <1>2, <1>3, <3>4, ObservesNext, RestsAreOps
      <4>2. Updating(r)'
        BY <1>1, <1>3, <3>1, <3>4, <4>1 DEF Updating
      <4> QED BY <1>1, <2>1, <3>4, <4>2 DEF Placed
    <3> QED BY <1>3, <3>2, <3>3, <3>4
  <2>2. CASE s # r
    <3>1. prog'[s] = prog[s] /\ observed'[s] = observed[s]
      BY <1>1, <1>2, <2>2 DEF TypeOk
    <3>2. (ShardWritten(s) => ShardWritten(s)') /\ (StateWritten(s) => StateWritten(s)')
      BY <1>1 DEF ShardWritten, StateWritten, Process
    <3> QED BY <1>1, <1>2, <3>1, <3>2, Untouched DEF AllPlaced
  <2> QED BY <2>1, <2>2
<1>8. AllAlike' /\ AllSound' /\ Tracked'
  BY <1>1, <1>6, Unmoved
<1> QED BY <1>4, <1>5, <1>7, <1>8 DEF TrainingInv, AllPlaced

LEMMA ResampleKeeps ==
  ASSUME TrainingInv, NEW r \in Ranks, Resample(r)
  PROVE  TrainingInv'
<1>1. /\ given' = [given EXCEPT ![r] = <<[part |-> <<r, 1>>, level |-> <<>>, score |-> score[r]]>>]
      /\ prog' = [prog EXCEPT ![r] = Tail(@)] /\ Local(r, "resample")
      /\ UNCHANGED <<config, pc, step, observed, level, score, updates, dirs, tracker, crashes>>
  BY DEF Resample, Done, OnlyRanks
<1>2. TypeOk /\ Bounded /\ AllPlaced
  BY DEF TrainingInv
<1>3. /\ pc = "updating" /\ config.recipe = "consistency" /\ Quiet(r)
      /\ prog[r] = UpdateProgram(r) /\ observed[r] = <<>>
  BY <1>1, <1>2, Heads DEF AllPlaced
<1>4. TypeOk'
  <2>1. Tail(prog[r]) \in Seq(Ops)
    BY <1>1, <1>2 DEF TypeOk, Local
  <2>2. <<[part |-> <<r, 1>>, level |-> <<>>, score |-> score[r]]>> \in Seq(Weight)
    BY <1>2 DEF TypeOk, Weight, Levels
  <2>3. prog' \in [Ranks -> Seq(Ops)] /\ given' \in [Ranks -> Seq(Weight)]
    BY <1>1, <1>2, <2>1, <2>2 DEF TypeOk
  <2> QED BY <1>1, <1>2, <2>3 DEF TypeOk
<1>5. Bounded'
  BY <1>1, <1>2 DEF Bounded
<1>6. ASSUME NEW s \in Ranks
      PROVE  Placed(s)'
  <2>1. CASE s = r
    <3>1. prog'[r] = Todo(RowsOf(config), <<"norm", "finish">>)
      BY <1>1, <1>2, <1>3, UpdateShape DEF TypeOk
    <3>2. RowsOf(config) \in Nat /\ Len(observed[r]) = 0 /\ RowsOf(config) - 0 = RowsOf(config)
      <4>1. config \in ConfigSpace
        BY <1>2 DEF TypeOk
      <4> QED BY <1>3, <4>1, RowsOfType
    <3>3. Seen(r)'
      BY <1>1, <1>3, <3>2 DEF Seen
    <3>4. Measuring(r, <<"norm", "finish">>)'
      BY <1>1, <3>1, <3>2, <3>3 DEF Measuring
    <3>5. Masked(r)' /\ Quiet(r)'
      BY <1>1, <1>2, <1>3 DEF Masked, Quiet, TypeOk
    <3>6. Updating(r)'
      BY <1>1, <1>3, <3>4, <3>5 DEF Updating
    <3> QED BY <1>1, <1>3, <2>1, <3>6 DEF Placed
  <2>2. CASE s # r
    <3>1. prog'[s] = prog[s] /\ given'[s] = given[s]
      BY <1>1, <1>2, <2>2 DEF TypeOk
    <3>2. (ShardWritten(s) => ShardWritten(s)') /\ (StateWritten(s) => StateWritten(s)')
      BY <1>1 DEF ShardWritten, StateWritten, Process
    <3> QED BY <1>1, <1>2, <3>1, <3>2, Untouched DEF AllPlaced
  <2> QED BY <2>1, <2>2
<1>7. AllAlike'
  BY <1>1, <1>3 DEF TrainingInv, AllAlike, Alike
<1>8. AllSound' /\ Tracked'
  BY <1>1 DEF TrainingInv, AllSound, Tracked
<1> QED BY <1>4, <1>5, <1>6, <1>7, <1>8 DEF TrainingInv, AllPlaced

\* Which operation of the save comes next says what is already written.
LEMMA SavingHeads ==
  ASSUME NEW r, Saving(r), prog[r] # <<>>
  PROVE  /\ Head(prog[r]) = "write shard" => prog[r] = SaveProgram(r)
         /\ Head(prog[r]) = "write state" =>
              r = 1 /\ ShardWritten(r) /\ Tail(prog[r]) = <<"barrier">>
         /\ Head(prog[r]) = "barrier" =>
              /\ ShardWritten(r)
              /\ \/ Tail(prog[r]) = Tail(Tail(SaveProgram(r)))
                 \/ Tail(prog[r]) = <<>> /\ StateWritten(r)
<1>1. /\ Head(<<"write shard", "barrier", "write state", "barrier">>) = "write shard"
      /\ Head(<<"write shard", "barrier", "barrier">>) = "write shard"
  OBVIOUS
<1>2. /\ Head(<<"barrier", "write state", "barrier">>) = "barrier"
      /\ Head(<<"barrier", "barrier">>) = "barrier"
  OBVIOUS
<1>3. Head(<<"barrier">>) = "barrier" /\ Tail(<<"barrier">>) = <<>>
  OBVIOUS
<1>4. Head(<<"write state", "barrier">>) = "write state" /\ Tail(<<"write state", "barrier">>) = <<"barrier">>
  OBVIOUS
<1>5. CASE prog[r] = SaveProgram(r)
  BY <1>1, <1>5, SaveShape
<1>6. CASE prog[r] = Tail(SaveProgram(r)) /\ ShardWritten(r)
  BY <1>2, <1>6, SaveShape
<1>7. CASE prog[r] = Tail(Tail(SaveProgram(r))) /\ ShardWritten(r)
  <2>1. CASE r = 1
    BY <1>4, <1>7, <2>1, SaveShape
  <2>2. CASE r # 1
    BY <1>3, <1>7, <2>2, SaveShape DEF StateWritten
  <2> QED BY <2>1, <2>2
<1>8. CASE prog[r] = <<"barrier">> /\ ShardWritten(r) /\ StateWritten(r)
  BY <1>3, <1>8
<1> QED BY <1>5, <1>6, <1>7, <1>8 DEF Saving

LEMMA WriteShardKeeps ==
  ASSUME TrainingInv, NEW r \in Ranks, WriteShard(r)
  PROVE  TrainingInv'
<1> DEFINE shard == [by |-> Process, updates |-> updates[r]]
<1>1. /\ dirs' = [dirs EXCEPT ![step].shards[r] = shard]
      /\ prog' = [prog EXCEPT ![r] = Tail(@)] /\ Local(r, "write shard")
      /\ UNCHANGED <<config, pc, step, observed, level, score, given, updates, tracker, crashes>>
  BY DEF WriteShard, Done
<1>2. TypeOk /\ Bounded /\ AllPlaced
  BY DEF TrainingInv
<1>3. pc = "saving" /\ Saving(r) /\ prog[r] = SaveProgram(r)
  <2>1. SavingOp(r) /\ prog[r] # <<>> /\ Head(prog[r]) = "write shard"
    BY <1>1, <1>2, Heads DEF AllPlaced, Local
  <2> QED BY <2>1, SavingHeads DEF SavingOp
<1>4. tracker < step /\ step \in 1..LastStep
  BY <1>2, <1>3, BoundsFacts DEF TypeOk, Bounded, Loop, LastStep
<1>5. shard \in Parts
  BY <1>2, NowType DEF TypeOk, Parts
<1> HIDE DEF shard
<1>6. /\ dirs' \in [1..LastStep -> [shards : [Ranks -> Parts], state : States]]
      /\ dirs'[step].shards[r] = shard /\ dirs'[step].state = dirs[step].state
      /\ \A s \in Ranks : s # r => dirs'[step].shards[s] = dirs[step].shards[s]
      /\ tracker # 0 => dirs'[tracker] = dirs[tracker]
  <2>0. tracker # 0 => tracker \in 1..LastStep /\ tracker # step
    BY <1>2, <1>4 DEF TypeOk
  <2>1. dirs \in [1..LastStep -> [shards : [Ranks -> Parts], state : States]]
    BY <1>2 DEF TypeOk
  <2> DEFINE shards == [dirs[step].shards EXCEPT ![r] = shard]
  <2>2. /\ shards \in [Ranks -> Parts] /\ shards[r] = shard
        /\ \A s \in Ranks : s # r => shards[s] = dirs[step].shards[s]
    BY <1>4, <1>5, <2>1
  <2> DEFINE dir == [dirs[step] EXCEPT !.shards = shards]
  <2>3. dirs' = [dirs EXCEPT ![step] = dir]
    BY <1>1
  <2> HIDE DEF shards
  <2>4. /\ dir \in [shards : [Ranks -> Parts], state : States]
        /\ dir.shards = shards /\ dir.state = dirs[step].state
    BY <1>4, <2>1, <2>2
  <2> HIDE DEF dir
  <2>5. dirs' \in [1..LastStep -> [shards : [Ranks -> Parts], state : States]] /\ dirs'[step] = dir
    BY <1>4, <2>1, <2>3, <2>4
  <2>6. tracker # 0 => dirs'[tracker] = dirs[tracker]
    BY <2>0, <2>1, <2>3
  <2> QED BY <2>2, <2>4, <2>5, <2>6
<1>7. TypeOk'
  <2>a. prog[r] \in Seq(Ops) /\ prog[r] # <<>>
    BY <1>1, <1>2 DEF TypeOk, Local
  <2>0. Tail(prog[r]) \in Seq(Ops)
    BY <2>a
  <2>1. prog' \in [Ranks -> Seq(Ops)]
    BY <1>1, <1>2, <2>0 DEF TypeOk
  <2> QED BY <1>1, <1>2, <1>6, <2>1 DEF TypeOk, LastStep
<1>8. Bounded'
  BY <1>1, <1>2 DEF Bounded
<1>9. ASSUME NEW s \in Ranks
      PROVE  Placed(s)'
  <2>1. CASE s = r
    <3>1. prog'[r] = Tail(SaveProgram(r))
      BY <1>1, <1>2, <1>3 DEF TypeOk
    <3>2. ShardWritten(r)'
      BY <1>1, <1>6 DEF ShardWritten, shard, Process
    <3>3. Quiet(r)'
      BY <1>1, <1>3 DEF Saving, Quiet
    <3>4. Saving(r)'
      BY <3>1, <3>2, <3>3 DEF Saving
    <3> QED BY <1>1, <1>3, <2>1, <3>4 DEF Placed
  <2>2. CASE s # r
    <3>1. prog'[s] = prog[s]
      BY <1>1, <1>2, <2>2 DEF TypeOk
    <3>2. (ShardWritten(s) => ShardWritten(s)') /\ (StateWritten(s) => StateWritten(s)')
      BY <1>1, <1>6, <2>2 DEF ShardWritten, StateWritten, Process
    <3> QED BY <1>1, <1>2, <1>6, <3>1, <3>2, Untouched DEF AllPlaced
  <2> QED BY <2>1, <2>2
<1>10. AllAlike' /\ AllSound'
  BY <1>1 DEF TrainingInv, AllAlike, Alike, AllSound
<1>11. Tracked'
  BY <1>1, <1>6 DEF TrainingInv, Tracked
<1> QED BY <1>7, <1>8, <1>9, <1>10, <1>11 DEF TrainingInv, AllPlaced

LEMMA WriteStateKeeps ==
  ASSUME TrainingInv, NEW r \in Ranks, WriteState(r)
  PROVE  TrainingInv'
<1> DEFINE state == [by |-> Process, level |-> level[r], score |-> score[r]]
<1>1. /\ dirs' = [dirs EXCEPT ![step].state = state]
      /\ prog' = [prog EXCEPT ![r] = Tail(@)] /\ Local(r, "write state")
      /\ UNCHANGED <<config, pc, step, observed, level, score, given, updates, tracker, crashes>>
  BY DEF WriteState, Done
<1>2. TypeOk /\ Bounded /\ AllPlaced
  BY DEF TrainingInv
<1>3. pc = "saving" /\ Saving(r) /\ r = 1 /\ ShardWritten(r) /\ Tail(prog[r]) = <<"barrier">>
  <2>1. SavingOp(r) /\ prog[r] # <<>> /\ Head(prog[r]) = "write state"
    BY <1>1, <1>2, Heads DEF AllPlaced, Local
  <2> QED BY <2>1, SavingHeads DEF SavingOp
<1>4. tracker < step /\ step \in 1..LastStep
  BY <1>2, <1>3, BoundsFacts DEF TypeOk, Bounded, Loop, LastStep
<1>5. state \in States
  BY <1>2, NowType DEF TypeOk, States
<1> HIDE DEF state
<1>6. /\ dirs' \in [1..LastStep -> [shards : [Ranks -> Parts], state : States]]
      /\ dirs'[step].state = state /\ dirs'[step].shards = dirs[step].shards
      /\ tracker # 0 => dirs'[tracker] = dirs[tracker]
  <2>0. tracker # 0 => tracker \in 1..LastStep /\ tracker # step
    BY <1>2, <1>4 DEF TypeOk
  <2>1. dirs \in [1..LastStep -> [shards : [Ranks -> Parts], state : States]]
    BY <1>2 DEF TypeOk
  <2> DEFINE dir == [dirs[step] EXCEPT !.state = state]
  <2>3. dirs' = [dirs EXCEPT ![step] = dir]
    BY <1>1
  <2>4. /\ dir \in [shards : [Ranks -> Parts], state : States]
        /\ dir.state = state /\ dir.shards = dirs[step].shards
    BY <1>4, <1>5, <2>1
  <2> HIDE DEF dir
  <2>5. dirs' \in [1..LastStep -> [shards : [Ranks -> Parts], state : States]] /\ dirs'[step] = dir
    BY <1>4, <2>1, <2>3, <2>4
  <2>6. tracker # 0 => dirs'[tracker] = dirs[tracker]
    BY <2>0, <2>1, <2>3
  <2> QED BY <2>4, <2>5, <2>6
<1>7. TypeOk'
  <2>a. prog[r] \in Seq(Ops) /\ prog[r] # <<>>
    BY <1>1, <1>2 DEF TypeOk, Local
  <2>0. Tail(prog[r]) \in Seq(Ops)
    BY <2>a
  <2>1. prog' \in [Ranks -> Seq(Ops)]
    BY <1>1, <1>2, <2>0 DEF TypeOk
  <2> QED BY <1>1, <1>2, <1>6, <2>1 DEF TypeOk, LastStep
<1>8. Bounded'
  BY <1>1, <1>2 DEF Bounded
<1>9. ASSUME NEW s \in Ranks
      PROVE  Placed(s)'
  <2>1. CASE s = r
    <3>1. prog'[r] = <<"barrier">>
      BY <1>1, <1>2, <1>3 DEF TypeOk
    <3>2. ShardWritten(r)' /\ StateWritten(r)'
      BY <1>1, <1>3, <1>6 DEF ShardWritten, StateWritten, state, Process
    <3>3. Quiet(r)'
      BY <1>1, <1>3 DEF Saving, Quiet
    <3>4. Saving(r)'
      BY <3>1, <3>2, <3>3 DEF Saving
    <3> QED BY <1>1, <1>3, <2>1, <3>4 DEF Placed
  <2>2. CASE s # r
    <3>1. prog'[s] = prog[s]
      BY <1>1, <1>2, <2>2 DEF TypeOk
    <3>2. (ShardWritten(s) => ShardWritten(s)') /\ (StateWritten(s) => StateWritten(s)')
      BY <1>1, <1>3, <1>6, <2>2 DEF ShardWritten, StateWritten, Process
    <3> QED BY <1>1, <1>2, <1>6, <3>1, <3>2, Untouched DEF AllPlaced
  <2> QED BY <2>1, <2>2
<1>10. AllAlike' /\ AllSound'
  BY <1>1 DEF TrainingInv, AllAlike, Alike, AllSound
<1>11. Tracked'
  BY <1>1, <1>6 DEF TrainingInv, Tracked
<1> QED BY <1>7, <1>8, <1>9, <1>10, <1>11 DEF TrainingInv, AllPlaced

LEMMA LoadKeeps ==
  ASSUME TrainingInv, NEW r \in Ranks, Load(r)
  PROVE  TrainingInv'
<1> DEFINE shard == dirs[tracker].shards[r]
           state == dirs[tracker].state
<1>1. TypeOk /\ Bounded /\ AllPlaced
  BY DEF TrainingInv
<1>2. pc = "loading" /\ prog[r] = <<"load">> /\ tracker # 0
  BY <1>1, Heads DEF AllPlaced, Load, LoadingOp
<1>3. /\ state.by # 0 /\ shard.by # 0
      /\ HistoryOk(config, r, shard.updates)
  BY <1>2 DEF TrainingInv, Tracked, SavedWell
<1>4. /\ updates' = [updates EXCEPT ![r] = shard.updates]
      /\ level' = [level EXCEPT ![r] = state.level] /\ score' = [score EXCEPT ![r] = state.score]
      /\ prog' = [prog EXCEPT ![r] = Tail(@)]
      /\ UNCHANGED <<config, pc, step, observed, given, dirs, tracker, crashes>>
  BY <1>3 DEF Load, Restored, Done, OnlyRanks
<1>5. shard.updates \in History /\ state.level \in Levels /\ state.score \in Levels
  <2>1. tracker \in 1..LastStep
    BY <1>1, <1>2 DEF TypeOk
  <2>2. shard \in Parts /\ state \in States
    BY <1>1, <2>1 DEF TypeOk
  <2>3. NoPart.by = 0
    BY DEF NoPart
  <2> HIDE DEF shard, state
  <2> QED BY <1>3, <2>2, <2>3 DEF Parts, States
<1> HIDE DEF shard, state
<1>6. TypeOk'
  <2>1. Tail(prog[r]) \in Seq(Ops)
    BY <1>2
  <2>2. /\ prog' \in [Ranks -> Seq(Ops)] /\ updates' \in [Ranks -> History]
        /\ level' \in [Ranks -> Levels] /\ score' \in [Ranks -> Levels]
    BY <1>1, <1>4, <1>5, <2>1 DEF TypeOk
  <2> QED BY <1>1, <1>4, <2>2 DEF TypeOk
<1>7. Bounded'
  BY <1>1, <1>4 DEF Bounded
<1>8. ASSUME NEW s \in Ranks
      PROVE  Placed(s)'
  <2>1. CASE s = r
    <3>1. prog'[r] = <<>>
      BY <1>1, <1>2, <1>4 DEF TypeOk
    <3>2. Loaded(r)'
      BY <1>1, <1>2, <1>4 DEF Loaded, TypeOk, shard, state
    <3> QED BY <1>2, <1>4, <2>1, <3>1, <3>2 DEF Placed, Loading
  <2>2. CASE s # r
    <3>1. /\ prog'[s] = prog[s] /\ updates'[s] = updates[s] /\ level'[s] = level[s]
          /\ score'[s] = score[s]
      BY <1>1, <1>4, <2>2 DEF TypeOk
    <3>2. (ShardWritten(s) => ShardWritten(s)') /\ (StateWritten(s) => StateWritten(s)')
      BY <1>4, <3>1 DEF ShardWritten, StateWritten, Process
    <3> QED BY <1>1, <1>4, <3>1, <3>2, Untouched DEF AllPlaced
  <2> QED BY <2>1, <2>2
<1>9. AllAlike'
  BY <1>2, <1>4 DEF TrainingInv, AllAlike, Alike
<1>10. AllSound'
  <2>1. \A s \in Ranks : updates'[s] = IF s = r THEN shard.updates ELSE updates[s]
    BY <1>1, <1>4 DEF TypeOk
  <2> QED BY <1>3, <1>4, <2>1 DEF TrainingInv, AllSound, shard
<1>11. Tracked'
  BY <1>4 DEF TrainingInv, Tracked
<1> QED BY <1>6, <1>7, <1>8, <1>9, <1>10, <1>11 DEF TrainingInv, AllPlaced

LEMMA BarrierKeeps ==
  ASSUME TrainingInv, Barrier
  PROVE  TrainingInv'
<1>1. /\ prog' = [r \in Ranks |-> Tail(prog[r])] /\ \A r \in Ranks : Local(r, "barrier")
      /\ UNCHANGED <<config, pc, step, observed, level, score, given, updates, dirs, tracker, crashes>>
  BY DEF Barrier, Collective, AllDone, OnlyRanks
<1>2. TypeOk /\ Bounded /\ AllPlaced
  BY DEF TrainingInv
<1>3. ASSUME NEW r \in Ranks
      PROVE  /\ pc = "saving" /\ Quiet(r) /\ ShardWritten(r)
             /\ \/ Tail(prog[r]) = Tail(Tail(SaveProgram(r)))
                \/ Tail(prog[r]) = <<>> /\ StateWritten(r)
  <2>1. SavingOp(r) /\ prog[r] # <<>> /\ Head(prog[r]) = "barrier"
    BY <1>1, <1>2, Heads DEF AllPlaced, Local
  <2> QED BY <2>1, SavingHeads DEF SavingOp, Saving
<1>4. 1 \in Ranks
  BY BoundsFacts DEF Ranks
<1>5. pc = "saving"
  BY <1>3, <1>4
<1>6. TypeOk'
  <2>1. prog' \in [Ranks -> Seq(Ops)]
    BY <1>1, <1>2 DEF TypeOk, Local
  <2> QED BY <1>1, <1>2, <2>1 DEF TypeOk
<1>7. Bounded'
  BY <1>1, <1>2 DEF Bounded
<1>8. ASSUME NEW r \in Ranks
      PROVE  Placed(r)'
  <2>1. prog'[r] = Tail(prog[r])
    BY <1>1
  <2>2. Quiet(r)' /\ ShardWritten(r)' /\ (StateWritten(r) => StateWritten(r)')
    BY <1>1, <1>3 DEF Quiet, ShardWritten, StateWritten, Process
  <2>3. Saving(r)'
    BY <1>3, <2>1, <2>2 DEF Saving
  <2> QED BY <1>1, <1>5, <2>3 DEF Placed
<1> QED BY <1>1, <1>5, <1>6, <1>7, <1>8, Unmoved DEF TrainingInv, AllPlaced

-----------------------------------------------------------------------------
(* The steps of all ranks together.                                           *)

LEMMA LevelsGrow ==
  ASSUME NEW l \in Levels, NEW m \in Measurement
  PROVE  Append(l, m) \in Levels
BY DEF Levels

LEMMA HistoryGrowsType ==
  ASSUME NEW h \in History, NEW u \in Entry
  PROVE  Append(h, u) \in History
BY DEF History

LEMMA NeutralBasis ==
  ASSUME NEW r
  PROVE  Basis(Neutral(r)) = {[level |-> <<>>, score |-> <<>>]}
BY DEF Basis, Neutral, Range

LEMMA SingleBasis ==
  ASSUME NEW part, NEW lev, NEW sc
  PROVE  Basis(<<[part |-> part, level |-> lev, score |-> sc]>>) = {[level |-> lev, score |-> sc]}
<1> DEFINE g == [part |-> part, level |-> lev, score |-> sc]
<1>1. g.level = lev /\ g.score = sc
  OBVIOUS
<1>2. Range(<<g>>) = {g}
  BY DEF Range
<1> QED BY <1>1, <1>2 DEF Basis

\* An update trained with what the past gave, in terms of its basis.
LEMMA EntryByBasis ==
  ASSUME NEW c, NEW r, NEW past, NEW u, NEW b,
         u.applied => Basis(u.given) = {b} /\ b = DueBasis(c, past, u),
         (c.recipe = "rarity" /\ u.given # Neutral(r)) =>
           Len(u.given) = RowsPerRank /\ \A i \in DOMAIN u.given : u.given[i].part = <<r, i>>
  PROVE  EntryOk(c, r, past, u)
<1>1. ASSUME u.applied, NEW g \in Range(u.given)
      PROVE  [level |-> g.level, score |-> g.score] = DueBasis(c, past, u)
  <2>1. [level |-> g.level, score |-> g.score] \in Basis(u.given)
    BY DEF Basis
  <2> QED BY <1>1, <2>1
<1> QED BY <1>1 DEF EntryOk

LEMMA ReduceActivationKeeps ==
  ASSUME TrainingInv, ReduceActivation
  PROVE  TrainingInv'
<1>1. /\ prog' = [r \in Ranks |-> IF level[r] = <<>> THEN <<>> ELSE <<"expose", "weigh">>]
      /\ level' = [r \in Ranks |-> IF level[r] = <<>> THEN <<Reduced(r)>> ELSE level[r]]
      /\ given' = [r \in Ranks |-> IF level[r] = <<>> THEN Neutral(r) ELSE given[r]]
      /\ \A r \in Ranks : Local(r, "reduce activation")
      /\ UNCHANGED <<config, pc, step, observed, score, updates, dirs, tracker, crashes>>
  BY DEF ReduceActivation, Collective, OnlyRanks
<1>2. TypeOk /\ Bounded /\ AllPlaced /\ config \in ConfigSpace
  BY DEF TrainingInv, TypeOk
<1>3. ASSUME NEW r \in Ranks
      PROVE  /\ pc = "scoring" /\ config.recipe = "rarity" /\ Quiet(r) /\ SeenAll(r)
             /\ updates[r] \in History /\ level[r] \in Levels
  BY <1>1, <1>2, Heads DEF AllPlaced, Through, TypeOk
<1>4. 1 \in Ranks
  BY BoundsFacts DEF Ranks
<1>5. pc = "scoring" /\ config.recipe = "rarity"
  BY <1>3, <1>4
<1>6. \A r \in Ranks : Reduced(r) = Now
  BY <1>2, <1>3, ReducedIsNow
<1>7. \A r \in Ranks : level'[r] = IF level[r] = <<>> THEN <<Now>> ELSE level[r]
  BY <1>1, <1>6
<1>n. Now \in Measurement /\ Now' = Now
  BY <1>1, <1>2, NowType DEF Now, Process
<1>8. TypeOk'
  <2>1. <<>> \in Seq(Ops) /\ <<"expose", "weigh">> \in Seq(Ops)
    BY DEF Ops
  <2>2. \A r \in Ranks : Neutral(r) \in Seq(Weight)
    BY BoundsFacts DEF Neutral, Weight, Ranks, Levels
  <2>3. level' \in [Ranks -> Levels]
    <3>1. <<Now>> \in Levels
      BY <1>n DEF Levels
    <3>2. level' = [r \in Ranks |-> IF level[r] = <<>> THEN <<Now>> ELSE level[r]]
      BY <1>1, <1>6
    <3> QED BY <1>3, <3>1, <3>2
  <2>4. prog' \in [Ranks -> Seq(Ops)] /\ given' \in [Ranks -> Seq(Weight)]
    BY <1>1, <1>2, <2>1, <2>2 DEF TypeOk
  <2> QED BY <1>1, <1>2, <2>3, <2>4 DEF TypeOk
<1>9. Bounded'
  BY <1>1, <1>2 DEF Bounded
<1>10. ASSUME NEW r \in Ranks
       PROVE  Placed(r)'
  <2>1. level[r] = <<>> <=> updates[r] = <<>>
    BY <1>2, <1>3, <1>5, NothingYet DEF Quiet, Behind
  <2>2. CASE level[r] = <<>>
    <3>1. updates[r] = <<>> /\ prog'[r] = <<>> /\ given'[r] = Neutral(r) /\ level'[r] = <<Now>>
      BY <1>1, <1>7, <2>1, <2>2
    <3>2. score[r] = <<>>
      BY <1>2, <1>3, <3>1, DueOfNothing DEF Quiet, Behind
    <3>3. ASSUME NEW applied \in BOOLEAN
          PROVE  /\ Behind(config, Append(updates[r], Entered(applied, Neutral(r))), <<Now>>, <<>>)
                 /\ EntryOk(config, r, updates[r], Entered(applied, Neutral(r)))
      <4> DEFINE u == Entered(applied, Neutral(r))
      <4>1. u \in Entry /\ Mark(config, u.process, u.step) = Now
        <5>1. Neutral(r) \in Seq(Weight)
          BY BoundsFacts DEF Neutral, Weight, Ranks, Levels
        <5> QED BY <1>2, <5>1, EnteredType
      <4>2. u.given = Neutral(r)
        BY DEF Entered
      <4> HIDE DEF u
      <4>3. DueLevel(config, <<>>) = <<>> /\ DueScore(config, <<>>) = <<>> /\ <<>> \in History
        BY <1>2, DueOfNothing, EmptyHistory
      <4>4. Append(<<>>, Now) = <<Now>>
        BY <1>n
      <4>5. DueLevel(config, Append(<<>>, u)) = <<Now>>
        BY <1>2, <1>5, <4>1, <4>3, <4>4, DueLevelGrows DEF LevelGrows
      <4>6. DueScore(config, Append(<<>>, u)) = <<>>
        BY <1>2, <1>5, <4>1, <4>3, DueScoreGrows DEF ScoreGrows
      <4>7. EntryOk(config, r, <<>>, u)
        <5>1. DueBasis(config, <<>>, u) = [level |-> <<>>, score |-> <<>>]
          BY <1>5 DEF DueBasis
        <5> QED BY <4>2, <5>1, NeutralBasis, EntryByBasis
      <4> QED BY <3>1, <4>5, <4>6, <4>7 DEF Behind, u
    <3>4. Scored(r)'
      BY <1>1, <3>1, <3>2, <3>3 DEF Scored, Entered, Process
    <3> QED BY <1>1, <1>5, <3>1, <3>4 DEF Placed, Scoring, Ready
  <2>3. CASE level[r] # <<>>
    <3>1. updates[r] # <<>> /\ prog'[r] = <<"expose", "weigh">> /\ level'[r] = level[r]
      BY <1>1, <1>7, <2>1, <2>3
    <3>2. SeenAll(r)' /\ Quiet(r)'
      BY <1>1, <1>3, <3>1 DEF SeenAll, Seen, Quiet
    <3>3. Exposing(r)'
      BY <1>1, <3>1, <3>2 DEF Exposing
    <3> QED BY <1>1, <1>5, <3>3 DEF Placed, Scoring
  <2> QED BY <2>2, <2>3
<1>11. AllAlike'
  <2>1. \A r, s \in Ranks : Alike(r, s)
    BY DEF TrainingInv, AllAlike
  <2>2. ASSUME NEW r \in Ranks, NEW s \in Ranks
        PROVE  Alike(r, s)'
    <3>1. /\ level[r] = level[s] /\ score[r] = score[s] /\ Basis(given[r]) = Basis(given[s])
          /\ WithoutParts(updates[r]) = WithoutParts(updates[s])
      BY <1>5, <2>1 DEF Alike
    <3>2. level'[r] = level'[s]
      BY <1>7, <3>1
    <3>3. Basis(given'[r]) = Basis(given'[s])
      BY <1>1, <3>1, NeutralBasis
    <3> QED BY <1>1, <3>1, <3>2, <3>3 DEF Alike
  <2> QED BY <2>2 DEF AllAlike
<1>12. AllSound' /\ Tracked'
  BY <1>1 DEF TrainingInv, AllSound, Tracked
<1> QED BY <1>8, <1>9, <1>10, <1>11, <1>12 DEF TrainingInv, AllPlaced

LEMMA ExposeKeeps ==
  ASSUME TrainingInv, Expose
  PROVE  TrainingInv'
<1>1. /\ score' = [r \in Ranks |-> Append(score[r], Reduced(r))]
      /\ prog' = [r \in Ranks |-> Tail(prog[r])] /\ \A r \in Ranks : Local(r, "expose")
      /\ UNCHANGED <<config, pc, step, observed, level, given, updates, dirs, tracker, crashes>>
  BY DEF Expose, Collective, AllDone, OnlyRanks
<1>2. TypeOk /\ Bounded /\ AllPlaced
  BY DEF TrainingInv
<1>3. ASSUME NEW r \in Ranks
      PROVE  pc = "scoring" /\ config.recipe = "rarity" /\ Exposing(r) /\ SeenAll(r)
  BY <1>1, <1>2, Heads DEF AllPlaced, Exposing
<1>4. 1 \in Ranks
  BY BoundsFacts DEF Ranks
<1>5. pc = "scoring" /\ config.recipe = "rarity"
  BY <1>3, <1>4
<1>6. \A r \in Ranks : Reduced(r) = Now
  BY <1>2, <1>3, ReducedIsNow
<1>n. Now \in Measurement /\ Now' = Now
  BY <1>1, <1>2, NowType DEF Now, Process
<1>7. ASSUME NEW r \in Ranks
      PROVE  prog'[r] = <<"weigh">> /\ score'[r] = Append(score[r], Now) /\ score'[r] \in Levels
  <2>1. Tail(<<"expose", "weigh">>) = <<"weigh">>
    OBVIOUS
  <2>2. score[r] \in Levels /\ prog[r] = <<"expose", "weigh">>
    BY <1>2, <1>3 DEF TypeOk, Exposing
  <2>3. score'[r] = Append(score[r], Now) /\ prog'[r] = Tail(prog[r])
    BY <1>1, <1>6
  <2> QED BY <1>n, <2>1, <2>2, <2>3, LevelsGrow
<1>8. TypeOk'
  <2>1. <<"weigh">> \in Seq(Ops)
    BY DEF Ops
  <2>2. prog' \in [Ranks -> Seq(Ops)] /\ score' \in [Ranks -> Levels]
    BY <1>1, <1>7, <2>1
  <2> QED BY <1>1, <1>2, <2>2 DEF TypeOk
<1>9. Bounded'
  BY <1>1, <1>2 DEF Bounded
<1>10. ASSUME NEW r \in Ranks
       PROVE  Placed(r)'
  <2>1. Weighing(r)'
    BY <1>1, <1>3, <1>7, <1>n DEF Exposing, Weighing, SeenAll, Seen, Quiet, Behind
  <2> QED BY <1>1, <1>5, <2>1 DEF Placed, Scoring
<1>11. AllAlike'
  BY <1>1, <1>5, <1>7 DEF TrainingInv, AllAlike, Alike
<1>12. AllSound' /\ Tracked'
  BY <1>1 DEF TrainingInv, AllSound, Tracked
<1> QED BY <1>8, <1>9, <1>10, <1>11, <1>12 DEF TrainingInv, AllPlaced

LEMMA WeighKeeps ==
  ASSUME TrainingInv, Weigh
  PROVE  TrainingInv'
<1> DEFINE weights(r) ==
      [i \in 1..RowsPerRank |-> [part |-> <<r, i>>, level |-> level[r], score |-> score[r]]]
<1>1. /\ given' = [r \in Ranks |-> [i \in DOMAIN OwnRows(r) |->
           [part  |-> OwnRows(r)[i].part, level |-> OwnRows(r)[i].level, score |-> score[r]]]]
      /\ level' = [r \in Ranks |-> Append(level[r], Reduced(r))]
      /\ prog' = [r \in Ranks |-> Tail(prog[r])] /\ \A r \in Ranks : Local(r, "weigh")
      /\ UNCHANGED <<config, pc, step, observed, score, updates, dirs, tracker, crashes>>
  BY DEF Weigh, Collective, AllDone, OnlyRanks
<1>2. TypeOk /\ Bounded /\ AllPlaced /\ config \in ConfigSpace
  BY DEF TrainingInv, TypeOk
<1>3. ASSUME NEW r \in Ranks
      PROVE  /\ pc = "scoring" /\ config.recipe = "rarity" /\ Weighing(r) /\ SeenAll(r)
             /\ updates[r] \in History /\ level[r] \in Levels /\ score[r] \in Levels
  BY <1>1, <1>2, Heads DEF AllPlaced, Weighing, TypeOk
<1>4. 1 \in Ranks
  BY BoundsFacts DEF Ranks
<1>5. pc = "scoring" /\ config.recipe = "rarity"
  BY <1>3, <1>4
<1>6. \A r \in Ranks : Reduced(r) = Now
  BY <1>2, <1>3, ReducedIsNow
<1>n. Now \in Measurement /\ Now' = Now
  BY <1>1, <1>2, NowType DEF Now, Process
<1>7. ASSUME NEW r \in Ranks
      PROVE  prog'[r] = <<>> /\ level'[r] = Append(level[r], Now) /\ level'[r] \in Levels
  <2>1. Tail(<<"weigh">>) = <<>>
    OBVIOUS
  <2>2. prog[r] = <<"weigh">>
    BY <1>3 DEF Weighing
  <2>3. level'[r] = Append(level[r], Now) /\ prog'[r] = Tail(prog[r])
    BY <1>1, <1>6
  <2> QED BY <1>3, <1>n, <2>1, <2>2, <2>3, LevelsGrow
<1>8. ASSUME NEW r \in Ranks
      PROVE  given'[r] = weights(r) /\ weights(r) \in Seq(Weight)
  <2>1. OwnRows(r) = observed[r]
    <3>1. \A s \in Ranks : observed[s] \in Seq(Observation)
      BY <1>2 DEF TypeOk
    <3> QED BY <3>1, OwnRowsAreOwn
  <2>2. DOMAIN observed[r] = 1..RowsPerRank
    BY <1>2, <1>3, <1>5 DEF SeenAll, RowsOf, TypeOk
  <2>3. \A i \in 1..RowsPerRank : observed[r][i].part = <<r, i>> /\ observed[r][i].level = level[r]
    <3>1. \A i \in 1..RowsPerRank : observed[r][i] = [part |-> <<r, i>>, level |-> level[r]]
      BY <1>3, <2>2 DEF SeenAll, Seen
    <3>2. ASSUME NEW i \in 1..RowsPerRank
          PROVE  observed[r][i].part = <<r, i>> /\ observed[r][i].level = level[r]
      <4> DEFINE o == [part |-> <<r, i>>, level |-> level[r]]
      <4>1. o.part = <<r, i>> /\ o.level = level[r]
        OBVIOUS
      <4>2. observed[r][i] = o
        BY <3>1
      <4> HIDE DEF o
      <4> QED BY <4>1, <4>2
    <3> QED BY <3>2
  <2>4. given'[r] = [i \in DOMAIN OwnRows(r) |->
           [part  |-> OwnRows(r)[i].part, level |-> OwnRows(r)[i].level, score |-> score[r]]]
    BY <1>1
  <2>5. given'[r] = weights(r)
    BY <2>1, <2>2, <2>3, <2>4
  <2>6. weights(r) \in Seq(Weight)
    <3>1. RowsPerRank \in Nat
      BY BoundsFacts
    <3>2. \A i \in 1..RowsPerRank : [part |-> <<r, i>>, level |-> level[r], score |-> score[r]] \in Weight
      BY <1>3 DEF Weight
    <3> QED BY <3>1, <3>2
  <2> QED BY <2>5, <2>6
<1>9. ASSUME NEW r \in Ranks
      PROVE  /\ Len(weights(r)) = RowsPerRank /\ DOMAIN weights(r) = 1..RowsPerRank
             /\ \A i \in DOMAIN weights(r) : weights(r)[i].part = <<r, i>>
             /\ Basis(weights(r)) = {[level |-> level[r], score |-> score[r]]}
  <2>1. RowsPerRank \in Nat /\ 1 \in 1..RowsPerRank
    BY BoundsFacts
  <2>2. Len(weights(r)) = RowsPerRank /\ DOMAIN weights(r) = 1..RowsPerRank
    BY <2>1
  <2>3. \A i \in 1..RowsPerRank : /\ weights(r)[i].part = <<r, i>> /\ weights(r)[i].level = level[r]
                                  /\ weights(r)[i].score = score[r]
    OBVIOUS
  <2> HIDE DEF weights
  <2>4. Basis(weights(r)) = {[level |-> level[r], score |-> score[r]]}
    <3>1. Range(weights(r)) = {weights(r)[i] : i \in 1..RowsPerRank}
      BY <2>2 DEF Range
    <3> QED BY <2>1, <2>3, <3>1 DEF Basis
  <2> QED BY <2>2, <2>3, <2>4
<1> HIDE DEF weights
<1>10. TypeOk'
  <2>1. <<>> \in Seq(Ops)
    OBVIOUS
  <2>2. DOMAIN given' = Ranks /\ given' = [r \in Ranks |-> given'[r]]
    BY <1>1
  <2>3. \A r \in Ranks : given'[r] \in Seq(Weight)
    BY <1>8
  <2>4. given' \in [Ranks -> Seq(Weight)]
    BY <2>2, <2>3
  <2>5. prog' \in [Ranks -> Seq(Ops)] /\ level' \in [Ranks -> Levels]
    BY <1>1, <1>7, <2>1
  <2> QED BY <1>1, <1>2, <2>4, <2>5 DEF TypeOk
<1>11. Bounded'
  BY <1>1, <1>2 DEF Bounded
<1>12. ASSUME NEW r \in Ranks
       PROVE  Placed(r)'
  <2> DEFINE h == updates[r]
  <2>1. /\ h # <<>> /\ h \in History /\ level[r] = DueLevel(config, h)
        /\ score[r] = Append(DueScore(config, h), Now)
    BY <1>3 DEF Weighing
  <2>2. ASSUME NEW applied \in BOOLEAN
        PROVE  /\ Behind(config, Append(h, Entered(applied, weights(r))), level'[r], score[r])
               /\ EntryOk(config, r, h, Entered(applied, weights(r)))
    <3> DEFINE u == Entered(applied, weights(r))
    <3>1. u \in Entry /\ Mark(config, u.process, u.step) = Now
      BY <1>2, <1>8, EnteredType
    <3>2. u.given = weights(r)
      BY DEF Entered
    <3> HIDE DEF u, h
    <3>3. DueLevel(config, Append(h, u)) = level'[r]
      BY <1>2, <1>5, <1>7, <2>1, <3>1, DueLevelGrows DEF LevelGrows
    <3>4. DueScore(config, Append(h, u)) = score[r]
      BY <1>2, <1>5, <2>1, <3>1, DueScoreGrows DEF ScoreGrows
    <3>5. EntryOk(config, r, h, u)
      <4>1. DueBasis(config, h, u) = [level |-> level[r], score |-> score[r]]
        BY <1>5, <2>1, <3>4 DEF DueBasis
      <4> QED BY <1>9, <3>2, <4>1, EntryByBasis
    <3> QED BY <3>3, <3>4, <3>5 DEF Behind, u
  <2>3. Scored(r)'
    BY <1>1, <1>8, <2>2 DEF Scored, Entered, Process
  <2> QED BY <1>1, <1>5, <1>7, <2>3 DEF Placed, Scoring, Ready
<1>13. AllAlike'
  <2>1. \A r, s \in Ranks : Alike(r, s)
    BY DEF TrainingInv, AllAlike
  <2>2. ASSUME NEW r \in Ranks, NEW s \in Ranks
        PROVE  Alike(r, s)'
    <3>1. /\ level[r] = level[s] /\ score[r] = score[s]
          /\ WithoutParts(updates[r]) = WithoutParts(updates[s])
      BY <1>5, <2>1 DEF Alike
    <3>2. level'[r] = level'[s]
      BY <1>7, <3>1
    <3>3. Basis(given'[r]) = Basis(given'[s])
      BY <1>8, <1>9, <3>1
    <3> QED BY <1>1, <3>1, <3>2, <3>3 DEF Alike
  <2> QED BY <2>2 DEF AllAlike
<1>14. AllSound' /\ Tracked'
  BY <1>1 DEF TrainingInv, AllSound, Tracked
<1> QED BY <1>10, <1>11, <1>12, <1>13, <1>14 DEF TrainingInv, AllPlaced

\* Ranks that agreed before an update with one basis agree behind it.
LEMMA StillAgree ==
  ASSUME NEW h \in History, NEW k \in History, WithoutParts(h) = WithoutParts(k),
         NEW u \in Entry, NEW v \in Entry, u.process = v.process, u.step = v.step,
         u.applied = v.applied, Basis(u.given) = Basis(v.given)
  PROVE  WithoutParts(Append(h, u)) = WithoutParts(Append(k, v))
<1>1. Bare(u) = Bare(v)
  BY DEF Bare
<1> QED BY <1>1, WithoutPartsGrows

\* The gradient norm, and with it the update, of the recipes that always update; and of the
\* relative update, which leaves an update out or goes on to its step.
LEMMA NormOnce ==
  ASSUME TrainingInv, NEW finite \in BOOLEAN, config.recipe # "relative_update" \/ ~finite,
         \A r \in Ranks : Local(r, "norm"),
         prog' = [r \in Ranks |-> AfterNorm(r, finite)],
         updates' = [r \in Ranks |-> Append(updates[r], Entered(finite, given[r]))],
         UNCHANGED <<config, pc, step, observed, level, score, given, dirs, tracker, crashes>>
  PROVE  TrainingInv'
<1>1. TypeOk /\ Bounded /\ AllPlaced /\ config \in ConfigSpace
  BY DEF TrainingInv, TypeOk
<1>2. ASSUME NEW r \in Ranks
      PROVE  /\ pc = "updating"
             /\ \/ config.recipe = "rarity" /\ prog[r] = <<"norm">> /\ Scored(r)
                \/ config.recipe = "relative_update" /\ Quiet(r)
                \/ config.recipe = "consistency" /\ Quiet(r) /\ Masked(r)
                   /\ Through(r, <<"norm", "finish">>)
             /\ updates[r] \in History /\ given[r] \in Seq(Weight)
  BY <1>1, Heads DEF AllPlaced, TypeOk
<1>3. pc = "updating"
  <2>1. 1 \in Ranks
    BY BoundsFacts DEF Ranks
  <2> QED BY <1>2, <2>1
<1> DEFINE u(r) == Entered(finite, given[r])
<1>4. ASSUME NEW r \in Ranks
      PROVE  /\ u(r) \in Entry /\ Mark(config, u(r).process, u(r).step) = Now
             /\ u(r).process = Process /\ u(r).step = step /\ u(r).applied = finite
             /\ u(r).given = given[r]
  <2>1. u(r) \in Entry /\ Mark(config, u(r).process, u(r).step) = Now
    BY <1>1, <1>2, EnteredType
  <2>2. /\ u(r).process = Process /\ u(r).step = step /\ u(r).applied = finite
        /\ u(r).given = given[r]
    BY DEF Entered
  <2> HIDE DEF u
  <2> QED BY <2>1, <2>2
<1>5. \A r \in Ranks : updates'[r] = Append(updates[r], u(r))
  OBVIOUS
<1> HIDE DEF u
<1>n. Now \in Measurement /\ Now' = Now
  BY <1>1, NowType DEF Now, Process
<1>6. ASSUME NEW r \in Ranks
      PROVE  prog'[r] = IF config.recipe = "consistency" THEN <<"finish">> ELSE <<>>
  <2>1. Tail(<<"norm">>) = <<>> /\ Tail(<<"norm", "finish">>) = <<"finish">>
    OBVIOUS
  <2>2. prog'[r] = AfterNorm(r, finite)
    OBVIOUS
  <2> QED BY <1>2, <2>1, <2>2 DEF AfterNorm, Through
<1>7. TypeOk'
  <2>1. <<>> \in Seq(Ops) /\ <<"finish">> \in Seq(Ops)
    BY DEF Ops
  <2>2. prog' = [r \in Ranks |-> prog'[r]] /\ updates' = [r \in Ranks |-> updates'[r]]
    OBVIOUS
  <2>3. \A r \in Ranks : prog'[r] \in Seq(Ops) /\ updates'[r] \in History
    BY <1>2, <1>4, <1>5, <1>6, <2>1, HistoryGrowsType
  <2>4. prog' \in [Ranks -> Seq(Ops)] /\ updates' \in [Ranks -> History]
    BY <2>2, <2>3
  <2> QED BY <1>1, <2>4 DEF TypeOk
<1>8. Bounded'
  BY <1>1 DEF Bounded
<1>9. ASSUME NEW r \in Ranks
      PROVE  Updating(r)' /\ EntryOk(config, r, updates[r], u(r))
  <2> DEFINE h == updates[r]
  <2>0. h \in History /\ u(r) \in Entry /\ updates'[r] = Append(h, u(r))
    BY <1>2, <1>4, <1>5
  <2>1. CASE config.recipe = "rarity"
    <3>1. /\ Behind(config, Append(h, u(r)), level[r], score[r])
          /\ EntryOk(config, r, h, u(r))
      BY <1>2, <2>1 DEF Scored, u
    <3> QED BY <1>5, <1>6, <2>1, <3>1 DEF Updating, Quiet
  <2>2. CASE config.recipe = "relative_update"
    <3>1. Quiet(r) /\ ~finite
      BY <1>2, <2>2
    <3> HIDE DEF h
    <3>2. DueLevel(config, Append(h, u(r))) = DueLevel(config, h)
      BY <1>1, <1>4, <2>0, <2>2, <3>1, DueLevelGrows DEF LevelGrows
    <3>3. DueScore(config, Append(h, u(r))) = DueScore(config, h)
      BY <1>1, <2>0, <2>2, DueScoreGrows DEF ScoreGrows, DueScore
    <3>4. Behind(config, updates'[r], level[r], score[r])
      BY <2>0, <3>1, <3>2, <3>3 DEF Quiet, Behind, h
    <3>5. EntryOk(config, r, h, u(r))
      BY <1>4, <2>2, <3>1 DEF EntryOk
    <3> QED BY <1>6, <2>2, <3>4, <3>5 DEF Updating, Quiet, h
  <2>3. CASE config.recipe = "consistency"
    <3>1. Quiet(r) /\ Masked(r) /\ SeenAll(r)
      BY <1>2, <2>3 DEF Through
    <3>2. level[r] = DueLevel(config, h) /\ score[r] = DueScore(config, h)
      BY <3>1 DEF Quiet, Behind
    <3> HIDE DEF h
    <3>3. DueLevel(config, Append(h, u(r))) = LevelDue(r)
      <4>1. ~config.relative => DueLevel(config, h) = <<>>
        BY <2>3 DEF DueLevel
      <4> QED BY <1>1, <1>4, <2>0, <2>3, <3>2, <4>1, DueLevelGrows DEF LevelGrows, LevelDue
    <3>4. DueScore(config, Append(h, u(r))) = ScoreDue(r)
      <4>1. config.relative => (level[r] = <<>> <=> h = <<>>)
        BY <1>1, <2>0, <2>3, <3>2, NothingYet
      <4>2. h = <<>> => score[r] = <<>>
        BY <1>1, <3>2, DueOfNothing
      <4>3. config.relative \in BOOLEAN
        BY <1>1 DEF ConfigSpace
      <4>4. ScoreGrows(config, h, u(r))
        BY <1>1, <2>0, DueScoreGrows
      <4>5. CASE config.relative
        BY <1>4, <2>3, <3>2, <4>1, <4>2, <4>4, <4>5 DEF ScoreGrows, ScoreDue
      <4>6. CASE ~config.relative
        BY <1>4, <2>3, <3>2, <4>4, <4>6 DEF ScoreGrows, ScoreDue
      <4> QED BY <4>3, <4>5, <4>6
    <3>5. Behind(config, updates'[r], LevelDue(r), ScoreDue(r))
      BY <2>0, <3>3, <3>4 DEF Behind
    <3>6. Finishing(r)'
      BY <1>6, <1>n, <2>3, <3>1, <3>5 DEF Finishing, SeenAll, Seen, LevelDue, ScoreDue
    <3>7. EntryOk(config, r, h, u(r))
      <4>1. DueBasis(config, h, u(r)) = [level |-> <<>>, score |-> score[r]]
        BY <2>3, <3>2 DEF DueBasis
      <4>2. Basis(given[r]) = {[level |-> <<>>, score |-> score[r]]}
        BY <3>1, SingleBasis DEF Masked
      <4> QED BY <1>4, <2>3, <4>1, <4>2, EntryByBasis
    <3> QED BY <2>3, <3>6, <3>7 DEF Updating, h
  <2>4. config.recipe \in Recipes
    BY <1>1 DEF ConfigSpace
  <2> QED BY <2>1, <2>2, <2>3, <2>4 DEF Recipes
<1>10. AllPlaced'
  BY <1>3, <1>9 DEF AllPlaced, Placed
<1>11. AllAlike'
  <2>1. \A r, s \in Ranks : Alike(r, s)
    BY DEF TrainingInv, AllAlike
  <2>2. ASSUME NEW r \in Ranks, NEW s \in Ranks
        PROVE  Alike(r, s)'
    <3>1. /\ level[r] = level[s] /\ score[r] = score[s]
          /\ WithoutParts(updates[r]) = WithoutParts(updates[s])
      BY <1>3, <2>1 DEF Alike
    <3>2. Basis(given[r]) = Basis(given[s])
      <4>1. CASE config.recipe = "consistency"
        <5>1. ASSUME NEW t \in Ranks
              PROVE  Basis(given[t]) = {[level |-> <<>>, score |-> score[t]]}
          <6>1. Masked(t)
            BY <1>2, <4>1
          <6> QED BY <6>1, SingleBasis DEF Masked
        <5> QED BY <3>1, <5>1
      <4>2. CASE config.recipe # "consistency"
        BY <2>1, <4>2 DEF Alike
      <4> QED BY <4>1, <4>2
    <3>3. WithoutParts(updates'[r]) = WithoutParts(updates'[s])
      <4> DEFINE h == updates[r]
                 k == updates[s]
                 v == u(r)
                 w == u(s)
      <4>1. h \in History /\ k \in History /\ WithoutParts(h) = WithoutParts(k)
        BY <1>2, <3>1
      <4>2. /\ v \in Entry /\ w \in Entry /\ v.process = w.process /\ v.step = w.step
            /\ v.applied = w.applied /\ Basis(v.given) = Basis(w.given)
        BY <1>4, <3>2
      <4>3. updates'[r] = Append(h, v) /\ updates'[s] = Append(k, w)
        BY <1>5
      <4> HIDE DEF h, k, v, w
      <4> QED BY <4>1, <4>2, <4>3, StillAgree
    <3> QED BY <3>1, <3>2, <3>3 DEF Alike
  <2> QED BY <2>2 DEF AllAlike
<1>12. AllSound'
  <2>1. ASSUME NEW r \in Ranks
        PROVE  HistoryOk(config, r, updates'[r])
    <3>1. HistoryOk(config, r, updates[r])
      BY DEF TrainingInv, AllSound
    <3> QED BY <1>2, <1>4, <1>5, <1>9, <3>1, HistoryGrows
  <2> QED BY <2>1 DEF AllSound
<1>13. Tracked'
  BY DEF TrainingInv, Tracked
<1> QED BY <1>7, <1>8, <1>10, <1>11, <1>12, <1>13 DEF TrainingInv

LEMMA NormGoesOn ==
  ASSUME TrainingInv, config.recipe = "relative_update",
         \A r \in Ranks : Local(r, "norm"), prog' = [r \in Ranks |-> Tail(prog[r])],
         UNCHANGED <<config, pc, step, observed, level, score, given, updates, dirs, tracker, crashes>>
  PROVE  TrainingInv'
<1>1. TypeOk /\ Bounded /\ AllPlaced /\ config \in ConfigSpace
  BY DEF TrainingInv, TypeOk
<1>2. ASSUME NEW r \in Ranks
      PROVE  /\ pc = "updating" /\ Quiet(r) /\ observed[r] = <<>>
             /\ prog'[r] = Todo(RowsOf(config), <<"step">>)
  <2>1. /\ pc = "updating" /\ Quiet(r) /\ observed[r] = <<>>
        /\ prog[r] = <<"norm", "observe", "step">>
    BY <1>1, Heads DEF AllPlaced
  <2>2. Tail(prog[r]) = Todo(RowsOf(config), <<"step">>)
    BY <1>1, <2>1, UpdateShape
  <2> QED BY <2>1, <2>2
<1>3. pc = "updating"
  <2>1. 1 \in Ranks
    BY BoundsFacts DEF Ranks
  <2> QED BY <1>2, <2>1
<1>4. RowsOf(config) \in Nat /\ RowsOf(config) - 0 = RowsOf(config)
  BY <1>1, RowsOfType
<1>5. TypeOk'
  <2>1. \A r \in Ranks : prog'[r] \in Seq(Ops)
    BY <1>2, <1>4, TodoShape, RestsAreOps
  <2>2. prog' = [r \in Ranks |-> prog'[r]]
    OBVIOUS
  <2>3. prog' \in [Ranks -> Seq(Ops)]
    BY <2>1, <2>2
  <2> QED BY <1>1, <2>3 DEF TypeOk
<1>6. Bounded'
  BY <1>1 DEF Bounded
<1>7. ASSUME NEW r \in Ranks
      PROVE  Placed(r)'
  <2>1. Len(observed'[r]) = 0 /\ observed'[r] = <<>>
    BY <1>2
  <2>m. Seen(r)'
    BY <1>4, <2>1 DEF Seen
  <2>2. Measuring(r, <<"step">>)'
    BY <1>2, <1>4, <2>1, <2>m DEF Measuring
  <2>3. Quiet(r)'
    BY <1>2 DEF Quiet
  <2>4. Updating(r)'
    BY <2>2, <2>3 DEF Updating
  <2> QED BY <1>3, <2>4 DEF Placed
<1> QED BY <1>3, <1>5, <1>6, <1>7, Unmoved DEF TrainingInv, AllPlaced

LEMMA NormKeeps ==
  ASSUME TrainingInv, Norm
  PROVE  TrainingInv'
<1>1. PICK finite \in BOOLEAN :
        /\ prog' = [r \in Ranks |-> AfterNorm(r, finite)]
        /\ updates' = [r \in Ranks |-> IF finite /\ config.recipe = "relative_update"
                                       THEN updates[r] ELSE Updated(r, finite, given[r])]
  BY DEF Norm
<1>2. /\ \A r \in Ranks : Local(r, "norm")
      /\ UNCHANGED <<config, pc, step, observed, level, score, given, dirs, tracker, crashes>>
  BY DEF Norm, Collective, OnlyRanks
<1>3. CASE finite /\ config.recipe = "relative_update"
  <2>1. prog' = [r \in Ranks |-> Tail(prog[r])]
    BY <1>1, <1>3 DEF AfterNorm
  <2>2. updates' = updates
    BY <1>1, <1>3 DEF TrainingInv, TypeOk
  <2> QED BY <1>2, <1>3, <2>1, <2>2, NormGoesOn
<1>4. CASE ~(finite /\ config.recipe = "relative_update")
  <2>1. updates' = [r \in Ranks |-> Append(updates[r], Entered(finite, given[r]))]
    BY <1>1, <1>4 DEF Updated, Entered
  <2>2. config.recipe # "relative_update" \/ ~finite
    BY <1>4
  <2> QED BY <1>1, <1>2, <2>1, <2>2, NormOnce
<1> QED BY <1>3, <1>4

LEMMA ScaledStepKeeps ==
  ASSUME TrainingInv, ScaledStep
  PROVE  TrainingInv'
<1>1. /\ given' = [r \in Ranks |-> Multipliers(r)]
      /\ updates' = [r \in Ranks |-> Append(updates[r], Entered(TRUE, given'[r]))]
      /\ level' = [r \in Ranks |-> Append(level[r], Reduced(r))]
      /\ prog' = [r \in Ranks |-> Tail(prog[r])] /\ \A r \in Ranks : Local(r, "step")
      /\ UNCHANGED <<config, pc, step, observed, score, dirs, tracker, crashes>>
  BY DEF ScaledStep, Collective, AllDone, OnlyRanks, Updated, Entered
<1>2. TypeOk /\ Bounded /\ AllPlaced /\ config \in ConfigSpace
  BY DEF TrainingInv, TypeOk
<1>3. ASSUME NEW r \in Ranks
      PROVE  /\ pc = "updating" /\ config.recipe = "relative_update" /\ Quiet(r) /\ SeenAll(r)
             /\ prog[r] = <<"step">>
             /\ updates[r] \in History /\ level[r] \in Levels
  BY <1>1, <1>2, Heads DEF AllPlaced, Through, TypeOk
<1>4. pc = "updating" /\ config.recipe = "relative_update"
  <2>1. 1 \in Ranks
    BY BoundsFacts DEF Ranks
  <2> QED BY <1>3, <2>1
<1>5. \A r \in Ranks : Reduced(r) = Now
  BY <1>2, <1>3, ReducedIsNow
<1>n. Now \in Measurement
  BY <1>2, NowType
<1>6. ASSUME NEW r \in Ranks
      PROVE  prog'[r] = <<>> /\ level'[r] = Append(level[r], Now) /\ level'[r] \in Levels
  <2>1. Tail(<<"step">>) = <<>>
    OBVIOUS
  <2>2. level'[r] = Append(level[r], Now) /\ prog'[r] = Tail(prog[r])
    BY <1>1, <1>5
  <2> QED BY <1>3, <1>n, <2>1, <2>2, LevelsGrow
<1> DEFINE past(r) == IF Len(level[r]) < config.warmup THEN <<>> ELSE level[r]
<1>7. ASSUME NEW r \in Ranks
      PROVE  /\ given'[r] \in Seq(Weight)
             /\ Basis(given'[r]) = {[level |-> past(r), score |-> <<>>]}
  <2>1. given'[r] = <<[part |-> <<r, 1>>, level |-> past(r), score |-> <<>>]>>
    BY <1>1 DEF Multipliers, Neutral
  <2>2. past(r) \in Levels /\ <<>> \in Levels
    BY <1>3 DEF Levels
  <2> HIDE DEF past
  <2>3. [part |-> <<r, 1>>, level |-> past(r), score |-> <<>>] \in Weight
    BY <2>2, BoundsFacts DEF Weight, Ranks
  <2> QED BY <2>1, <2>3, SingleBasis
<1> DEFINE u(r) == Entered(TRUE, given'[r])
<1>8. ASSUME NEW r \in Ranks
      PROVE  /\ u(r) \in Entry /\ Mark(config, u(r).process, u(r).step) = Now
             /\ u(r).process = Process /\ u(r).step = step /\ u(r).applied = TRUE
             /\ u(r).given = given'[r]
  <2>1. u(r) \in Entry /\ Mark(config, u(r).process, u(r).step) = Now
    BY <1>2, <1>7, EnteredType
  <2>2. /\ u(r).process = Process /\ u(r).step = step /\ u(r).applied = TRUE
        /\ u(r).given = given'[r]
    BY DEF Entered
  <2> HIDE DEF u
  <2> QED BY <2>1, <2>2
<1>9. \A r \in Ranks : updates'[r] = Append(updates[r], u(r))
  BY <1>1
<1> HIDE DEF u, past
<1>10. TypeOk'
  <2>1. <<>> \in Seq(Ops)
    OBVIOUS
  <2>2. \A r \in Ranks : updates'[r] \in History
    BY <1>3, <1>8, <1>9, HistoryGrowsType
  <2>3. /\ updates' = [r \in Ranks |-> updates'[r]] /\ given' = [r \in Ranks |-> given'[r]]
        /\ level' = [r \in Ranks |-> level'[r]] /\ prog' = [r \in Ranks |-> prog'[r]]
    BY <1>1
  <2>4. updates' \in [Ranks -> History] /\ given' \in [Ranks -> Seq(Weight)]
    BY <1>7, <2>2, <2>3
  <2>5. level' \in [Ranks -> Levels] /\ prog' \in [Ranks -> Seq(Ops)]
    BY <1>6, <2>1, <2>3
  <2> QED BY <1>1, <1>2, <2>4, <2>5 DEF TypeOk
<1>11. Bounded'
  BY <1>1, <1>2 DEF Bounded
<1>12. ASSUME NEW r \in Ranks
       PROVE  Quiet(r)' /\ EntryOk(config, r, updates[r], u(r))
  <2> DEFINE h == updates[r]
  <2>1. /\ h \in History /\ u(r) \in Entry /\ updates'[r] = Append(h, u(r))
        /\ level[r] = DueLevel(config, h) /\ score[r] = DueScore(config, h)
    BY <1>3, <1>8, <1>9 DEF Quiet, Behind
  <2> HIDE DEF h
  <2>2. DueLevel(config, Append(h, u(r))) = level'[r]
    <3>1. LevelGrows(config, h, u(r))
      BY <1>2, <2>1, DueLevelGrows
    <3>2. u(r).applied /\ Mark(config, u(r).process, u(r).step) = Now
      BY <1>8
    <3>3. DueLevel(config, Append(h, u(r))) = Append(DueLevel(config, h), Now)
      BY <1>4, <3>1, <3>2 DEF LevelGrows
    <3> QED BY <1>6, <2>1, <3>3
  <2>3. DueScore(config, Append(h, u(r))) = score[r]
    BY <1>2, <1>4, <2>1, DueScoreGrows DEF ScoreGrows, DueScore
  <2>4. Quiet(r)'
    BY <1>1, <2>1, <2>2, <2>3 DEF Quiet, Behind
  <2>5. EntryOk(config, r, h, u(r))
    <3>1. Len(level[r]) = Len(Applied(h))
      BY <1>2, <1>4, <2>1, AppliedCount
    <3>2. DueBasis(config, h, u(r)) = [level |-> past(r), score |-> <<>>]
      BY <1>4, <2>1, <3>1 DEF DueBasis, past
    <3> QED BY <1>4, <1>7, <1>8, <3>2, EntryByBasis
  <2> QED BY <2>4, <2>5 DEF h
<1>13. AllPlaced'
  <2>1. ASSUME NEW r \in Ranks
        PROVE  Updating(r)'
    BY <1>6, <1>12 DEF Updating
  <2> QED BY <1>1, <1>4, <2>1 DEF AllPlaced, Placed
<1>14. AllAlike'
  <2>1. \A r, s \in Ranks : Alike(r, s)
    BY DEF TrainingInv, AllAlike
  <2>2. ASSUME NEW r \in Ranks, NEW s \in Ranks
        PROVE  Alike(r, s)'
    <3>1. /\ level[r] = level[s] /\ score[r] = score[s]
          /\ WithoutParts(updates[r]) = WithoutParts(updates[s])
      BY <1>4, <2>1 DEF Alike
    <3>2. level'[r] = level'[s]
      BY <1>6, <3>1
    <3>3. Basis(given'[r]) = Basis(given'[s])
      BY <1>7, <3>1 DEF past
    <3>4. WithoutParts(updates'[r]) = WithoutParts(updates'[s])
      <4> DEFINE h == updates[r]
                 k == updates[s]
                 v == u(r)
                 w == u(s)
      <4>1. h \in History /\ k \in History /\ WithoutParts(h) = WithoutParts(k)
        BY <1>3, <3>1
      <4>2. /\ v \in Entry /\ w \in Entry /\ v.process = w.process /\ v.step = w.step
            /\ v.applied = w.applied /\ Basis(v.given) = Basis(w.given)
        BY <1>8, <3>3
      <4>3. updates'[r] = Append(h, v) /\ updates'[s] = Append(k, w)
        BY <1>9
      <4> HIDE DEF h, k, v, w
      <4> QED BY <4>1, <4>2, <4>3, StillAgree
    <3> QED BY <1>1, <3>1, <3>2, <3>3, <3>4 DEF Alike
  <2> QED BY <2>2 DEF AllAlike
<1>15. AllSound'
  <2>1. ASSUME NEW r \in Ranks
        PROVE  HistoryOk(config, r, updates'[r])
    <3>1. HistoryOk(config, r, updates[r])
      BY DEF TrainingInv, AllSound
    <3> QED BY <1>3, <1>8, <1>9, <1>12, <3>1, HistoryGrows
  <2> QED BY <1>1, <2>1 DEF AllSound
<1>16. Tracked'
  BY <1>1 DEF TrainingInv, Tracked
<1> QED BY <1>10, <1>11, <1>13, <1>14, <1>15, <1>16 DEF TrainingInv

LEMMA FinishScoreKeeps ==
  ASSUME TrainingInv, FinishScore
  PROVE  TrainingInv'
<1>1. /\ score' = [r \in Ranks |-> IF config.relative /\ level[r] = <<>>
                                   THEN score[r] ELSE Append(score[r], Reduced(r))]
      /\ level' = [r \in Ranks |-> IF config.relative THEN Append(level[r], Reduced(r)) ELSE level[r]]
      /\ prog' = [r \in Ranks |-> Tail(prog[r])] /\ \A r \in Ranks : Local(r, "finish")
      /\ UNCHANGED <<config, pc, step, observed, given, updates, dirs, tracker, crashes>>
  BY DEF FinishScore, Collective, AllDone, OnlyRanks
<1>2. TypeOk /\ Bounded /\ AllPlaced
  BY DEF TrainingInv
<1>3. ASSUME NEW r \in Ranks
      PROVE  /\ pc = "updating" /\ Finishing(r) /\ SeenAll(r)
             /\ level[r] \in Levels /\ score[r] \in Levels
  BY <1>1, <1>2, Heads DEF AllPlaced, Finishing, TypeOk
<1>4. pc = "updating"
  <2>1. 1 \in Ranks
    BY BoundsFacts DEF Ranks
  <2> QED BY <1>3, <2>1
<1>5. \A r \in Ranks : Reduced(r) = Now
  BY <1>2, <1>3, ReducedIsNow
<1>n. Now \in Measurement
  BY <1>2, NowType
<1>6. ASSUME NEW r \in Ranks
      PROVE  /\ prog'[r] = <<>> /\ level'[r] = LevelDue(r) /\ score'[r] = ScoreDue(r)
             /\ level'[r] \in Levels /\ score'[r] \in Levels
  <2>1. Tail(<<"finish">>) = <<>>
    OBVIOUS
  <2>2. prog'[r] = Tail(prog[r]) /\ prog[r] = <<"finish">>
    BY <1>1, <1>3 DEF Finishing
  <2>3. level'[r] = LevelDue(r) /\ score'[r] = ScoreDue(r)
    BY <1>1, <1>5 DEF LevelDue, ScoreDue
  <2>4. LevelDue(r) \in Levels /\ ScoreDue(r) \in Levels
    BY <1>3, <1>n, LevelsGrow DEF LevelDue, ScoreDue
  <2> QED BY <2>1, <2>2, <2>3, <2>4
<1>7. TypeOk'
  <2>1. <<>> \in Seq(Ops)
    OBVIOUS
  <2>2. /\ level' = [r \in Ranks |-> level'[r]] /\ score' = [r \in Ranks |-> score'[r]]
        /\ prog' = [r \in Ranks |-> prog'[r]]
    BY <1>1
  <2>3. level' \in [Ranks -> Levels] /\ score' \in [Ranks -> Levels] /\ prog' \in [Ranks -> Seq(Ops)]
    BY <1>6, <2>1, <2>2
  <2> QED BY <1>1, <1>2, <2>3 DEF TypeOk
<1>8. Bounded'
  BY <1>1, <1>2 DEF Bounded
<1>9. AllPlaced'
  <2>1. ASSUME NEW r \in Ranks
        PROVE  Updating(r)'
    <3>1. Behind(config, updates[r], LevelDue(r), ScoreDue(r))
      BY <1>3 DEF Finishing
    <3>2. Quiet(r)'
      BY <1>1, <1>6, <3>1 DEF Quiet
    <3> QED BY <1>6, <3>2 DEF Updating
  <2> QED BY <1>1, <1>4, <2>1 DEF AllPlaced, Placed
<1>10. AllAlike'
  <2>1. \A r, s \in Ranks : Alike(r, s)
    BY DEF TrainingInv, AllAlike
  <2>2. ASSUME NEW r \in Ranks, NEW s \in Ranks
        PROVE  Alike(r, s)'
    <3>1. level[r] = level[s] /\ score[r] = score[s]
      BY <1>4, <2>1 DEF Alike
    <3>2. level'[r] = level'[s] /\ score'[r] = score'[s]
      BY <1>6, <3>1 DEF LevelDue, ScoreDue
    <3> QED BY <1>1, <1>4, <2>1, <3>2 DEF Alike
  <2> QED BY <2>2 DEF AllAlike
<1>11. AllSound' /\ Tracked'
  BY <1>1 DEF TrainingInv, AllSound, Tracked
<1> QED BY <1>7, <1>8, <1>9, <1>10, <1>11 DEF TrainingInv

-----------------------------------------------------------------------------
(* Theorems.                                                                  *)

\* Every step keeps the invariant.
LEMMA NextKeeps ==
  ASSUME TrainingInv, [Next]_vars
  PROVE  TrainingInv'
<1>1. CASE UNCHANGED vars
  BY <1>1, StutterKeeps
<1>2. CASE Restart
  BY <1>2, RestartKeeps
<1>3. CASE Stop
  BY <1>3, StutterKeeps DEF Stop
<1>4. CASE DriverStep
  BY <1>4, LoadCheckpointKeeps, StartFitKeeps, ComputeLogProbKeeps, EndLogProbKeeps, UpdateActorKeeps,
     EndUpdateKeeps, SaveCheckpointKeeps, EndSaveKeeps, SkipSaveKeeps, WriteTrackerKeeps, EndStepKeeps
     DEF DriverStep
<1>5. CASE RankStep
  <2>1. ASSUME NEW r \in Ranks, Observe(r) \/ Resample(r) \/ WriteShard(r) \/ WriteState(r) \/ Load(r)
        PROVE  TrainingInv'
    BY <2>1, ObserveKeeps, ResampleKeeps, WriteShardKeeps, WriteStateKeeps, LoadKeeps
  <2>2. ASSUME ReduceActivation \/ Expose \/ Weigh \/ Norm \/ ScaledStep \/ FinishScore \/ Barrier
        PROVE  TrainingInv'
    BY <2>2, ReduceActivationKeeps, ExposeKeeps, WeighKeeps, NormKeeps, ScaledStepKeeps,
       FinishScoreKeeps, BarrierKeeps
  <2> QED BY <1>5, <2>1, <2>2 DEF RankStep
<1> QED BY <1>1, <1>2, <1>3, <1>4, <1>5 DEF Next

THEOREM TrainingIsSound == Spec => []TrainingInv
<1>1. Init => TrainingInv
  BY InitTraining
<1>2. TrainingInv /\ [Next]_vars => TrainingInv'
  BY NextKeeps
<1> QED BY <1>1, <1>2, PTL DEF Spec

\* Statistic and weights tell one history, in memory between two calls and in the directory
\* the tracker names.
THEOREM StateOfUpdatesHolds == Spec => []StateOfUpdates
<1>1. ASSUME TrainingInv
      PROVE  StateOfUpdates
  <2>1. AtRest => \A r \in Ranks : Quiet(r)
    BY <1>1 DEF AtRest, TrainingInv, AllPlaced, Placed, Saving
  <2>2. tracker # 0 => SavedWell(config, dirs[tracker])
    BY <1>1 DEF TrainingInv, Tracked
  <2> QED BY <2>1, <2>2 DEF StateOfUpdates, Quiet, SavedWell
<1> QED BY <1>1, TrainingIsSound, PTL

\* The ranks have made the same updates from the same statistics.
THEOREM ReplicasAgreeHolds == Spec => []ReplicasAgree
<1>1. ASSUME TrainingInv
      PROVE  ReplicasAgree
  <2>1. AtRest => \A r, s \in Ranks : WithoutParts(updates[r]) = WithoutParts(updates[s])
    BY <1>1 DEF AtRest, TrainingInv, AllAlike, Alike
  <2>2. tracker # 0 => SavedWell(config, dirs[tracker])
    BY <1>1 DEF TrainingInv, Tracked
  <2> QED BY <2>1, <2>2 DEF ReplicasAgree, SavedWell
<1> QED BY <1>1, TrainingIsSound, PTL

\* Every applied update trained with what was measured before it, across restarts.
THEOREM GivenByThePastHolds == Spec => []GivenByThePast
<1>1. ASSUME TrainingInv
      PROVE  GivenByThePast
  BY <1>1 DEF TrainingInv, AllSound, HistoryOk, EntryOk, GivenByThePast
<1> QED BY <1>1, TrainingIsSound, PTL

\* Rarity trains every row with the weight of its own prompt.
THEOREM WeightOfOwnRowHolds == Spec => []WeightOfOwnRow
<1>1. ASSUME TrainingInv
      PROVE  WeightOfOwnRow
  <2>1. SUFFICES ASSUME config.recipe = "rarity", NEW r \in Ranks, NEW u \in Range(updates[r]),
                        u.given # Neutral(r)
                 PROVE  /\ Len(u.given) = RowsPerRank
                        /\ \A i \in DOMAIN u.given : u.given[i].part = <<r, i>>
    BY DEF WeightOfOwnRow
  <2>2. PICK i \in DOMAIN updates[r] : u = updates[r][i]
    BY DEF Range
  <2>3. EntryOk(config, r, SubSeq(updates[r], 1, i - 1), u)
    BY <1>1, <2>2 DEF TrainingInv, AllSound, HistoryOk
  <2> QED BY <2>1, <2>3 DEF EntryOk
<1> QED BY <1>1, TrainingIsSound, PTL

=============================================================================

---------------------------- MODULE SeqlenBalance ----------------------------
(* verl/utils/seqlen_balancing.py: the largest-differencing partition that    *)
(* spreads rows over ranks and over micro-batches, and the arrangement of     *)
(* micro-batches built on it.  Rows are positions 1..n of a sequence of       *)
(* lengths or workloads; ties are broken by position, as in the code.         *)
EXTENDS Integers, SequencesExt

\* Work of a row, proportional to the FLOPs of a dense transformer block.
Workload(len) == 24576 * len + len * len

CeilDiv(a, b) == (a + b - 1) \div b

Total(seq) == FoldSeq(+, 0, seq)
Select(seq, idx) == [i \in DOMAIN idx |-> seq[idx[i]]]

\* The elements of a finite set in a strict order of theirs.
SortedBy(S, Before(_, _)) ==
  [n \in 1..Cardinality(S) |-> CHOOSE x \in S : Cardinality({y \in S : Before(y, x)}) = n - 1]

Ascending(S) == SortedBy(S, <)

\* Positions by increasing weight, the earlier first among equals.
ByWeight(w, S) ==
  SortedBy(S, LAMBDA i, j: w[i] < w[j] \/ (w[i] = w[j] /\ i < j))

\* Python's s[::2] and s[1::2].
EveryOther(s)  == [i \in 1..CeilDiv(Len(s), 2) |-> s[2 * i - 1]]
TheOthers(s)   == [i \in 1..(Len(s) \div 2) |-> s[2 * i]]

-----------------------------------------------------------------------------
(* Largest differencing.  A part holds the positions assigned to it, in the   *)
(* order they arrived, and their sum; a state is a way to fill k parts with   *)
(* some of the positions, the set of the parts that hold any.                 *)

EmptyPart == [sum |-> 0, items |-> <<>>]

Lighter(a, b) ==
  \/ a.sum < b.sum
  \/ a.sum = b.sum /\ Len(a.items) < Len(b.items)
  \/ a.sum = b.sum /\ Len(a.items) = Len(b.items) /\ a.items[1] < b.items[1]

\* All k parts of a state.
HeaviestFirst(state, k) ==
  LET sorted == SortedBy(state, LAMBDA a, b: Lighter(b, a))
  IN [i \in 1..k |-> IF i <= Cardinality(state) THEN sorted[i] ELSE EmptyPart]

Spread(state, k) == HeaviestFirst(state, k)[1].sum - HeaviestFirst(state, k)[k].sum

\* The heap pops the state with the largest spread, then the largest first part.
PoppedBefore(s, t, k) ==
  \/ Spread(s, k) > Spread(t, k)
  \/ /\ Spread(s, k) = Spread(t, k)
     /\ Lighter(HeaviestFirst(t, k)[1], HeaviestFirst(s, k)[1])

Popped(states, k) == CHOOSE s \in states : \A t \in states \ {s} : PoppedBefore(s, t, k)

Joined(a, b) == [sum |-> a.sum + b.sum, items |-> a.items \o b.items]

\* Heaviest part of one state to the lightest of the other.
\* Mutant: parts are paired in the same order.
MergeStates_Aligned(s, t, k) ==
  {Joined(HeaviestFirst(s, k)[i], HeaviestFirst(t, k)[i]) : i \in 1..k} \ {EmptyPart}

MergeStates(s, t, k) ==
  {Joined(HeaviestFirst(s, k)[i], HeaviestFirst(t, k)[k + 1 - i]) : i \in 1..k} \ {EmptyPart}

PopAndMerge(states, k) ==
  LET first == Popped(states, k)
      second == Popped(states \ {first}, k)
  IN (states \ {first, second}) \cup {MergeStates(first, second, k)}

NewState(w, items) == {[sum |-> w[i], items |-> <<i>>] : i \in items}

\* With equal sizes every group of k neighbours in weight starts as one state.
InitialStates(w, k, equalSize) ==
  LET sorted == ByWeight(w, DOMAIN w)
  IN IF equalSize
     THEN {NewState(w, {sorted[i] : i \in (k * g + 1)..(k * g + k)}) : g \in 0..(Len(w) \div k - 1)}
     ELSE {NewState(w, {i}) : i \in DOMAIN w}

KarmarkarKarp(w, k, equalSize) ==
  LET initial == InitialStates(w, k, equalSize)
      after[n \in 0..(Cardinality(initial) - 1)] ==
        IF n = 0 THEN initial ELSE PopAndMerge(after[n - 1], k)
      final == CHOOSE s \in after[Cardinality(initial) - 1] : TRUE
  IN [p \in 1..k |-> HeaviestFirst(final, k)[p].items]

\* Partition w into k parts, the positions of each in increasing order.
BalancedPartitions(w, k, equalSize) ==
  LET parts == KarmarkarKarp(w, k, equalSize)
  IN [p \in 1..k |-> Ascending(Range(parts[p]))]

\* The largest spread among the groups the equal-size partition starts from.
WidestGroup(w, k) ==
  LET gaps == {Spread(s, k) : s \in InitialStates(w, k, TRUE)}
  IN CHOOSE g \in gaps : \A h \in gaps : g >= h

-----------------------------------------------------------------------------
(* Dynamic micro-batches of one rank.                                         *)

\* What a rank puts into the MAX reduction over ranks.
ProposedCount(lens, maxTokens) ==
  LET needed == CeilDiv(Total(lens), maxTokens)
  IN IF needed < Len(lens) THEN needed ELSE Len(lens)

\* The index lists of n micro-batches, heavy ones in the middle; parts is the one
\* partition, drawn from a set so that TLC computes it once.
MicroBatches(lens, n) ==
  LET w == [i \in DOMAIN lens |-> Workload(lens[i])]
      Arranged(parts) ==
        LET load == [p \in 1..n |-> Total(Select(w, parts[p]))]
            Heavier(p, q) == \/ load[p] > load[q]
                             \/ load[p] = load[q] /\ parts[p][1] > parts[q][1]
            order == SortedBy(1..n, Heavier)
            arranged == Reverse(EveryOther(order)) \o TheOthers(order)
        IN [m \in 1..n |-> parts[arranged[m]]]
  IN CHOOSE lists \in {Arranged(parts) : parts \in {BalancedPartitions(w, n, FALSE)}} : TRUE

\* Inverse of an index list: output[indices[i]] = i.
ReverseIdx(indices) == [j \in Range(indices) |-> CHOOSE i \in DOMAIN indices : indices[i] = j]

\* Put what was computed in micro-batch order back into row order.
\* Mutant: selects by the index list itself.
RestoreDynamicBatch_Forward(data, batches) ==
  LET indices == FlattenSeq(batches) IN [j \in DOMAIN data |-> data[indices[j]]]

RestoreDynamicBatch(data, batches) ==
  LET reverse == ReverseIdx(FlattenSeq(batches)) IN [j \in DOMAIN data |-> data[reverse[j]]]

=============================================================================

------------------------ MODULE RouteSharding_proofs ------------------------
(* Proofs about RouteSharding, for every valid configuration: any number of   *)
(* prompts, samples, ranks and tensor-parallel groups, any lengths of rows,   *)
(* with and without balancing and dynamic micro-batches.                      *)
EXTENDS RouteSharding, SeqlenBalance_proofs

-----------------------------------------------------------------------------
(* Orders of positions.                                                       *)

LEMMA ArgsortLists ==
  ASSUME NEW n \in Nat, NEW keys \in [1..n -> Int], \A i, j \in 1..n : keys[i] = keys[j] => i = j
  PROVE  /\ Lists(Argsort(keys), 1..n) /\ DOMAIN Argsort(keys) = 1..n /\ Len(Argsort(keys)) = n
         /\ \A i \in 1..n : Argsort(keys)[i] \in 1..n
         /\ \A i, j \in 1..n : i < j => keys[Argsort(keys)[i]] < keys[Argsort(keys)[j]]
<1> DEFINE f == ByWeight(keys, 1..n)
<1>1. Argsort(keys) = f
  BY DEF Argsort
<1>2. 1..n \in SUBSET Int /\ IsFiniteSet(1..n) /\ Cardinality(1..n) = n /\ \A i \in 1..n : keys[i] \in Int
  BY FS_Interval
<1>3. /\ Lists(f, 1..n) /\ Len(f) = n /\ DOMAIN f = 1..n
      /\ \A i, j \in DOMAIN f : i < j => WeighsLess(keys, f[i], f[j])
  BY <1>2, ByWeightLists
<1> HIDE DEF f
<1>4. \A i \in 1..n : f[i] \in 1..n
  <2>1. f \in Seq(1..n)
    BY <1>3 DEF Lists
  <2> QED BY <1>3, <2>1
<1>5. ASSUME NEW i \in 1..n, NEW j \in 1..n, i < j
      PROVE  keys[f[i]] < keys[f[j]]
  <2>1. WeighsLess(keys, f[i], f[j]) /\ f[i] \in 1..n /\ f[j] \in 1..n
    BY <1>3, <1>4, <1>5
  <2>2. ~(keys[f[i]] = keys[f[j]] /\ f[i] < f[j])
    BY <2>1
  <2> QED BY <2>1, <2>2 DEF WeighsLess
<1> QED BY <1>1, <1>3, <1>4, <1>5

\* The argsort of a permutation inverts it.
LEMMA ArgsortInverts ==
  ASSUME NEW n \in Nat, NEW keys, Lists(keys, 1..n)
  PROVE  /\ Lists(Argsort(keys), 1..n) /\ DOMAIN Argsort(keys) = 1..n /\ Len(Argsort(keys)) = n
         /\ DOMAIN keys = 1..n /\ Len(keys) = n
         /\ \A i \in 1..n : Argsort(keys)[i] \in 1..n /\ keys[Argsort(keys)[i]] = i
<1> DEFINE f == Argsort(keys)
<1>1. DOMAIN keys = 1..n /\ Len(keys) = n /\ keys \in [1..n -> 1..n]
  <2>1. Cardinality(1..n) = Len(keys) /\ DOMAIN keys = 1..Len(keys)
    BY ListsCard
  <2>2. Cardinality(1..n) = n
    BY FS_Interval
  <2>3. keys \in Seq(1..n)
    BY DEF Lists
  <2> QED BY <2>1, <2>2, <2>3
<1>2. keys \in [1..n -> Int] /\ \A i, j \in 1..n : keys[i] = keys[j] => i = j
  BY <1>1 DEF Lists
<1>3. /\ Lists(f, 1..n) /\ DOMAIN f = 1..n /\ Len(f) = n
      /\ \A i \in 1..n : f[i] \in 1..n
      /\ \A i, j \in 1..n : i < j => keys[f[i]] < keys[f[j]]
  BY <1>2, ArgsortLists
<1> HIDE DEF f
<1> DEFINE g == Select(keys, f)
<1>4. /\ Lists(g, ElementsAt(keys, 1..n)) /\ DOMAIN g = 1..n
      /\ \A i \in 1..n : g[i] = keys[f[i]]
  <2>1. Into(keys, 1..n, Int) /\ OneToOne(keys, 1..n)
    BY <1>2 DEF Into, OneToOne
  <2> QED BY <1>3, <2>1, SelectLists
<1>5. ElementsAt(keys, 1..n) = 1..n
  BY <1>1 DEF ElementsAt, Lists
<1> HIDE DEF g
<1>6. Lists(g, 1..n) /\ \A i, j \in DOMAIN g : i < j => g[i] < g[j]
  BY <1>3, <1>4, <1>5
<1>7. \A i \in 1..n : g[i] = i
  BY <1>6, AscendingIsIdentity
<1> QED BY <1>1, <1>3, <1>4, <1>7 DEF f

Increasing(g, n) == /\ \A i \in 1..n : g[i] \in Int
                    /\ \A i, j \in 1..n : i < j => g[i] < g[j]

KeysAt(keys, g, idx, n) == keys = [i \in 1..n |-> g[idx[i]]]

Restores(f, idx, n) ==
  DOMAIN f = 1..n /\ Len(f) = n /\ \A i \in 1..n : f[i] \in 1..n /\ idx[f[i]] = i

\* Sorting listed positions by keys that grow with the position restores their order.
LEMMA ArgsortRestores ==
  ASSUME NEW n \in Nat, NEW idx, Lists(idx, 1..n), NEW keys,
         NEW g, Increasing(g, n), KeysAt(keys, g, idx, n)
  PROVE  Restores(Argsort(keys), idx, n)
<1> DEFINE f == Argsort(keys)
<1>1. DOMAIN idx = 1..n /\ \A i \in 1..n : idx[i] \in 1..n
  <2>1. Cardinality(1..n) = Len(idx) /\ DOMAIN idx = 1..Len(idx)
    BY ListsCard
  <2>2. Cardinality(1..n) = n
    BY FS_Interval
  <2>3. idx \in Seq(1..n)
    BY DEF Lists
  <2> QED BY <2>1, <2>2, <2>3
<1>g. (\A i \in 1..n : g[i] \in Int) /\ (\A i, j \in 1..n : i < j => g[i] < g[j])
  BY DEF Increasing
<1>k. keys = [i \in 1..n |-> g[idx[i]]]
  BY DEF KeysAt
<1>2. \A i, j \in 1..n : g[i] = g[j] => i = j
  BY <1>g
<1>3. keys \in [1..n -> Int] /\ \A i, j \in 1..n : keys[i] = keys[j] => i = j
  <2>1. keys \in [1..n -> Int]
    BY <1>1, <1>g, <1>k
  <2>2. ASSUME NEW i \in 1..n, NEW j \in 1..n, keys[i] = keys[j]
        PROVE  i = j
    <3>1. g[idx[i]] = g[idx[j]] /\ idx[i] \in 1..n /\ idx[j] \in 1..n
      BY <1>1, <1>k, <2>2
    <3>2. idx[i] = idx[j]
      BY <1>2, <3>1
    <3> QED BY <1>1, <3>2 DEF Lists
  <2> QED BY <2>1, <2>2
<1>4. /\ Lists(f, 1..n) /\ DOMAIN f = 1..n /\ Len(f) = n
      /\ \A i \in 1..n : f[i] \in 1..n
      /\ \A i, j \in 1..n : i < j => keys[f[i]] < keys[f[j]]
  BY <1>3, ArgsortLists
<1> HIDE DEF f
<1> DEFINE h == Select(idx, f)
<1>5. /\ Lists(h, ElementsAt(idx, 1..n)) /\ DOMAIN h = 1..n
      /\ \A i \in 1..n : h[i] = idx[f[i]]
  <2>1. Into(idx, 1..n, 1..n) /\ OneToOne(idx, 1..n)
    BY <1>1 DEF Lists, Into, OneToOne
  <2> QED BY <1>4, <2>1, SelectLists
<1>6. ElementsAt(idx, 1..n) = 1..n
  BY <1>1 DEF ElementsAt, Lists
<1> HIDE DEF h
<1>7. ASSUME NEW i \in 1..n, NEW j \in 1..n, i < j
      PROVE  h[i] < h[j]
  <2>1. keys[f[i]] = g[h[i]] /\ keys[f[j]] = g[h[j]] /\ h[i] \in 1..n /\ h[j] \in 1..n
    BY <1>1, <1>k, <1>4, <1>5
  <2>2. g[h[i]] < g[h[j]]
    BY <1>4, <1>7, <2>1
  <2>3. ~(h[j] < h[i]) /\ h[i] # h[j]
    BY <1>g, <2>1, <2>2
  <2> QED BY <2>1, <2>3
<1>8. \A i \in 1..n : h[i] = i
  BY <1>5, <1>6, <1>7, AscendingIsIdentity
<1> QED BY <1>4, <1>5, <1>8 DEF f, Restores

-----------------------------------------------------------------------------
(* Routes and chunks.                                                         *)

LEMMA TwoRoutes ==
  /\ DOMAIN Routes = 1..2 /\ Len(Routes) = 2 /\ Routes[1] = "clean" /\ Routes[2] = "masked"
  /\ Range(Routes) = {"clean", "masked"} /\ "clean" # "masked"
<1>1. DOMAIN Routes = 1..2 /\ Len(Routes) = 2 /\ Routes[1] = "clean" /\ Routes[2] = "masked"
  BY DEF Routes
<1>2. "clean" # "masked"
  OBVIOUS
<1> HIDE DEF Routes
<1>3. 1 \in 1..2 /\ 2 \in 1..2 /\ \A k \in 1..2 : k = 1 \/ k = 2
  OBVIOUS
<1>4. Range(Routes) = {"clean", "masked"}
  BY <1>1, <1>3 DEF Range
<1> QED BY <1>1, <1>2, <1>4

LEMMA FlattenRoutes ==
  ASSUME NEW S, NEW f, DOMAIN f = DOMAIN Routes, f = [k \in DOMAIN Routes |-> f[k]],
         f[1] \in Seq(S), f[2] \in Seq(S)
  PROVE  FlattenSeq(f) = f[1] \o f[2] /\ FlattenSeq(f) \in Seq(S)
<1> DEFINE x == f[1]
           y == f[2]
<1>1. f = <<x, y>>
  <2>1. f = [k \in 1..2 |-> f[k]]
    BY TwoRoutes
  <2>2. 1..2 = {1, 2}
    OBVIOUS
  <2> QED BY <2>1, <2>2
<1>2. x \in Seq(S) /\ y \in Seq(S)
  OBVIOUS
<1>3. FlattenSeq(f) = x \o y
  <2> HIDE DEF x, y
  <2> QED BY <1>1, <1>2, FlattenTwo
<1>4. x \o y \in Seq(S)
  <2> HIDE DEF x, y
  <2> QED BY <1>2
<1> QED BY <1>3, <1>4

RoutesKnown(rows) == \A i \in DOMAIN rows : rows[i].out.route \in Range(Routes)

RouteSet(rows, route) == {i \in DOMAIN rows : rows[i].out.route = route}

LEMMA RouteListed ==
  ASSUME NEW n \in Nat, NEW rows, DOMAIN rows = 1..n, NEW route
  PROVE  LET idx == RowsOfRoute(rows, route)
             set == RouteSet(rows, route)
         IN  /\ set \in SUBSET (1..n) /\ Lists(idx, set) /\ idx \in Seq(1..n)
             /\ DOMAIN idx = 1..Cardinality(set) /\ Len(idx) = Cardinality(set)
             /\ Cardinality(set) \in Nat
             /\ \A i \in DOMAIN idx : idx[i] \in set
             /\ \A i, j \in DOMAIN idx : i < j => idx[i] < idx[j]
<1> DEFINE idx == RowsOfRoute(rows, route)
           set == RouteSet(rows, route)
<1>1. set \in SUBSET (1..n) /\ set \in SUBSET Int
  BY DEF RouteSet
<1>2. IsFiniteSet(set) /\ Cardinality(set) \in Nat
  <2>1. IsFiniteSet(1..n)
    BY FS_Interval
  <2> QED BY <1>1, <2>1, FS_Subset, FS_CardinalityType
<1>3. idx = Ascending(set)
  BY DEF RowsOfRoute, RouteSet
<1> HIDE DEF idx, set
<1>4. /\ Lists(idx, set) /\ Len(idx) = Cardinality(set) /\ DOMAIN idx = 1..Cardinality(set)
      /\ \A i, j \in DOMAIN idx : i < j => idx[i] < idx[j]
  BY <1>1, <1>2, <1>3, AscendingLists
<1>5. idx \in Seq(set)
  BY <1>4 DEF Lists
<1>6. idx \in Seq(1..n) /\ \A i \in DOMAIN idx : idx[i] \in set
  <2>1. idx \in [1..Cardinality(set) -> set]
    BY <1>4, <1>5
  <2>2. idx \in [1..Cardinality(set) -> 1..n]
    BY <1>1, <2>1
  <2> QED BY <1>2, <2>1, <2>2
<1> QED BY <1>1, <1>2, <1>4, <1>6 DEF idx, set

\* The clean rows, then the masked rows, are all the rows.
LEMMA RoutesListAll ==
  ASSUME NEW n \in Nat, NEW rows, DOMAIN rows = 1..n, RoutesKnown(rows)
  PROVE  Lists(RowsOfRoute(rows, "clean") \o RowsOfRoute(rows, "masked"), 1..n)
<1> DEFINE a == RowsOfRoute(rows, "clean")
           b == RowsOfRoute(rows, "masked")
           A == RouteSet(rows, "clean")
           B == RouteSet(rows, "masked")
<1>1. Lists(a, A) /\ Lists(b, B)
  BY RouteListed
<1>2. A \cap B = {}
  BY TwoRoutes DEF RouteSet
<1>3. A \cup B = 1..n
  BY TwoRoutes DEF RouteSet, RoutesKnown
<1> HIDE DEF a, b, A, B
<1>4. Lists(a \o b, A \cup B)
  BY <1>1, <1>2, ListsConcat
<1> QED BY <1>3, <1>4 DEF a, b

\* Selecting each route's rows and joining them.
LEMMA FlattenSelected ==
  ASSUME NEW n \in Nat, NEW rows, DOMAIN rows = 1..n, NEW T, NEW s, Into(s, 1..n, T)
  PROVE  /\ FlattenSeq([k \in DOMAIN Routes |-> Select(s, RowsOfRoute(rows, Routes[k]))])
              = Select(s, RowsOfRoute(rows, "clean") \o RowsOfRoute(rows, "masked"))
         /\ Select(s, RowsOfRoute(rows, "clean") \o RowsOfRoute(rows, "masked")) \in Seq(T)
<1> DEFINE f == [k \in DOMAIN Routes |-> Select(s, RowsOfRoute(rows, Routes[k]))]
           a == RowsOfRoute(rows, "clean")
           b == RowsOfRoute(rows, "masked")
<1>1. a \in Seq(1..n) /\ b \in Seq(1..n)
  BY RouteListed
<1>2. f[1] = Select(s, a) /\ f[2] = Select(s, b) /\ DOMAIN f = DOMAIN Routes
      /\ f = [k \in DOMAIN Routes |-> f[k]]
  <2>1. 1 \in DOMAIN Routes /\ 2 \in DOMAIN Routes
    BY TwoRoutes
  <2>2. f[1] = Select(s, RowsOfRoute(rows, Routes[1])) /\ f[2] = Select(s, RowsOfRoute(rows, Routes[2]))
    BY <2>1
  <2> QED BY <2>2, TwoRoutes
<1> HIDE DEF f, a, b
<1>3. Select(s, a) \in Seq(T) /\ Select(s, b) \in Seq(T)
      /\ Select(s, a \o b) = Select(s, a) \o Select(s, b)
  BY <1>1, SelectConcat
<1>4. FlattenSeq(f) = f[1] \o f[2] /\ FlattenSeq(f) \in Seq(T)
  BY <1>2, <1>3, FlattenRoutes
<1>5. FlattenSeq(f) = Select(s, a \o b) /\ Select(s, a \o b) \in Seq(T)
  BY <1>2, <1>3, <1>4
<1> QED BY <1>5 DEF f, a, b

Grows(rows) ==
  /\ \A i \in DOMAIN rows : rows[i].out.order \in Int
  /\ \A i, j \in DOMAIN rows : i < j => rows[i].out.order < rows[j].out.order

\* A rollout rank returns its rows in the order it got them.
LEMMA DualOutputInOrder ==
  ASSUME NEW n \in Nat, NEW rows, DOMAIN rows = 1..n, RoutesKnown(rows), Grows(rows)
  PROVE  DualOutput(rows) = [i \in 1..n |-> rows[i].out]
<1> DEFINE idx    == RowsOfRoute(rows, "clean") \o RowsOfRoute(rows, "masked")
           T      == {rows[i] : i \in 1..n}
           output == FlattenSeq([k \in DOMAIN Routes |-> Select(rows, RowsOfRoute(rows, Routes[k]))])
           keys   == [i \in DOMAIN output |-> output[i].out.order]
           sorted == Argsort(keys)
           g      == [i \in 1..n |-> rows[i].out.order]
<1>1. Lists(idx, 1..n) /\ DOMAIN idx = 1..n /\ Len(idx) = n /\ \A i \in 1..n : idx[i] \in 1..n
  <2>1. Lists(idx, 1..n)
    BY RoutesListAll
  <2> HIDE DEF idx
  <2>2. Cardinality(1..n) = Len(idx) /\ DOMAIN idx = 1..Len(idx)
    BY <2>1, ListsCard
  <2>3. Cardinality(1..n) = n
    BY FS_Interval
  <2>4. idx \in Seq(1..n)
    BY <2>1 DEF Lists
  <2> QED BY <2>1, <2>2, <2>3, <2>4
<1>2. output = Select(rows, idx)
  <2>1. Into(rows, 1..n, T)
    BY DEF Into
  <2> HIDE DEF T
  <2> QED BY <2>1, FlattenSelected
<1> HIDE DEF idx, output
<1>3. DOMAIN output = 1..n /\ \A i \in 1..n : output[i] = rows[idx[i]]
  BY <1>1, <1>2 DEF Select
<1>4. KeysAt(keys, g, idx, n)
  BY <1>1, <1>3 DEF KeysAt
<1>5. Increasing(g, n)
  BY DEF Grows, Increasing
<1> HIDE DEF keys, g
<1>6. DOMAIN sorted = 1..n /\ \A i \in 1..n : sorted[i] \in 1..n /\ idx[sorted[i]] = i
  <2>1. Restores(sorted, idx, n)
    BY <1>1, <1>4, <1>5, ArgsortRestores
  <2> QED BY <2>1 DEF Restores
<1> HIDE DEF sorted
<1>7. \A i \in 1..n : output[sorted[i]].out = rows[i].out
  BY <1>3, <1>6
<1>8. DualOutput(rows) = [i \in DOMAIN output |-> output[sorted[i]].out]
  BY DEF DualOutput, output, sorted, keys
<1>9. DualOutput(rows) = [i \in 1..n |-> output[sorted[i]].out]
  BY <1>3, <1>8
<1> QED BY <1>7, <1>9

\* Of each group of d ranks the first gives the group's chunk: together they give all.
GroupChunks(f, o, world, d, size) ==
  f = [r \in 1..world |-> IF (r - 1) % d = 0
                          THEN SubSeq(o, ((r - 1) \div d) * size + 1, ((r - 1) \div d + 1) * size)
                          ELSE <<>>]

LEMMA JoinChunks ==
  ASSUME NEW d \in Nat \ {0}, NEW m \in Nat \ {0}, NEW size \in Nat, NEW T, NEW o \in Seq(T),
         Len(o) = m * size, NEW world, world = d * m, NEW f, GroupChunks(f, o, world, d, size)
  PROVE  FlattenSeq(f) = o
<1> DEFINE Up(r)   == (r + d - 1) \div d
           Flat(r) == FlattenSeq(SubSeq(f, 1, r))
           Good    == {r \in Nat : r <= world => Flat(r) = SubSeq(o, 1, Up(r) * size)}
<1>1. world \in Nat
  OBVIOUS
<1>2. ASSUME NEW r \in Nat, r < world
      PROVE  /\ r \div d \in Nat /\ r \div d < m /\ (r \div d) * size + size <= Len(o)
             /\ (r \div d + 1) * size = (r \div d) * size + size
             /\ (r \div d) * size \in Nat
             /\ (r % d = 0 => Up(r) = r \div d) /\ (r % d # 0 => Up(r) = r \div d + 1)
             /\ Up(r + 1) = r \div d + 1
  <2>0. r \in Int
    OBVIOUS
  <2>d. r = d * (r \div d) + (r % d) /\ r % d \in 0..(d - 1) /\ r \div d \in Int
    BY <2>0, DivFacts
  <2>n. r \div d \in Nat
    BY NextDiv
  <2> DEFINE q == r \div d
             b == r % d
  <2>1. q \in Int /\ b \in 0..(d - 1) /\ r = d * q + b
    BY <2>d
  <2>2. q \in Nat
    BY <2>n
  <2> HIDE DEF q, b
  <2>3. q < m
    <3> SUFFICES ASSUME m <= q PROVE FALSE
      BY <2>1
    <3>1. d * m <= d * q
      <4>1. CASE m = q
        BY <2>1, <4>1
      <4>2. CASE m < q
        <5>1. d * m + d <= d * q
          BY <2>1, <4>2, MulMono
        <5> QED BY <2>1, <5>1
      <4> QED BY <2>1, <4>1, <4>2
    <3> QED BY <1>1, <1>2, <2>1, <3>1
  <2>4. q * size \in Nat /\ m * size \in Nat /\ (q + 1) * size = q * size + size
    BY <2>2
  <2>5. q * size + size <= Len(o)
    <3>1. CASE size = 0
      <4>1. q * size = 0 /\ Len(o) \in Nat
        BY <2>2, <3>1
      <4> QED BY <3>1, <4>1
    <3>2. CASE size # 0
      <4>1. size * q + size <= size * m
        BY <2>2, <2>3, <3>2, MulMono
      <4> QED BY <2>2, <4>1
    <3> QED BY <3>1, <3>2
  <2>a. d * (q + 1) = d * q + d
    BY <2>2
  <2>6. b = 0 => r + d - 1 = d * q + (d - 1)
    BY <2>1
  <2>7. b # 0 => r + d - 1 = d * (q + 1) + (b - 1) /\ b - 1 \in 0..(d - 1)
    BY <2>1, <2>a
  <2>8. (r + 1) + d - 1 = d * (q + 1) + b /\ (r + 1) + d - 1 \in Int /\ r + d - 1 \in Int
        /\ q + 1 \in Int /\ d - 1 \in 0..(d - 1)
    BY <2>1, <2>a
  <2>9. Up(r + 1) = q + 1
    BY <2>1, <2>8, DivUnique
  <2>10. b = 0 => Up(r) = q
    BY <2>1, <2>6, <2>8, DivUnique
  <2>11. b # 0 => Up(r) = q + 1
    BY <2>7, <2>8, DivUnique
  <2> HIDE DEF Up
  <2> QED BY <2>2, <2>3, <2>4, <2>5, <2>9, <2>10, <2>11 DEF q, b
<1>3. ASSUME NEW r \in 1..world
      PROVE  f[r] = (IF (r - 1) % d = 0
                     THEN SubSeq(o, ((r - 1) \div d) * size + 1, ((r - 1) \div d + 1) * size)
                     ELSE <<>>)
             /\ f[r] \in Seq(T)
  <2>1. f[r] = (IF (r - 1) % d = 0
                THEN SubSeq(o, ((r - 1) \div d) * size + 1, ((r - 1) \div d + 1) * size)
                ELSE <<>>)
    BY DEF GroupChunks
  <2>2. r - 1 \in Nat /\ r - 1 < world
    BY <1>1
  <2> DEFINE q == (r - 1) \div d
  <2>3. q * size \in Nat /\ q * size + size <= Len(o) /\ (q + 1) * size = q * size + size
    BY <1>2, <2>2
  <2> HIDE DEF q
  <2>4. SubSeq(o, q * size + 1, q * size + size) \in Seq(T)
    BY <2>3, SlicePoint
  <2>5. <<>> \in Seq(T)
    OBVIOUS
  <2> QED BY <2>1, <2>3, <2>4, <2>5 DEF q
<1>4. f \in Seq(Seq(T)) /\ Len(f) = world
  <2>1. DOMAIN f = 1..world /\ f = [r \in 1..world |-> f[r]]
    BY DEF GroupChunks
  <2>2. f \in [1..world -> Seq(T)]
    BY <1>3, <2>1
  <2> QED BY <1>1, <2>2
<1>5. 0 \in Good
  <2>1. Up(0) = 0
    <3>1. 0 + d - 1 = d * 0 + (d - 1) /\ d - 1 \in 0..(d - 1) /\ 0 + d - 1 \in Int
      OBVIOUS
    <3> QED BY <3>1, DivUnique
  <2>2. SubSeq(f, 1, 0) = <<>> /\ SubSeq(o, 1, 0 * size) = <<>>
    BY <1>4
  <2> HIDE DEF Up
  <2> QED BY <2>1, <2>2, FlattenNone
<1>6. ASSUME NEW r \in Nat, r \in Good
      PROVE  r + 1 \in Good
  <2> SUFFICES ASSUME r + 1 <= world PROVE Flat(r + 1) = SubSeq(o, 1, Up(r + 1) * size)
    BY DEF Good
  <2>1. r < world /\ r \in Nat /\ r + 1 \in 1..world /\ (r + 1) - 1 = r
    BY <1>1
  <2>2. Flat(r) = SubSeq(o, 1, Up(r) * size)
    BY <1>1, <1>6, <2>1
  <2>3. Flat(r + 1) = Flat(r) \o f[r + 1]
    BY <1>4, <2>1, FlattenPrefix
  <2>4. f[r + 1] = IF r % d = 0 THEN SubSeq(o, (r \div d) * size + 1, (r \div d + 1) * size) ELSE <<>>
    BY <1>3, <2>1
  <2> DEFINE q == r \div d
  <2>5. /\ q \in Nat /\ q * size \in Nat /\ q * size + size <= Len(o)
        /\ (q + 1) * size = q * size + size
        /\ (r % d = 0 => Up(r) = q) /\ (r % d # 0 => Up(r) = q + 1) /\ Up(r + 1) = q + 1
    BY <1>2, <2>1
  <2> HIDE DEF q, Up, Flat
  <2>6. CASE r % d = 0
    <3>1. Flat(r + 1) = SubSeq(o, 1, q * size) \o SubSeq(o, q * size + 1, (q + 1) * size)
      BY <2>2, <2>3, <2>4, <2>5, <2>6 DEF q
    <3>2. SubSeq(o, 1, q * size) \o SubSeq(o, q * size + 1, q * size + size)
          = SubSeq(o, 1, q * size + size)
      BY <2>5, SliceJoin, SMTT(30)
    <3> QED BY <2>5, <3>1, <3>2
  <2>7. CASE r % d # 0
    <3>1. Flat(r + 1) = SubSeq(o, 1, (q + 1) * size) \o <<>>
      BY <2>2, <2>3, <2>4, <2>5, <2>7
    <3>2. SubSeq(o, 1, q * size + size) \in Seq(T)
      BY <2>5
    <3>3. SubSeq(o, 1, q * size + size) \o <<>> = SubSeq(o, 1, q * size + size)
      BY <3>2
    <3> QED BY <2>5, <3>1, <3>3
  <2> QED BY <2>6, <2>7
<1>7. world \in Good
  <2> HIDE DEF Good
  <2> QED BY <1>1, <1>5, <1>6, SetInduction
<1>8. Flat(world) = SubSeq(o, 1, Up(world) * size)
  BY <1>1, <1>7
<1>9. Up(world) = m
  <2>1. world + d - 1 = d * m + (d - 1) /\ d - 1 \in 0..(d - 1) /\ world + d - 1 \in Int
    BY <1>1
  <2> QED BY <2>1, DivUnique
<1> HIDE DEF Up
<1>10. Flat(world) = SubSeq(o, 1, Len(o))
  BY <1>8, <1>9
<1>11. SubSeq(o, 1, Len(o)) = o /\ SubSeq(f, 1, Len(f)) = f
  BY <1>4, WholeSeq
<1> QED BY <1>4, <1>10, <1>11

-----------------------------------------------------------------------------
(* The round-robin batch.                                                     *)

LEMMA RoundRobinLists ==
  ASSUME NEW a \in Nat, NEW b \in Nat
  PROVE  Lists(RoundRobinIndices(a, b), 1..(a + b))
<1> DEFINE longest == IF a > b THEN a ELSE b
           x(o) == IF o <= a THEN <<o>> ELSE <<>>
           y(o) == IF o <= b THEN <<a + o>> ELSE <<>>
           X(o) == IF o <= a THEN {o} ELSE {}
           Y(o) == IF o <= b THEN {a + o} ELSE {}
           f == [o \in 1..longest |-> x(o) \o y(o)]
           P == [o \in 1..longest |-> X(o) \cup Y(o)]
<1>1. longest \in Nat /\ a <= longest /\ b <= longest
  OBVIOUS
<1>2. RoundRobinIndices(a, b) = FlattenSeq(f)
  BY DEF RoundRobinIndices
<1>3. ASSUME NEW o \in 1..longest
      PROVE  Lists(f[o], P[o]) /\ f[o] \in Seq(Nat)
  <2>1. Lists(x(o), X(o)) /\ Lists(y(o), Y(o))
    BY SingleLists
  <2>2. X(o) \cap Y(o) = {}
    <3>1. o \in Int /\ (o <= a => o # a + o)
      OBVIOUS
    <3> QED BY <3>1
  <2>3. x(o) \in Seq(Nat) /\ y(o) \in Seq(Nat)
    OBVIOUS
  <2>4. f[o] = x(o) \o y(o) /\ P[o] = X(o) \cup Y(o)
    OBVIOUS
  <2> HIDE DEF x, y, X, Y, f, P
  <2>5. Lists(x(o) \o y(o), X(o) \cup Y(o))
    BY <2>1, <2>2, ListsConcat
  <2>6. x(o) \o y(o) \in Seq(Nat)
    BY <2>3
  <2> QED BY <2>4, <2>5, <2>6
<1>4. f \in Seq(Seq(Nat)) /\ DOMAIN f = 1..longest
  <2>1. DOMAIN f = 1..longest /\ f = [o \in 1..longest |-> f[o]]
    OBVIOUS
  <2> HIDE DEF f
  <2>2. f \in [1..longest -> Seq(Nat)]
    BY <1>3, <2>1
  <2> QED BY <1>1, <2>1, <2>2
<1>5. ASSUME NEW i \in 1..longest, NEW j \in 1..longest, i # j
      PROVE  P[i] \cap P[j] = {}
  <2>1. \A e \in P[i] : (e = i /\ i <= a) \/ e = a + i
    OBVIOUS
  <2>2. \A e \in P[j] : (e = j /\ j <= a) \/ e = a + j
    OBVIOUS
  <2>3. i \in 1..longest /\ j \in 1..longest /\ i \in Int /\ j \in Int
    BY <1>1
  <2> HIDE DEF P, longest
  <2> QED BY <1>1, <1>5, <2>1, <2>2, <2>3
<1>6. UNION {P[o] : o \in 1..longest} = 1..(a + b)
  <2>1. ASSUME NEW e \in 1..(a + b) PROVE \E o \in 1..longest : e \in P[o]
    <3>1. CASE e <= a
      <4>1. e \in 1..longest /\ e \in P[e]
        BY <1>1, <3>1
      <4> QED BY <4>1
    <3>2. CASE e > a
      <4>1. e - a \in 1..longest /\ e - a <= b /\ a + (e - a) = e
        BY <1>1, <3>2
      <4>2. e \in P[e - a]
        BY <4>1
      <4> QED BY <4>1, <4>2
    <3>3. e <= a \/ e > a
      OBVIOUS
    <3> HIDE DEF P, longest
    <3> QED BY <3>1, <3>2, <3>3
  <2>2. ASSUME NEW o \in 1..longest, NEW e \in P[o] PROVE e \in 1..(a + b)
    <3>1. o \in Int /\ o >= 1
      BY <1>1
    <3>2. (o <= a /\ e = o) \/ (o <= b /\ e = a + o)
      OBVIOUS
    <3> QED BY <3>1, <3>2
  <2> HIDE DEF P
  <2> QED BY <2>1, <2>2
<1> HIDE DEF f, P, longest
<1>7. Lists(FlattenSeq(f), UNION {P[o] : o \in DOMAIN f})
  <2>1. ListsEach(f, P)
    BY <1>3, <1>4, <1>5 DEF ListsEach
  <2> QED BY <1>4, <2>1, FlattenLists
<1> QED BY <1>2, <1>4, <1>6, <1>7

RouteRows(c, route, n) ==
  [i \in 1..(c.prompts * n) |-> [prompt |-> (i - 1) \div n + 1, route |-> route]]

BothRouteRows(c) == RouteRows(c, "clean", c.clean) \o RouteRows(c, "masked", c.masked)

Rows(c) == c.prompts * c.clean + c.prompts * c.masked

LEMMA ConfigFacts ==
  ASSUME NEW c \in Configs
  PROVE  /\ c.prompts \in Nat \ {0} /\ c.world \in Nat \ {0} /\ c.micro \in Nat \ {0}
         /\ c.maxTokens \in Nat \ {0} /\ c.clean \in Nat \ {0, 1} /\ c.masked \in Nat \ {0, 1}
         /\ c.tp \in 1..c.world /\ c.world % c.tp = 0 /\ c.tp \in Nat \ {0}
         /\ c.balance \in BOOLEAN /\ c.dynamic \in BOOLEAN /\ c.top \in BOOLEAN /\ c.agg \in AggModes
         /\ c.lens # {} /\ c.lens \subseteq 1..c.maxTokens
         /\ c.prompts * c.clean \in Nat \ {0} /\ c.prompts * c.masked \in Nat \ {0}
         /\ Rows(c) \in Nat \ {0} /\ Rows(c) % c.world = 0
<1>1. ValidConfig(c)
  BY ConfigsAssumption
<1>2. /\ c.prompts \in Nat \ {0} /\ c.world \in Nat \ {0} /\ c.micro \in Nat \ {0}
      /\ c.maxTokens \in Nat \ {0} /\ c.clean \in Nat \ {0, 1} /\ c.masked \in Nat \ {0, 1}
      /\ c.tp \in 1..c.world /\ c.world % c.tp = 0
      /\ c.balance \in BOOLEAN /\ c.dynamic \in BOOLEAN /\ c.top \in BOOLEAN /\ c.agg \in AggModes
      /\ c.lens # {} /\ c.lens \subseteq 1..c.maxTokens
      /\ (c.prompts * (c.clean + c.masked)) % c.world = 0
  BY <1>1 DEF ValidConfig
<1> DEFINE p == c.prompts
           a == c.clean
           b == c.masked
<1>3. p \in Nat \ {0} /\ a \in Nat \ {0, 1} /\ b \in Nat \ {0, 1}
  BY <1>2
<1>4. c.tp \in Nat \ {0}
  BY <1>2
<1>5. p * a \in Nat \ {0} /\ p * b \in Nat \ {0} /\ p * (a + b) = p * a + p * b
  <2> HIDE DEF p, a, b
  <2>1. p * a \in Nat /\ p * b \in Nat /\ p * (a + b) = p * a + p * b
    BY <1>3
  <2>2. p * a # 0 /\ p * b # 0
    BY <1>3
  <2> QED BY <2>1, <2>2
<1>6. Rows(c) \in Nat \ {0}
  BY <1>5 DEF Rows
<1>7. Rows(c) % c.world = 0
  BY <1>2, <1>5 DEF Rows
<1> QED BY <1>2, <1>4, <1>5, <1>6, <1>7

LEMMA BothRouteRowsAre ==
  ASSUME NEW c \in Configs
  PROVE  LET s == BothRouteRows(c)
             a == c.prompts * c.clean
             b == c.prompts * c.masked
         IN  /\ DOMAIN s = 1..(a + b) /\ Len(RouteRows(c, "clean", c.clean)) = a
             /\ Len(RouteRows(c, "masked", c.masked)) = b
             /\ \A i \in 1..(a + b) : s[i].route \in {"clean", "masked"}
                                      /\ (s[i].route = "clean" <=> i <= a)
<1> DEFINE a == c.prompts * c.clean
           b == c.prompts * c.masked
           x == RouteRows(c, "clean", c.clean)
           y == RouteRows(c, "masked", c.masked)
           T == {x[i] : i \in 1..a} \cup {y[i] : i \in 1..b}
<1>1. a \in Nat /\ b \in Nat
  BY ConfigFacts
<1>2. x = [i \in 1..a |-> [prompt |-> (i - 1) \div c.clean + 1, route |-> "clean"]]
      /\ y = [i \in 1..b |-> [prompt |-> (i - 1) \div c.masked + 1, route |-> "masked"]]
  BY DEF RouteRows
<1>3. (\A i \in 1..a : x[i].route = "clean") /\ (\A i \in 1..b : y[i].route = "masked")
  <2>0. \A p, r : [prompt |-> p, route |-> r].route = r
    OBVIOUS
  <2>1. ASSUME NEW i \in 1..a PROVE x[i].route = "clean"
    <3> DEFINE p == (i - 1) \div c.clean + 1
    <3>1. x[i] = [prompt |-> p, route |-> "clean"]
      BY <1>2
    <3> HIDE DEF p, x
    <3> QED BY <2>0, <3>1
  <2>2. ASSUME NEW i \in 1..b PROVE y[i].route = "masked"
    <3> DEFINE p == (i - 1) \div c.masked + 1
    <3>1. y[i] = [prompt |-> p, route |-> "masked"]
      BY <1>2
    <3> HIDE DEF p, y
    <3> QED BY <2>0, <3>1
  <2> QED BY <2>1, <2>2
<1>4. DOMAIN x = 1..a /\ DOMAIN y = 1..b
  BY <1>2
<1>5. x \in Seq(T) /\ y \in Seq(T) /\ Len(x) = a /\ Len(y) = b
  <2>1. x = [i \in 1..a |-> x[i]] /\ y = [i \in 1..b |-> y[i]]
    BY <1>2
  <2> HIDE DEF x, y, a, b
  <2>2. x \in [1..a -> T] /\ y \in [1..b -> T]
    BY <2>1
  <2> QED BY <1>1, <2>2, SMTT(30)
<1> HIDE DEF x, y, a, b, T
<1>6. /\ DOMAIN (x \o y) = 1..(Len(x) + Len(y))
      /\ \A i \in 1..Len(x) : (x \o y)[i] = x[i]
      /\ \A i \in (Len(x) + 1)..(Len(x) + Len(y)) :
           i - Len(x) \in 1..Len(y) /\ (x \o y)[i] = y[i - Len(x)]
  <2>1. x \in Seq(T) /\ y \in Seq(T)
    BY <1>5
  <2> QED BY <2>1, ConcatFacts
<1> DEFINE s == x \o y
<1> HIDE DEF s
<1>7. ASSUME NEW i \in 1..(a + b)
      PROVE  s[i].route \in {"clean", "masked"} /\ (s[i].route = "clean" <=> i <= a)
  <2>1. CASE i <= a
    <3>1. i \in 1..a /\ s[i] = x[i]
      BY <1>1, <1>5, <1>6, <2>1 DEF s
    <3> QED BY <1>3, <2>1, <3>1
  <2>2. CASE ~(i <= a)
    <3>1. i - a \in 1..b /\ s[i] = y[i - a]
      BY <1>1, <1>5, <1>6, <2>2 DEF s
    <3> QED BY <1>3, <2>2, <3>1
  <2> QED BY <2>1, <2>2
<1>8. BothRouteRows(c) = s
  BY DEF BothRouteRows, s, x, y
<1> QED BY <1>5, <1>6, <1>7, <1>8 DEF s, a, b, x, y

BatchShape(b, n) == DOMAIN b = 1..n /\ Len(b) = n /\ b \in Seq({b[i] : i \in 1..n})

OwnUid(b) == \A i \in DOMAIN b : b[i].uid = <<b[i].out.prompt, b[i].out.route>>

LEMMA InitialBatch ==
  ASSUME NEW c \in Configs
  PROVE  LET b == BuildDualRouteBatch(c)
         IN  /\ BatchShape(b, Rows(c)) /\ OwnUid(b) /\ RoutesKnown(b)
             /\ \A i \in 1..Rows(c) : b[i].out.order = i
             /\ Cardinality(RouteSet(b, "clean")) = c.prompts * c.clean
             /\ Cardinality(RouteSet(b, "masked")) = c.prompts * c.masked
             /\ \A i \in 1..Rows(c) :
                  /\ b[i].out.route \in {"clean", "masked"}
                  /\ b[i].out.route = "clean"
                       <=> RoundRobinIndices(c.prompts * c.clean, c.prompts * c.masked)[i] <= c.prompts * c.clean
<1> DEFINE p == c.prompts * c.clean
           q == c.prompts * c.masked
           n == Rows(c)
           s == BothRouteRows(c)
           idx == RoundRobinIndices(p, q)
           dual == Select(s, idx)
           row(i) == [uid  |-> <<dual[i].prompt, dual[i].route>>,
                      out  |-> [prompt |-> dual[i].prompt, route |-> dual[i].route, order |-> i],
                      logp |-> 0]
           b == BuildDualRouteBatch(c)
<1>1. p \in Nat /\ q \in Nat /\ n = p + q /\ n \in Nat
  BY ConfigFacts DEF Rows
<1>2. /\ DOMAIN s = 1..(p + q)
      /\ Len(RouteRows(c, "clean", c.clean)) = p /\ Len(RouteRows(c, "masked", c.masked)) = q
      /\ \A i \in 1..(p + q) : s[i].route \in {"clean", "masked"} /\ (s[i].route = "clean" <=> i <= p)
  BY BothRouteRowsAre
<1>3. b = [i \in DOMAIN dual |-> row(i)]
  <2>1. b = LET x == RouteRows(c, "clean", c.clean)
                y == RouteRows(c, "masked", c.masked)
                d == Select(x \o y, RoundRobinIndices(Len(x), Len(y)))
            IN  [i \in DOMAIN d |->
                   [uid  |-> <<d[i].prompt, d[i].route>>,
                    out  |-> [prompt |-> d[i].prompt, route |-> d[i].route, order |-> i],
                    logp |-> 0]]
    BY DEF BuildDualRouteBatch, RouteRows
  <2> QED BY <1>2, <2>1 DEF BothRouteRows
<1>4. Lists(idx, 1..n) /\ DOMAIN idx = 1..n /\ \A i \in 1..n : idx[i] \in 1..n
  <2>1. Lists(idx, 1..n)
    BY <1>1, RoundRobinLists
  <2> HIDE DEF idx
  <2>2. Cardinality(1..n) = Len(idx) /\ DOMAIN idx = 1..Len(idx)
    BY <2>1, ListsCard
  <2>3. Cardinality(1..n) = n
    BY <1>1, FS_Interval
  <2>4. idx \in Seq(1..n)
    BY <2>1 DEF Lists
  <2> QED BY <2>1, <2>2, <2>3, <2>4
<1> HIDE DEF idx, p, q, n, s
<1>5. DOMAIN dual = 1..n /\ \A i \in 1..n : dual[i] = s[idx[i]]
  BY <1>4 DEF Select
<1> HIDE DEF dual
<1>6. b = [i \in 1..n |-> row(i)]
  BY <1>3, <1>5
<1> HIDE DEF b
<1>7. ASSUME NEW i \in 1..n
      PROVE  /\ b[i].uid = <<b[i].out.prompt, b[i].out.route>> /\ b[i].out.order = i
             /\ b[i].out.route = dual[i].route
  <2>1. b[i] = row(i)
    BY <1>6
  <2> DEFINE x == dual[i].prompt
             y == dual[i].route
  <2>2. b[i] = [uid |-> <<x, y>>, out |-> [prompt |-> x, route |-> y, order |-> i], logp |-> 0]
    BY <2>1
  <2> HIDE DEF x, y
  <2>3. b[i].out = [prompt |-> x, route |-> y, order |-> i] /\ b[i].uid = <<x, y>>
    BY <2>2
  <2>4. b[i].out.prompt = x /\ b[i].out.route = y /\ b[i].out.order = i
    BY <2>3
  <2> QED BY <2>3, <2>4 DEF y
<1>8. ASSUME NEW i \in 1..n
      PROVE  /\ b[i].out.route \in {"clean", "masked"}
             /\ (b[i].out.route = "clean" <=> idx[i] <= p)
  <2>1. idx[i] \in 1..(p + q) /\ dual[i] = s[idx[i]]
    BY <1>1, <1>4, <1>5
  <2> QED BY <1>2, <1>7, <2>1
<1>9. DOMAIN b = 1..n /\ b = [i \in 1..n |-> b[i]]
  BY <1>6
<1>10. BatchShape(b, n)
  <2>1. b \in [1..n -> {b[i] : i \in 1..n}]
    BY <1>9
  <2> QED BY <1>1, <1>9, <2>1 DEF BatchShape
<1>11. OwnUid(b) /\ RoutesKnown(b)
  BY <1>7, <1>8, <1>9, TwoRoutes DEF OwnUid, RoutesKnown
<1>12. Cardinality(RouteSet(b, "clean")) = p
  <2>1. RouteSet(b, "clean") = PlacesOf(1..p, idx)
    <3>1. \A i \in 1..n : idx[i] \in 1..p <=> idx[i] <= p
      BY <1>1, <1>4
    <3> QED BY <1>4, <1>8, <1>9, <3>1 DEF RouteSet, PlacesOf
  <2>2. 1..p \in SUBSET (1..n)
    BY <1>1
  <2>3. Cardinality(1..p) = p
    BY <1>1, FS_Interval
  <2> DEFINE A == 1..p
             S == 1..n
  <2>4. A \in SUBSET S /\ Lists(idx, S)
    BY <1>4, <2>2
  <2> HIDE DEF A, S
  <2>5. Cardinality(PlacesOf(A, idx)) = Cardinality(A)
    BY <2>4, PlacesOfSubset
  <2> QED BY <2>1, <2>3, <2>5 DEF A
<1>13. Cardinality(RouteSet(b, "masked")) = q
  <2>1. RouteSet(b, "masked") = PlacesOf((p + 1)..n, idx)
    <3>1. \A i \in 1..n : idx[i] \in (p + 1)..n <=> ~(idx[i] <= p)
      BY <1>1, <1>4
    <3> QED BY <1>4, <1>8, <1>9, <3>1 DEF RouteSet, PlacesOf
  <2>2. (p + 1)..n \in SUBSET (1..n)
    BY <1>1
  <2>3. Cardinality((p + 1)..n) = q
    <3>1. p + 1 \in Int /\ n \in Int /\ n - (p + 1) + 1 = q
      BY <1>1
    <3> QED BY <1>1, <3>1, FS_Interval
  <2> DEFINE A == (p + 1)..n
             S == 1..n
  <2>4. A \in SUBSET S /\ Lists(idx, S)
    BY <1>4, <2>2
  <2> HIDE DEF A, S
  <2>5. Cardinality(PlacesOf(A, idx)) = Cardinality(A)
    BY <2>4, PlacesOfSubset
  <2> QED BY <2>1, <2>3, <2>5 DEF A
<1> QED BY <1>7, <1>8, <1>9, <1>10, <1>11, <1>12, <1>13 DEF b, n, p, q, idx

-----------------------------------------------------------------------------
(* The rows a route-aware balancer deals out.                                 *)

IsRow(x) == x = [uid |-> x.uid, out |-> x.out, logp |-> x.logp]

Orders(b) == [i \in DOMAIN b |-> b[i].out.order]

\* The driver's rows: each row of the step once.
BatchOk(b, c) ==
  /\ BatchShape(b, Rows(c)) /\ OwnUid(b) /\ RoutesKnown(b)
  /\ \A i \in DOMAIN b : IsRow(b[i])
  /\ Lists(Orders(b), 1..Rows(c))
  /\ Cardinality(RouteSet(b, "clean")) = c.prompts * c.clean
  /\ Cardinality(RouteSet(b, "masked")) = c.prompts * c.masked

LEMMA InitialBatchOk ==
  ASSUME NEW c \in Configs
  PROVE  BatchOk(BuildDualRouteBatch(c), c)
<1> DEFINE b == BuildDualRouteBatch(c)
           n == Rows(c)
<1>1. /\ BatchShape(b, n) /\ OwnUid(b) /\ RoutesKnown(b) /\ \A i \in 1..n : b[i].out.order = i
      /\ Cardinality(RouteSet(b, "clean")) = c.prompts * c.clean
      /\ Cardinality(RouteSet(b, "masked")) = c.prompts * c.masked
  BY InitialBatch
<1>2. \A i \in DOMAIN b : IsRow(b[i])
  BY DEF BuildDualRouteBatch, IsRow
<1>3. n \in Nat
  BY ConfigFacts
<1> HIDE DEF b, n
<1>4. Lists(Orders(b), 1..n)
  <2> DEFINE o == Orders(b)
  <2>1. DOMAIN b = 1..n
    BY <1>1 DEF BatchShape
  <2>2. o = [i \in 1..n |-> i]
    BY <1>1, <2>1 DEF Orders
  <2> HIDE DEF o
  <2>3. o \in Seq(1..n) /\ DOMAIN o = 1..n /\ \A i \in 1..n : o[i] = i
    BY <1>3, <2>2
  <2>4. Lists(o, 1..n)
    BY <2>3 DEF Lists
  <2> QED BY <2>4 DEF o
<1> QED BY <1>1, <1>2, <1>4 DEF BatchOk, b, n

\* Permuting the rows keeps each once.
LEMMA PermutedBatchOk ==
  ASSUME NEW c \in Configs, NEW b, BatchOk(b, c), NEW idx, Lists(idx, 1..Rows(c))
  PROVE  BatchOk(Select(b, idx), c)
<1> DEFINE n == Rows(c)
           v == Select(b, idx)
<1>0. n \in Nat
  BY ConfigFacts
<1> HIDE DEF n
<1>1. BatchShape(b, n) /\ OwnUid(b) /\ RoutesKnown(b) /\ Lists(Orders(b), 1..n)
      /\ \A i \in DOMAIN b : IsRow(b[i])
  BY DEF BatchOk, n
<1>2. DOMAIN idx = 1..n /\ \A i \in 1..n : idx[i] \in 1..n
  <2>1. IsFiniteSet(1..n) /\ Cardinality(1..n) = n
    <3>1. n \in Int /\ 1 \in Int /\ (1 > n => n = 0) /\ (~(1 > n) => n - 1 + 1 = n)
      BY <1>0
    <3>2. IsFiniteSet(1..n) /\ Cardinality(1..n) = IF 1 > n THEN 0 ELSE n - 1 + 1
      BY <3>1, FS_Interval
    <3> QED BY <3>1, <3>2
  <2>2. Cardinality(1..n) = Len(idx) /\ DOMAIN idx = 1..Len(idx) /\ idx \in Seq(1..n)
    BY ListsCard DEF n, Lists
  <2>3. \A i \in DOMAIN idx : idx[i] \in 1..n
    BY <2>2, SeqElements
  <2> QED BY <2>1, <2>2, <2>3
<1>3. DOMAIN b = 1..n
  BY <1>1 DEF BatchShape
<1>4. v = [i \in 1..n |-> b[idx[i]]] /\ DOMAIN v = 1..n /\ \A i \in 1..n : v[i] = b[idx[i]]
  BY <1>2 DEF Select
<1> HIDE DEF v
<1>5. BatchShape(v, n)
  <2> DEFINE T == {v[i] : i \in 1..n}
  <2>1. v \in [1..n -> T]
    BY <1>4
  <2> HIDE DEF T
  <2>2. v \in Seq(T) /\ Len(v) = n
    BY <1>0, <2>1
  <2> QED BY <1>4, <2>2 DEF BatchShape, T
<1>6. OwnUid(v) /\ RoutesKnown(v) /\ \A i \in DOMAIN v : IsRow(v[i])
  <2>1. \A i \in 1..n : IsRow(v[i])
    BY <1>1, <1>2, <1>3, <1>4
  <2>2. OwnUid(v)
    BY <1>1, <1>2, <1>3, <1>4 DEF OwnUid
  <2>3. RoutesKnown(v)
    BY <1>1, <1>2, <1>3, <1>4 DEF RoutesKnown
  <2> QED BY <1>4, <2>1, <2>2, <2>3
<1>7. Lists(Orders(v), 1..n)
  <2> DEFINE o == Orders(b)
  <2>1. o = [i \in 1..n |-> b[i].out.order] /\ DOMAIN o = 1..n
    BY <1>3 DEF Orders
  <2>2. Orders(v) = Select(o, idx)
    <3>1. Orders(v) = [i \in 1..n |-> v[i].out.order]
      BY <1>4 DEF Orders
    <3>2. \A i \in 1..n : v[i].out.order = o[idx[i]]
      BY <1>2, <1>4, <2>1
    <3> HIDE DEF o
    <3> QED BY <1>2, <3>1, <3>2 DEF Select
  <2> HIDE DEF o
  <2>3. Lists(o, 1..n)
    BY <1>1 DEF o
  <2>4. \A i \in DOMAIN o : o[i] \in 1..n
    <3>1. o \in Seq(1..n)
      BY <2>3 DEF Lists
    <3> QED BY <3>1, SeqElements
  <2>5. Into(o, 1..n, 1..n) /\ OneToOne(o, 1..n)
    BY <2>1, <2>3, <2>4 DEF Into, OneToOne, Lists
  <2>6. ElementsAt(o, 1..n) = 1..n
    <3>1. \A x \in 1..n : \E i \in 1..n : o[i] = x
      BY <2>1, <2>3 DEF Lists
    <3>2. \A x \in ElementsAt(o, 1..n) : x \in 1..n
      BY <2>1, <2>4 DEF ElementsAt
    <3>3. \A x \in 1..n : x \in ElementsAt(o, 1..n)
      BY <3>1 DEF ElementsAt
    <3> QED BY <3>2, <3>3
  <2>7. Lists(Select(o, idx), ElementsAt(o, 1..n))
    BY <2>5, SelectLists DEF n
  <2> QED BY <2>2, <2>6, <2>7
<1>8. ASSUME NEW route
      PROVE  Cardinality(RouteSet(v, route)) = Cardinality(RouteSet(b, route))
  <2> DEFINE A == RouteSet(b, route)
  <2>1. A \in SUBSET (1..n)
    BY <1>3 DEF RouteSet
  <2>2. RouteSet(v, route) = PlacesOf(A, idx)
    BY <1>2, <1>3, <1>4 DEF RouteSet, PlacesOf
  <2> HIDE DEF A
  <2>3. Cardinality(PlacesOf(A, idx)) = Cardinality(A)
    BY <2>1, PlacesOfSubset DEF n
  <2> QED BY <2>2, <2>3 DEF A
<1>9. /\ Cardinality(RouteSet(v, "clean")) = c.prompts * c.clean
      /\ Cardinality(RouteSet(v, "masked")) = c.prompts * c.masked
  BY <1>8 DEF BatchOk
<1> QED BY <1>5, <1>6, <1>7, <1>9 DEF BatchOk, n, v

-----------------------------------------------------------------------------
(* Rollout: what the collected ranks return, joined, is in the order sent.    *)

LEMMA WorldDivides ==
  ASSUME NEW c \in Configs
  PROVE  LET m == c.world \div c.tp
             size == Rows(c) \div m
         IN  /\ m \in Nat \ {0} /\ size \in Nat /\ c.world = c.tp * m /\ Rows(c) = m * size
             /\ c.world * (Rows(c) \div c.world) = Rows(c) /\ Rows(c) \div c.world \in Nat
<1> DEFINE m == c.world \div c.tp
           n == Rows(c)
           q == n \div c.world
           tp == c.tp
           world == c.world
<1>1. tp \in Nat \ {0} /\ world \in Nat \ {0} /\ n \in Nat /\ world % tp = 0 /\ n % world = 0
  BY ConfigFacts
<1> HIDE DEF n, tp, world
<1>2. world = tp * (world \div tp) + (world % tp) /\ world \div tp \in Int
  BY <1>1, DivFacts
<1>3. n = world * (n \div world) + (n % world) /\ n \div world \in Int
  BY <1>1, DivFacts
<1>4. m = world \div tp /\ q = n \div world
  BY DEF tp, world
<1> HIDE DEF m, q
<1>5. world = tp * m /\ m \in Int /\ n = world * q /\ q \in Int
  <2>1. tp * m \in Int /\ world * q \in Int
    BY <1>1, <1>2, <1>3, <1>4
  <2> QED BY <1>1, <1>2, <1>3, <1>4, <2>1
<1>6. m \in Nat \ {0}
  <2>1. SUFFICES ASSUME m < 1 PROVE FALSE
    BY <1>5
  <2>2. m = 0 \/ m < 0
    BY <1>5, <2>1
  <2>3. CASE m = 0
    BY <1>1, <1>5, <2>3
  <2>4. CASE m < 0
    <3>1. tp * m + tp <= tp * 0
      BY <1>1, <1>5, <2>4, MulMono
    <3>2. tp * m \in Int
      BY <1>1, <1>5
    <3> QED BY <1>1, <1>5, <3>1, <3>2
  <2> QED BY <2>2, <2>3, <2>4
<1>7. q \in Nat
  <2>1. SUFFICES ASSUME q < 0 PROVE FALSE
    BY <1>5
  <2>2. world * q + world <= world * 0
    BY <1>1, <1>5, <2>1, MulMono
  <2>3. world * q \in Int
    BY <1>1, <1>5
  <2> QED BY <1>1, <1>5, <2>2, <2>3
<1>8. n = m * (tp * q) /\ tp * q \in Nat
  BY <1>1, <1>5, <1>6, <1>7
<1>9. n \div m = tp * q
  <2> DEFINE z == tp * q
  <2>1. z \in Nat /\ n = m * z
    BY <1>8
  <2> HIDE DEF z
  <2>2. (m * z) \div m = z
    BY <1>6, <2>1, ExactDiv
  <2> QED BY <2>1, <2>2 DEF z
<1> QED BY <1>5, <1>6, <1>7, <1>8, <1>9 DEF m, n, q, tp, world

LEMMA CollectedInOrder ==
  ASSUME config \in Configs, BatchShape(batch, Rows(config)), RoutesKnown(batch),
         \A i \in 1..Rows(config) : batch[i].out.order = i
  PROVE  Collected = [i \in 1..Rows(config) |-> batch[i].out]
<1> DEFINE n == Rows(config)
           d == config.tp
           world == config.world
           m == world \div d
           size == n \div m
           o == [i \in 1..n |-> batch[i].out]
           T == {batch[i].out : i \in 1..n}
           f == [r \in 1..world |-> IF (r - 1) % d = 0 THEN DualOutput(RolloutShard(r)) ELSE <<>>]
<1>1. /\ m \in Nat \ {0} /\ size \in Nat /\ world = d * m /\ n = m * size /\ n \in Nat
      /\ d \in Nat \ {0} /\ world \in Nat \ {0}
  BY WorldDivides, ConfigFacts
<1>2. Collected = FlattenSeq(f)
  BY DEF Collected, IsCollect, Ranks
<1>3. o \in Seq(T) /\ Len(o) = n /\ DOMAIN o = 1..n /\ \A i \in 1..n : o[i] = batch[i].out
  <2>1. o \in [1..n -> T]
    OBVIOUS
  <2> HIDE DEF T
  <2>2. DOMAIN o = 1..n /\ \A i \in 1..n : o[i] = batch[i].out
    OBVIOUS
  <2> HIDE DEF o, n
  <2> QED BY <1>1, <2>1, <2>2
<1>4. batch \in Seq({batch[i] : i \in 1..n}) /\ Len(batch) = n
  BY DEF BatchShape
<1>s. \A r : RolloutShard(r) = SubSeq(batch, (((r - 1) \div d + 1) - 1) * (Len(batch) \div m) + 1,
                                      ((r - 1) \div d + 1) * (Len(batch) \div m))
  BY DEF RolloutShard, Chunk, RolloutRank
<1> HIDE DEF f, m, size, o, T, world, d
<1>5. ASSUME NEW r \in 1..world, (r - 1) % d = 0
      PROVE  DualOutput(RolloutShard(r)) = SubSeq(o, ((r - 1) \div d) * size + 1, ((r - 1) \div d + 1) * size)
  <2> DEFINE g == (r - 1) \div d
             a == g * size
             b == (g + 1) * size
             rows == RolloutShard(r)
             S == {batch[i] : i \in 1..n}
  <2>1. r - 1 = d * g /\ g \in Int
    <3>1. r - 1 \in Int /\ d \in Nat \ {0}
      BY <1>1
    <3>2. r - 1 = d * ((r - 1) \div d) + ((r - 1) % d) /\ (r - 1) \div d \in Int
      BY <3>1, DivFacts
    <3>3. d * g \in Int
      BY <1>1, <3>2
    <3> QED BY <1>5, <3>1, <3>2, <3>3
  <2> HIDE DEF g
  <2>2. 0 <= g /\ g < m
    <3>1. 0 <= r - 1 /\ r - 1 < world
      BY <1>1
    <3>2. g >= 0
      <4>1. SUFFICES ASSUME g < 0 PROVE FALSE
        BY <2>1
      <4>2. d * g + d <= d * 0
        BY <1>1, <2>1, <4>1, MulMono
      <4>3. d * g \in Int
        BY <1>1, <2>1
      <4> QED BY <1>1, <2>1, <3>1, <4>2, <4>3
    <3>3. g < m
      <4>1. SUFFICES ASSUME ~(g < m) PROVE FALSE
        OBVIOUS
      <4>2. g = m \/ m < g
        BY <1>1, <2>1, <4>1
      <4>3. d * m <= d * g
        <5>1. CASE g = m
          <6>1. d * m \in Int
            BY <1>1
          <6> QED BY <5>1, <6>1
        <5>2. CASE m < g
          <6>1. d * m + d <= d * g
            BY <1>1, <2>1, <5>2, MulMono
          <6>2. d * m \in Int /\ d * g \in Int
            BY <1>1, <2>1
          <6> QED BY <1>1, <6>1, <6>2
        <5> QED BY <4>2, <5>1, <5>2
      <4>4. d * g \in Int /\ d * m \in Int
        BY <1>1, <2>1
      <4> QED BY <1>1, <2>1, <3>1, <4>3, <4>4
    <3> QED BY <3>2, <3>3
  <2>3. a \in Nat /\ b \in Nat /\ b = a + size /\ b <= n
    <3>1. g \in Nat /\ a \in Nat /\ b \in Nat /\ b = a + size
      BY <1>1, <2>1, <2>2
    <3>2. (g + 1) * size <= m * size
      <4>1. CASE size = 0
        BY <1>1, <3>1, <4>1
      <4>2. CASE size # 0
        <5>1. size \in Nat \ {0} /\ g \in Int /\ m \in Int
          BY <1>1, <2>1, <4>2
        <5>2. size * g + size <= size * m
          BY <2>2, <5>1, MulMono
        <5>3. size * g + size = (g + 1) * size /\ size * m = m * size
          BY <5>1
        <5> QED BY <5>2, <5>3
      <4> QED BY <4>1, <4>2
    <3> QED BY <1>1, <3>1, <3>2
  <2>4. rows = SubSeq(batch, a + 1, b)
    <3>1. Len(batch) \div m = size
      BY <1>4 DEF size
    <3>2. (g + 1) - 1 = g
      BY <2>1
    <3> QED BY <1>s, <3>1, <3>2 DEF g
  <2> HIDE DEF a, b, rows, S
  <2>5. /\ DOMAIN rows = 1..(b - a)
        /\ \A i \in 1..(b - a) : a + i \in 1..n /\ rows[i] = batch[a + i]
    <3>1. batch \in Seq(S) /\ a <= b /\ b <= Len(batch)
      BY <1>1, <1>4, <2>3 DEF S
    <3> QED BY <1>4, <2>3, <2>4, <3>1, SlicePoint, SMTT(30)
  <2>6. b - a \in Nat
    BY <1>1, <2>3
  <2>7. \A i \in 1..(b - a) : rows[i].out.order = a + i /\ rows[i].out.route \in Range(Routes)
                              /\ rows[i].out = o[a + i]
    <3>1. DOMAIN batch = 1..n
      BY DEF BatchShape
    <3> QED BY <1>3, <2>5, <3>1 DEF RoutesKnown
  <2>8. RoutesKnown(rows)
    BY <2>5, <2>7 DEF RoutesKnown
  <2>9. Grows(rows)
    <3>1. \A i, j \in 1..(b - a) : i < j => a + i < a + j
      BY <2>3
    <3>2. \A i \in 1..(b - a) : a + i \in Int
      BY <2>3
    <3> QED BY <2>5, <2>7, <3>1, <3>2 DEF Grows
  <2>10. DualOutput(rows) = [i \in 1..(b - a) |-> rows[i].out]
    BY <2>5, <2>6, <2>8, <2>9, DualOutputInOrder
  <2> DEFINE u == SubSeq(o, a + 1, b)
  <2>11. /\ u \in Seq(T) /\ DOMAIN u = 1..(b - a)
         /\ \A i \in 1..(b - a) : u[i] = o[a + i]
    <3>1. a <= b /\ b <= Len(o)
      BY <1>1, <1>3, <2>3
    <3> QED BY <1>3, <2>3, <3>1, SlicePoint
  <2> HIDE DEF u
  <2>12. u = [i \in 1..(b - a) |-> u[i]]
    <3>1. u \in [1..Len(u) -> T]
      BY <2>11
    <3> QED BY <2>11, <3>1
  <2>13. u = [i \in 1..(b - a) |-> rows[i].out]
    BY <2>7, <2>11, <2>12
  <2>14. DualOutput(rows) = u
    BY <2>10, <2>13
  <2> QED BY <2>14 DEF rows, u, a, b, g
<1>6. GroupChunks(f, o, world, d, size)
  BY <1>5 DEF GroupChunks, f
<1>7. Len(o) = m * size
  BY <1>1, <1>3
<1>8. FlattenSeq(f) = o
  BY <1>1, <1>3, <1>6, <1>7, JoinChunks
<1> QED BY <1>2, <1>8 DEF o

-----------------------------------------------------------------------------
(* Route-aware balancing.                                                     *)

LEMMA RowWorkIs ==
  ASSUME config \in Configs, BatchOk(batch, config), lens \in [1..Rows(config) -> config.lens]
  PROVE  /\ DOMAIN RowWork = 1..Rows(config) /\ NatOn(RowWork, 1..Rows(config))
         /\ \A i \in 1..Rows(config) : /\ batch[i].out.order \in 1..Rows(config)
                                       /\ lens[batch[i].out.order] \in config.lens
                                       /\ RowWork[i] = Workload(lens[batch[i].out.order])
<1> DEFINE n == Rows(config)
           o == Orders(batch)
<1>1. DOMAIN batch = 1..n /\ Lists(o, 1..n)
  BY DEF BatchOk, BatchShape
<1>2. o = [i \in 1..n |-> batch[i].out.order] /\ DOMAIN o = 1..n
  BY <1>1 DEF Orders
<1>3. RowWork = [i \in 1..n |-> Workload(lens[batch[i].out.order])]
  BY <1>1 DEF RowWork
<1>4. \A x \in config.lens : x \in Nat
  BY ConfigFacts
<1> HIDE DEF n
<1>5. \A i \in 1..n : o[i] \in 1..n
  <2> HIDE DEF o
  <2>1. o \in Seq(1..n)
    BY <1>1 DEF Lists
  <2> QED BY <1>2, <2>1, SeqElements
<1>6. \A i \in 1..n : batch[i].out.order \in 1..n
  BY <1>2, <1>5
<1> HIDE DEF o
<1>7. \A i \in 1..n : lens[batch[i].out.order] \in config.lens
  BY <1>6 DEF n
<1>8. \A i \in 1..n : Workload(lens[batch[i].out.order]) \in Nat
  BY <1>4, <1>7, WorkloadNat
<1> QED BY <1>3, <1>6, <1>7, <1>8 DEF NatOn, n

RouteWork(route) == Select(RowWork, RowsOfRoute(batch, route))

DealtLevel(f, k, route) ==
  /\ \E size \in Nat : \A r \in 1..k : Len(f[r]) = size
  /\ \A d \in Int : Within(InitialStates(RouteWork(route), k, TRUE), k, d) =>
       \A p, r \in 1..k : Sum(RowWork, Range(f[p])) - Sum(RowWork, Range(f[r])) <= d

LEMMA RouteCount ==
  ASSUME NEW c \in Configs, NEW b, BatchOk(b, c), NEW route \in Range(Routes)
  PROVE  Cardinality(RouteSet(b, route)) \in Nat \ {0} /\ Len(RowsOfRoute(b, route)) \in Nat \ {0}
<1>1. Cardinality(RouteSet(b, route)) \in Nat \ {0}
  <2>1. route = "clean" \/ route = "masked"
    BY TwoRoutes
  <2> QED BY <2>1, ConfigFacts DEF BatchOk
<1>2. DOMAIN b = 1..Rows(c) /\ Rows(c) \in Nat
  BY ConfigFacts DEF BatchOk, BatchShape
<1>3. Len(RowsOfRoute(b, route)) = Cardinality(RouteSet(b, route))
  BY <1>2, RouteListed
<1> QED BY <1>1, <1>3

LEMMA RoutePartitionIs ==
  ASSUME config \in Configs, BatchOk(batch, config), lens \in [1..Rows(config) -> config.lens],
         NEW route \in Range(Routes), QuotaDivides(route)
  PROVE  /\ DOMAIN RoutePartition(route) = 1..config.world
         /\ PartitionsOf(RoutePartition(route), config.world, RouteSet(batch, route))
         /\ DealtLevel(RoutePartition(route), config.world, route)
<1> DEFINE n == Rows(config)
           k == config.world
           rows == RowsOfRoute(batch, route)
           R == RouteSet(batch, route)
           w == RouteWork(route)
           l == Len(rows)
           parts == BalancedPartitions(w, k, TRUE)
           f == RoutePartition(route)
           v == RowWork
<1>1. n \in Nat /\ k \in Nat \ {0} /\ DOMAIN batch = 1..n
  BY ConfigFacts DEF BatchOk, BatchShape
<1>2. NatOn(v, 1..n)
  BY RowWorkIs
<1>3. /\ R \in SUBSET (1..n) /\ Lists(rows, R) /\ rows \in Seq(1..n) /\ DOMAIN rows = 1..l
      /\ \A i \in DOMAIN rows : rows[i] \in R
  BY <1>1, RouteListed
<1>4. l \in Nat \ {0} /\ l % k = 0
  BY RouteCount DEF QuotaDivides
<1>5. w = [i \in 1..l |-> v[rows[i]]]
  BY <1>3 DEF RouteWork, Select
<1>6. f = [r \in 1..k |-> Select(rows, parts[r])]
  BY DEF RoutePartition, Ranks, RouteWork
<1> HIDE DEF n, k, rows, R, w, l, parts, f, v
<1>7. Weights(w, l) /\ Len(w) = l
  <2>1. \A i \in 1..l : rows[i] \in 1..n
    BY <1>3
  <2>2. \A i \in 1..l : w[i] \in Nat
    BY <1>2, <1>5, <2>1 DEF NatOn
  <2>3. DOMAIN w = 1..l
    BY <1>5
  <2>4. w \in [1..l -> Nat]
    BY <1>5, <2>2, <2>3
  <2>5. Len(w) = l
    BY <1>4, <2>4
  <2> QED BY <1>4, <2>2, <2>3, <2>5 DEF Weights, NatOn
<1> DEFINE q == l \div k
<1>8. l = k * q /\ q \in Nat \ {0}
  <2>1. l = k * (l \div k) + (l % k) /\ q \in Int
    BY <1>1, <1>4, DivFacts
  <2>2. k * q \in Int
    BY <1>1, <2>1
  <2>3. l = k * q
    BY <1>4, <2>1, <2>2
  <2> HIDE DEF q
  <2>4. q > 0
    <3>1. SUFFICES ASSUME ~(q > 0) PROVE FALSE
      OBVIOUS
    <3>2. q = 0 \/ q < 0
      BY <2>1, <3>1
    <3>3. CASE q = 0
      BY <1>1, <1>4, <2>3, <3>3
    <3>4. CASE q < 0
      <4>1. k * q + k <= k * 0
        BY <1>1, <2>1, <3>4, MulMono
      <4> QED BY <1>1, <1>4, <2>2, <2>3, <4>1
    <3> QED BY <3>2, <3>3, <3>4
  <2> QED BY <2>1, <2>3, <2>4
<1> HIDE DEF q
<1>9. /\ PartitionOf(parts, l, k) /\ \E size \in Nat : \A p \in 1..k : Len(parts[p]) = size
      /\ \A d \in Int : Within(InitialStates(w, k, TRUE), k, d) =>
           \A p, r \in 1..k : Sum(w, Range(parts[p])) - Sum(w, Range(parts[r])) <= d
  BY <1>1, <1>7, <1>8, LevelPartitionIs DEF parts
<1>10. DOMAIN f = 1..k /\ \A p \in 1..k : f[p] = Select(rows, parts[p])
  BY <1>6
<1>11. /\ PartitionsOf(f, k, R)
       /\ \A p \in 1..k : Len(f[p]) = Len(parts[p]) /\ Range(f[p]) = ElementsAt(rows, Range(parts[p]))
  <2>1. PartitionOf(parts, Len(rows), k)
    BY <1>9 DEF l
  <2> QED BY <1>1, <1>3, <1>10, <2>1, SelectPartition
<1>12. \E size \in Nat : \A r \in 1..k : Len(f[r]) = size
  BY <1>9, <1>11
<1>13. \A p \in 1..k : Sum(w, Range(parts[p])) = Sum(v, Range(f[p]))
  <2>1. ASSUME NEW p \in 1..k PROVE Sum(w, Range(parts[p])) = Sum(v, Range(f[p]))
    <3> DEFINE A == Range(parts[p])
    <3>1. parts[p] \in Seq(1..l)
      <4>1. parts \in Seq(Seq(1..l)) /\ DOMAIN parts = 1..k
        BY <1>9 DEF PartitionOf
      <4> QED BY <4>1, SeqElements
    <3>2. A \in SUBSET (1..l)
      <4>1. \A i \in DOMAIN parts[p] : parts[p][i] \in 1..l
        BY <3>1, SeqElements
      <4> QED BY <4>1 DEF Range
    <3> HIDE DEF A
    <3>3. IsFiniteSet(A)
      <4>1. l \in Int /\ 1 \in Int
        BY <1>4
      <4>2. IsFiniteSet(1..l)
        BY <4>1, FS_Interval
      <4> QED BY <3>2, <4>2, FS_Subset
    <3>4. OneToOne(rows, A)
      BY <1>3, <3>2 DEF OneToOne, Lists
    <3>5. IntOn(w, A) /\ \A i \in A : w[i] = v[rows[i]]
      <4>1. \A i \in 1..l : w[i] \in Int /\ w[i] = v[rows[i]]
        BY <1>5, <1>7 DEF Weights, NatOn
      <4> QED BY <3>2, <4>1 DEF IntOn
    <3>6. Sum(w, A) = Sum(v, ElementsAt(rows, A))
      BY <3>3, <3>4, <3>5, SumImage
    <3> QED BY <1>11, <3>6 DEF A
  <2> QED BY <2>1
<1>14. DealtLevel(f, k, route)
  BY <1>9, <1>12, <1>13 DEF DealtLevel, w, v
<1> QED BY <1>10, <1>11, <1>14 DEF f, k, R

\* What the balancer deals each rank.
DealtRows(P, k, R, S) ==
  /\ \A r \in 1..k : P[r] \in SUBSET (R \cup S)
  /\ \A p, r \in 1..k : p # r => P[p] \cap P[r] = {}
  /\ \A i \in R \cup S : \E r \in 1..k : i \in P[r]

LEMMA DealtRowsAre ==
  ASSUME NEW k, NEW f, NEW g, NEW R, NEW S, PartitionsOf(f, k, R), PartitionsOf(g, k, S), R \cap S = {},
         NEW P, \A r \in 1..k : P[r] = Range(f[r]) \cup Range(g[r])
  PROVE  DealtRows(P, k, R, S)
<1>1. \A r \in 1..k : Range(f[r]) \in SUBSET R /\ Range(g[r]) \in SUBSET S
  <2>1. ASSUME NEW r \in 1..k PROVE Range(f[r]) \in SUBSET R /\ Range(g[r]) \in SUBSET S
    <3>1. f[r] \in Seq(R) /\ g[r] \in Seq(S)
      BY DEF PartitionsOf
    <3>2. (\A i \in DOMAIN f[r] : f[r][i] \in R) /\ (\A i \in DOMAIN g[r] : g[r][i] \in S)
      BY <3>1, SeqElements
    <3> QED BY <3>2 DEF Range
  <2> QED BY <2>1
<1>2. \A p, r \in 1..k : p # r => P[p] \cap P[r] = {}
  <2>1. ASSUME NEW p \in 1..k, NEW r \in 1..k, p # r PROVE P[p] \cap P[r] = {}
    <3>1. Range(f[p]) \cap Range(f[r]) = {} /\ Range(g[p]) \cap Range(g[r]) = {}
      BY <2>1 DEF PartitionsOf
    <3>2. /\ Range(f[p]) \in SUBSET R /\ Range(f[r]) \in SUBSET R
          /\ Range(g[p]) \in SUBSET S /\ Range(g[r]) \in SUBSET S
      BY <1>1
    <3>3. P[p] = Range(f[p]) \cup Range(g[p]) /\ P[r] = Range(f[r]) \cup Range(g[r])
      OBVIOUS
    <3> QED BY <3>1, <3>2, <3>3
  <2> QED BY <2>1
<1>3. \A r \in 1..k : P[r] \in SUBSET (R \cup S)
  BY <1>1
<1>4. \A i \in R \cup S : \E r \in 1..k : i \in P[r]
  <2>1. (\A i \in R : \E r \in 1..k : i \in Range(f[r])) /\ (\A i \in S : \E r \in 1..k : i \in Range(g[r]))
    BY DEF PartitionsOf
  <2> QED BY <2>1
<1> QED BY <1>2, <1>3, <1>4 DEF DealtRows

Deal == [r \in Ranks |-> InShard(PartitionOfRanks[r])]

BothRoutes(b) == RouteSet(b, "clean") \cup RouteSet(b, "masked")

LEMMA BothRoutesAre ==
  ASSUME NEW c \in Configs, NEW b, BatchOk(b, c)
  PROVE  /\ RouteSet(b, "clean") \cap RouteSet(b, "masked") = {} /\ BothRoutes(b) = 1..Rows(c)
         /\ Rows(c) \in Nat /\ IsFiniteSet(1..Rows(c))
<1> DEFINE n == Rows(c)
<1>1. DOMAIN b = 1..n /\ n \in Nat /\ RoutesKnown(b)
  BY ConfigFacts DEF BatchOk, BatchShape
<1> HIDE DEF n
<1>2. RouteSet(b, "clean") \cap RouteSet(b, "masked") = {}
  BY TwoRoutes DEF RouteSet
<1>3. \A i \in 1..n : b[i].out.route \in {"clean", "masked"}
  BY <1>1, TwoRoutes DEF RoutesKnown
<1>4. BothRoutes(b) = 1..n
  BY <1>1, <1>3 DEF BothRoutes, RouteSet
<1>5. IsFiniteSet(1..n)
  BY <1>1, FS_Interval
<1> QED BY <1>1, <1>2, <1>4, <1>5 DEF n

LEMMA DealIs ==
  ASSUME config \in Configs, BatchOk(batch, config), lens \in [1..Rows(config) -> config.lens],
         \A k \in DOMAIN Routes : QuotaDivides(Routes[k])
  PROVE  /\ Deal \in Seq(Seq(1..Rows(config))) /\ DOMAIN Deal = 1..config.world
         /\ \A r \in 1..config.world :
              /\ PartitionOfRanks[r] \in SUBSET (1..Rows(config))
              /\ PartitionOfRanks[r] = Range(RoutePartition("clean")[r]) \cup Range(RoutePartition("masked")[r])
              /\ Lists(Deal[r], PartitionOfRanks[r])
         /\ Lists(FlattenSeq(Deal), 1..Rows(config))
<1> DEFINE n == Rows(config)
           k == config.world
           P == PartitionOfRanks
           f == RoutePartition("clean")
           g == RoutePartition("masked")
           R == RouteSet(batch, "clean")
           S == RouteSet(batch, "masked")
           D == Deal
<1>1. n \in Nat /\ k \in Nat \ {0} /\ R \cap S = {} /\ R \cup S = 1..n /\ IsFiniteSet(1..n)
  BY BothRoutesAre, ConfigFacts DEF BothRoutes
<1>2. PartitionsOf(f, k, R) /\ PartitionsOf(g, k, S)
  <2>1. "clean" \in Range(Routes) /\ "masked" \in Range(Routes) /\ QuotaDivides("clean") /\ QuotaDivides("masked")
    BY TwoRoutes
  <2> QED BY <2>1, RoutePartitionIs
<1>3. ASSUME NEW r \in 1..k PROVE P[r] = Range(f[r]) \cup Range(g[r])
  <2> DEFINE parts == [i \in DOMAIN Routes |-> RoutePartition(Routes[i])]
  <2>1. P[r] = UNION {Range(parts[i][r]) : i \in DOMAIN Routes}
    BY DEF PartitionOfRanks, Ranks
  <2>2. DOMAIN Routes = {1, 2} /\ parts[1] = f /\ parts[2] = g
    BY TwoRoutes
  <2> HIDE DEF parts, f, g, P
  <2> QED BY <2>1, <2>2
<1>4. NatOn(RowWork, 1..n)
  BY RowWorkIs
<1>5. D = [r \in 1..k |-> InShard(P[r])] /\ DOMAIN D = 1..k
  BY DEF Deal, Ranks
<1> HIDE DEF n, k, P, f, g, R, S, D
<1>6. DealtRows(P, k, R, S)
  BY <1>1, <1>2, <1>3, DealtRowsAre
<1>7. ASSUME NEW r \in 1..k
      PROVE  P[r] \in SUBSET (1..n) /\ Lists(D[r], P[r]) /\ D[r] \in Seq(1..n)
  <2> DEFINE A == P[r]
             sorted == ByWeight(RowWork, A)
  <2>1. A \in SUBSET (1..n)
    BY <1>1, <1>6 DEF DealtRows
  <2>2. D[r] = EveryOther(sorted) \o Reverse(TheOthers(sorted))
    BY <1>5 DEF InShard
  <2> HIDE DEF A
  <2>3. IsFiniteSet(A) /\ A \in SUBSET Int
    <3>1. IsFiniteSet(A)
      BY <1>1, <2>1, FS_Subset
    <3>2. A \in SUBSET Int
      BY <1>1, <2>1
    <3> QED BY <3>1, <3>2
  <2>4. \A i \in A : RowWork[i] \in Int
    <3>1. \A i \in 1..n : RowWork[i] \in Int
      BY <1>4 DEF NatOn
    <3> QED BY <2>1, <3>1
  <2>5. Lists(sorted, A)
    BY <2>3, <2>4, ByWeightLists
  <2> HIDE DEF sorted
  <2>6. Lists(D[r], A)
    BY <2>2, <2>5, ArrangedLists
  <2>7. D[r] \in Seq(1..n)
    <3>1. D[r] \in Seq(A)
      BY <2>6 DEF Lists
    <3> QED BY <2>1, <3>1, SeqWider
  <2> QED BY <2>1, <2>6, <2>7 DEF A
<1>8. D \in Seq(Seq(1..n))
  <2> DEFINE T == Seq(1..n)
  <2>1. \A r \in 1..k : D[r] \in T
    BY <1>7
  <2>2. D = [r \in 1..k |-> D[r]]
    BY <1>5
  <2> HIDE DEF T
  <2>3. D \in Seq(T)
    BY <1>1, <2>1, <2>2
  <2> QED BY <2>3 DEF T
<1>9. Lists(FlattenSeq(D), 1..n)
  <2>1. ListsEach(D, P)
    <3>1. \A i \in DOMAIN D : Lists(D[i], P[i])
      BY <1>5, <1>7
    <3>2. \A i, j \in DOMAIN D : i # j => P[i] \cap P[j] = {}
      BY <1>5, <1>6 DEF DealtRows
    <3> QED BY <3>1, <3>2 DEF ListsEach
  <2>2. Lists(FlattenSeq(D), UNION {P[i] : i \in DOMAIN D})
    BY <1>8, <2>1, FlattenLists
  <2>3. UNION {P[i] : i \in DOMAIN D} = 1..n
    <3>1. \A x \in UNION {P[i] : i \in DOMAIN D} : \E i \in 1..k : x \in P[i]
      BY <1>5
    <3>2. \A x \in 1..n : \E i \in 1..k : x \in P[i]
      BY <1>1, <1>6 DEF DealtRows
    <3>3. \A x \in UNION {P[i] : i \in DOMAIN D} : x \in 1..n
      BY <1>7, <3>1
    <3>4. \A x \in 1..n : x \in UNION {P[i] : i \in DOMAIN D}
      BY <1>5, <3>2
    <3> QED BY <3>3, <3>4
  <2> QED BY <2>2, <2>3
<1> QED BY <1>3, <1>5, <1>7, <1>8, <1>9 DEF n, k, P, f, g, D

-----------------------------------------------------------------------------
(* The driver's rows.                                                         *)

RowsInv ==
  /\ config \in Configs /\ BatchOk(batch, config)
  /\ pc = "generate" => batch = BuildDualRouteBatch(config)
  /\ pc \notin {"generate", "failed"} => lens \in [1..Rows(config) -> config.lens]

LEMMA RowsInvInit == Init => RowsInv
BY InitialBatchOk DEF Init, RowsInv

\* Joining what the rollout returned changes no row.
LEMMA GenerateKeeps ==
  ASSUME RowsInv, GenerateDual
  PROVE  RowsInv' /\ (pc' # "failed" => batch' = batch)
<1>1. config \in Configs /\ BatchOk(batch, config) /\ pc = "generate" /\ batch = BuildDualRouteBatch(config)
  BY DEF RowsInv, GenerateDual
<1>2. CASE ~(\A r \in Ranks : HasBothRoutes(RolloutShard(r)))
  <2>1. pc' = "failed" /\ UNCHANGED <<config, batch>>
    BY <1>2 DEF GenerateDual, Fail
  <2> QED BY <1>1, <2>1 DEF RowsInv
<1>3. CASE \A r \in Ranks : HasBothRoutes(RolloutShard(r))
  <2> DEFINE n == Rows(config)
             outs == Collected
  <2>1. /\ batch' = [i \in DOMAIN batch |-> [batch[i] EXCEPT !.out = outs[i]]]
        /\ lens' \in [DOMAIN batch -> config.lens] /\ config' = config
        /\ pc' \in {"balance", "log_prob"}
    BY <1>3 DEF GenerateDual
  <2>2. BatchShape(batch, n) /\ RoutesKnown(batch) /\ \A i \in DOMAIN batch : IsRow(batch[i])
    BY <1>1 DEF BatchOk
  <2>3. \A i \in 1..n : batch[i].out.order = i
    BY <1>1, InitialBatch
  <2>4. outs = [i \in 1..n |-> batch[i].out]
    BY <1>1, <2>2, <2>3, CollectedInOrder
  <2>5. DOMAIN batch = 1..n /\ batch \in Seq({batch[i] : i \in 1..n})
    BY <2>2 DEF BatchShape
  <2> HIDE DEF n, outs
  <2>6. \A i \in 1..n : [batch[i] EXCEPT !.out = outs[i]] = batch[i]
    <3>1. ASSUME NEW i \in 1..n PROVE [batch[i] EXCEPT !.out = outs[i]] = batch[i]
      <4>1. IsRow(batch[i]) /\ outs[i] = batch[i].out
        BY <2>2, <2>4, <2>5
      <4> QED BY <4>1 DEF IsRow
    <3> QED BY <3>1
  <2>7. batch' = [i \in 1..n |-> batch[i]]
    BY <2>1, <2>5, <2>6
  <2>8. batch = [i \in 1..n |-> batch[i]]
    <3> DEFINE T == {batch[i] : i \in 1..n}
    <3>1. batch \in Seq(T)
      BY <2>5
    <3> HIDE DEF T
    <3>2. batch \in [1..Len(batch) -> T]
      BY <3>1
    <3>3. batch = [i \in 1..Len(batch) |-> batch[i]] /\ 1..Len(batch) = 1..n
      BY <2>5, <3>2
    <3> QED BY <3>3
  <2>9. batch' = batch
    BY <2>7, <2>8
  <2>10. pc' # "generate" /\ lens' \in [1..n -> config.lens]
    BY <2>1, <2>5
  <2> QED BY <1>1, <2>1, <2>9, <2>10 DEF RowsInv, n
<1> QED BY <1>2, <1>3

LEMMA BalanceKeeps ==
  ASSUME RowsInv, BalanceDualRouteBatch
  PROVE  RowsInv'
<1>1. config \in Configs /\ BatchOk(batch, config) /\ lens \in [1..Rows(config) -> config.lens]
  BY DEF RowsInv, BalanceDualRouteBatch
<1>2. CASE ~(\A k \in DOMAIN Routes : QuotaDivides(Routes[k]))
  <2>1. pc' = "failed" /\ UNCHANGED <<config, batch>>
    BY <1>2 DEF BalanceDualRouteBatch, Fail
  <2> QED BY <1>1, <2>1 DEF RowsInv
<1>3. CASE \A k \in DOMAIN Routes : QuotaDivides(Routes[k])
  <2>1. /\ batch' = Select(batch, FlattenSeq(Deal)) /\ pc' = "log_prob"
        /\ config' = config /\ lens' = lens
    BY <1>3 DEF BalanceDualRouteBatch, Deal
  <2>2. Lists(FlattenSeq(Deal), 1..Rows(config))
    BY <1>1, <1>3, DealIs
  <2>3. BatchOk(Select(batch, FlattenSeq(Deal)), config)
    BY <1>1, <2>2, PermutedBatchOk
  <2> QED BY <1>1, <2>1, <2>3 DEF RowsInv
<1> QED BY <1>2, <1>3

\* Log-probs are joined to the rows; nothing else of a row changes.
SameRows(v, b) ==
  /\ DOMAIN v = DOMAIN b /\ v = [i \in DOMAIN v |-> v[i]]
  /\ \A i \in DOMAIN b : IsRow(v[i]) /\ v[i].uid = b[i].uid /\ v[i].out = b[i].out

LEMMA SameRowsOk ==
  ASSUME NEW c \in Configs, NEW b, BatchOk(b, c), NEW v, SameRows(v, b)
  PROVE  BatchOk(v, c)
<1> DEFINE n == Rows(c)
<1>0. n \in Nat
  BY ConfigFacts
<1>1. BatchShape(b, n) /\ OwnUid(b) /\ RoutesKnown(b) /\ Lists(Orders(b), 1..n)
  BY DEF BatchOk
<1> HIDE DEF n
<1>2. DOMAIN b = 1..n /\ DOMAIN v = 1..n /\ v = [i \in 1..n |-> v[i]]
  BY <1>1 DEF BatchShape, SameRows
<1>3. \A i \in 1..n : IsRow(v[i]) /\ v[i].uid = b[i].uid /\ v[i].out = b[i].out
  BY <1>2 DEF SameRows
<1>4. BatchShape(v, n)
  <2> DEFINE T == {v[i] : i \in 1..n}
  <2>1. v \in [1..n -> T]
    BY <1>2
  <2> HIDE DEF T
  <2>2. v \in Seq(T) /\ Len(v) = n
    BY <1>0, <2>1
  <2> QED BY <1>2, <2>2 DEF BatchShape, T
<1>5. OwnUid(v) /\ RoutesKnown(v) /\ \A i \in DOMAIN v : IsRow(v[i])
  BY <1>1, <1>2, <1>3 DEF OwnUid, RoutesKnown
<1>6. Orders(v) = Orders(b)
  BY <1>2, <1>3 DEF Orders
<1>7. \A route : RouteSet(v, route) = RouteSet(b, route)
  BY <1>2, <1>3 DEF RouteSet
<1> QED BY <1>1, <1>4, <1>5, <1>6, <1>7 DEF BatchOk, n

LEMMA CollectKeeps ==
  ASSUME RowsInv, CollectLogProb
  PROVE  RowsInv' /\ SameRows(batch', batch)
<1>1. config \in Configs /\ BatchOk(batch, config) /\ lens \in [1..Rows(config) -> config.lens]
  BY DEF RowsInv, CollectLogProb
<1>2. PICK all : batch' = [i \in DOMAIN batch |-> [batch[i] EXCEPT !.logp = all[i]]]
  BY DEF CollectLogProb
<1>3. pc' = "update" /\ config' = config /\ lens' = lens
  BY DEF CollectLogProb
<1>4. ASSUME NEW i \in DOMAIN batch
      PROVE  IsRow(batch'[i]) /\ batch'[i].uid = batch[i].uid /\ batch'[i].out = batch[i].out
  <2>1. IsRow(batch[i])
    BY <1>1 DEF BatchOk
  <2>2. batch'[i] = [batch[i] EXCEPT !.logp = all[i]]
    BY <1>2
  <2> QED BY <2>1, <2>2 DEF IsRow
<1>5. SameRows(batch', batch)
  BY <1>2, <1>4 DEF SameRows
<1>6. BatchOk(batch', config)
  BY <1>1, <1>5, SameRowsOk
<1> QED BY <1>1, <1>3, <1>5, <1>6 DEF RowsInv

\* The other steps leave the rows alone.
LEMMA OtherStepsKeep ==
  ASSUME RowsInv, config' = config, batch' = batch, lens' = lens,
         pc' = "failed" \/ (pc' = pc) \/ (pc \notin {"generate", "failed"} /\ pc' # "generate")
  PROVE  RowsInv'
BY DEF RowsInv

LEMMA RowsInvNext == RowsInv /\ [Next]_vars => RowsInv'
<1> SUFFICES ASSUME RowsInv, [Next]_vars PROVE RowsInv'
  OBVIOUS
<1>1. CASE GenerateDual
  BY <1>1, GenerateKeeps
<1>2. CASE BalanceDualRouteBatch
  BY <1>2, BalanceKeeps
<1>3. CASE CollectLogProb
  BY <1>3, CollectKeeps
<1>4. CASE DispatchLogProb
  BY <1>4, OtherStepsKeep DEF DispatchLogProb, Dispatch
<1>5. CASE DispatchUpdate
  BY <1>5, OtherStepsKeep DEF DispatchUpdate, Dispatch
<1>6. CASE AgreeOnCount
  <2>1. config' = config /\ batch' = batch /\ lens' = lens /\ (pc' = "failed" \/ pc' = pc)
    BY <1>6 DEF AgreeOnCount, Fail
  <2> QED BY <2>1, OtherStepsKeep
<1>7. CASE Forward
  BY <1>7, OtherStepsKeep DEF Forward
<1>8. CASE OptimizerStep
  BY <1>8, OtherStepsKeep DEF OptimizerStep
<1>9. CASE DispatchRefresh
  BY <1>9, OtherStepsKeep DEF DispatchRefresh
<1>10. CASE Reduce
  <2>1. config' = config /\ batch' = batch /\ lens' = lens /\ (pc' = "failed" \/ pc' = pc)
    BY <1>10 DEF Reduce, Fail
  <2> QED BY <2>1, OtherStepsKeep
<1>11. CASE EndRefresh
  BY <1>11, OtherStepsKeep DEF EndRefresh
<1>12. CASE UNCHANGED vars
  BY <1>12, OtherStepsKeep DEF vars
<1> QED
  BY <1>1, <1>2, <1>3, <1>4, <1>5, <1>6, <1>7, <1>8, <1>9, <1>10, <1>11, <1>12 DEF Next, Step, Stop

\* The driver's rows are those it built, each once, in the order of the last balancing.
THEOREM RowsInvHolds == Spec => []RowsInv
<1>1. Init => RowsInv
  BY RowsInvInit
<1>2. RowsInv /\ [Next]_vars => RowsInv'
  BY RowsInvNext
<1> QED BY <1>1, <1>2, PTL DEF Spec

\* For every number of prompts, samples, ranks and tensor-parallel groups, and whatever the
\* lengths, the rollout's output is joined by position to the rows it was generated from.
THEOREM RowsReturnedHolds == Spec => []RowsReturned
<1>1. RowsInv => RowsReturned
  BY DEF RowsInv, BatchOk, OwnUid, RowsReturned
<1> QED BY <1>1, RowsInvHolds, PTL

-----------------------------------------------------------------------------
(* What a program still forwards of a route.                                  *)

ForwardOp(route, rows) == [op |-> "forward", route |-> route, rows |-> rows]

AllOps ==
  {CountOp(x) : x \in Range(Routes)} \cup {RunOp(x) : x \in Range(Routes)} \cup {StepOp}
  \cup {ForwardOp(x, s) : x \in Range(Routes), s \in Seq(Nat)}

\* The rows an operation forwards of a route, were b the rows of the packing yet to come.
Done(route, b) ==
  [x \in AllOps |-> IF x = RunOp(route) THEN b
                    ELSE IF x.op = "forward" /\ x.route = route THEN x.rows ELSE <<>>]

Work(p, route, b) == Map(p, Done(route, b))

LEMMA DoneIs ==
  ASSUME NEW route, NEW b \in Seq(Nat)
  PROVE  /\ Done(route, b) \in [AllOps -> Seq(Nat)] /\ StepOp \in AllOps /\ Done(route, b)[StepOp] = <<>>
         /\ \A x \in Range(Routes) :
              /\ CountOp(x) \in AllOps /\ Done(route, b)[CountOp(x)] = <<>>
              /\ RunOp(x) \in AllOps /\ Done(route, b)[RunOp(x)] = IF x = route THEN b ELSE <<>>
              /\ \A s \in Seq(Nat) : /\ ForwardOp(x, s) \in AllOps
                                     /\ Done(route, b)[ForwardOp(x, s)] = IF x = route THEN s ELSE <<>>
<1> DEFINE h == Done(route, b)
<1>1. <<>> \in Seq(Nat)
  OBVIOUS
<1>2. \A x \in AllOps : h[x] = IF x = RunOp(route) THEN b
                               ELSE IF x.op = "forward" /\ x.route = route THEN x.rows ELSE <<>>
  BY DEF Done
<1>d. h = [x \in AllOps |-> h[x]]
  BY DEF Done
<1> HIDE DEF h
<1>3. StepOp \in AllOps /\ h[StepOp] = <<>>
  <2>1. StepOp \in AllOps
    BY DEF AllOps
  <2>2. StepOp # RunOp(route) /\ StepOp.op # "forward"
    BY DEF StepOp, RunOp
  <2> QED BY <1>2, <2>1, <2>2
<1>4. ASSUME NEW x \in Range(Routes)
      PROVE  CountOp(x) \in AllOps /\ h[CountOp(x)] = <<>>
  <2>1. CountOp(x) \in AllOps
    BY DEF AllOps
  <2>2. CountOp(x) # RunOp(route) /\ CountOp(x).op # "forward"
    BY DEF CountOp, RunOp
  <2> QED BY <1>2, <2>1, <2>2
<1>5. ASSUME NEW x \in Range(Routes)
      PROVE  RunOp(x) \in AllOps /\ h[RunOp(x)] = IF x = route THEN b ELSE <<>>
  <2>1. RunOp(x) \in AllOps
    BY DEF AllOps
  <2>2. RunOp(x).op # "forward" /\ (RunOp(x) = RunOp(route) <=> x = route)
    BY DEF RunOp
  <2> QED BY <1>2, <2>1, <2>2
<1>6. ASSUME NEW x \in Range(Routes), NEW s \in Seq(Nat)
      PROVE  ForwardOp(x, s) \in AllOps /\ h[ForwardOp(x, s)] = IF x = route THEN s ELSE <<>>
  <2>1. ForwardOp(x, s) \in AllOps
    BY DEF AllOps
  <2>2. /\ ForwardOp(x, s) # RunOp(route) /\ ForwardOp(x, s).op = "forward"
        /\ ForwardOp(x, s).route = x /\ ForwardOp(x, s).rows = s
    BY DEF RunOp, ForwardOp
  <2> QED BY <1>2, <2>1, <2>2
<1>7. h \in [AllOps -> Seq(Nat)]
  <2>1. ASSUME NEW x \in AllOps PROVE h[x] \in Seq(Nat)
    <3>1. \/ x = StepOp \/ (\E y \in Range(Routes) : x = CountOp(y)) \/ (\E y \in Range(Routes) : x = RunOp(y))
          \/ \E y \in Range(Routes), s \in Seq(Nat) : x = ForwardOp(y, s)
      BY DEF AllOps
    <3>2. CASE x = StepOp
      BY <1>1, <1>3, <3>2
    <3>3. CASE \E y \in Range(Routes) : x = CountOp(y)
      BY <1>1, <1>4, <3>3
    <3>4. CASE \E y \in Range(Routes) : x = RunOp(y)
      BY <1>1, <1>5, <3>4
    <3>5. CASE \E y \in Range(Routes), s \in Seq(Nat) : x = ForwardOp(y, s)
      BY <1>1, <1>6, <3>5
    <3> QED BY <3>1, <3>2, <3>3, <3>4, <3>5
  <2> QED BY <1>d, <2>1
<1> QED BY <1>3, <1>4, <1>5, <1>6, <1>7 DEF h

LEMMA WorkFacts ==
  ASSUME NEW route, NEW b \in Seq(Nat)
  PROVE  /\ \A p \in Seq(AllOps) : Work(p, route, b) \in Seq(Nat)
         /\ \A p, q \in Seq(AllOps) : Work(p \o q, route, b) = Work(p, route, b) \o Work(q, route, b)
         /\ \A x \in AllOps : <<x>> \in Seq(AllOps) /\ Work(<<x>>, route, b) = Done(route, b)[x]
         /\ Work(<<>>, route, b) = <<>>
<1>1. Done(route, b) \in [AllOps -> Seq(Nat)]
  BY DoneIs
<1>2. \A p \in Seq(AllOps) : Map(p, Done(route, b)) \in Seq(Nat)
  BY <1>1, MappedIs
<1>3. \A p, q \in Seq(AllOps) : Map(p \o q, Done(route, b)) = Map(p, Done(route, b)) \o Map(q, Done(route, b))
  BY <1>1, MapConcat
<1>4. \A x \in AllOps : Map(<<x>>, Done(route, b)) = Done(route, b)[x]
  BY <1>1, MapOne
<1>5. \A x \in AllOps : <<x>> \in Seq(AllOps)
  OBVIOUS
<1> QED BY <1>2, <1>3, <1>4, <1>5, MapNone DEF Work

LEMMA WorkForwards ==
  ASSUME NEW route, NEW b \in Seq(Nat), NEW x \in Range(Routes), NEW Bs \in Seq(Seq(Nat))
  PROVE  /\ Forwards(x, Bs) \in Seq(AllOps) /\ Len(Forwards(x, Bs)) = Len(Bs)
         /\ Work(Forwards(x, Bs), route, b) = IF x = route THEN FlattenSeq(Bs) ELSE <<>>
<1> DEFINE l == Len(Bs)
           p == Forwards(x, Bs)
           h == Done(route, b)
           m == Mapped(p, h)
<1>1. l \in Nat /\ DOMAIN Bs = 1..l /\ \A i \in 1..l : Bs[i] \in Seq(Nat)
  BY SeqElements
<1>2. p = [i \in 1..l |-> ForwardOp(x, Bs[i])]
  BY <1>1 DEF Forwards, ForwardOp
<1>3. h \in [AllOps -> Seq(Nat)] /\ \A s \in Seq(Nat) : /\ ForwardOp(x, s) \in AllOps
                                                      /\ h[ForwardOp(x, s)] = IF x = route THEN s ELSE <<>>
  BY DoneIs
<1> HIDE DEF l, p, h
<1>4. p \in Seq(AllOps) /\ Len(p) = l /\ DOMAIN p = 1..l /\ \A i \in 1..l : p[i] = ForwardOp(x, Bs[i])
  <2>1. \A i \in 1..l : ForwardOp(x, Bs[i]) \in AllOps
    BY <1>1, <1>3
  <2> QED BY <1>1, <1>2, <2>1
<1>5. /\ m \in Seq(Seq(Nat)) /\ Len(m) = l /\ DOMAIN m = 1..l /\ \A i \in 1..l : m[i] = h[p[i]]
  BY <1>3, <1>4, MappedIs, SMTT(30)
<1> HIDE DEF m
<1>6. \A i \in 1..l : m[i] = IF x = route THEN Bs[i] ELSE <<>>
  BY <1>1, <1>3, <1>4, <1>5
<1>7. CASE x = route
  <2> DEFINE Q == Seq(Nat)
  <2>1. m \in Seq(Q) /\ Bs \in Seq(Q) /\ Len(m) = Len(Bs)
    BY <1>5 DEF l
  <2>2. Agree(m, Bs, 1..Len(m))
    BY <1>5, <1>6, <1>7 DEF Agree
  <2> HIDE DEF Q
  <2>3. m = Bs
    BY <2>1, <2>2, SameSeq
  <2> QED BY <1>4, <1>7, <2>3 DEF Work, Map, m, h, p, l
<1>8. CASE x # route
  <2>1. \A i \in DOMAIN m : m[i] = <<>>
    BY <1>5, <1>6, <1>8
  <2>2. FlattenSeq(m) = <<>>
    BY <1>5, <2>1, FlattenEmpties
  <2> QED BY <1>4, <1>8, <2>2 DEF Work, Map, m, h, p, l
<1> QED BY <1>7, <1>8

Expansion(x, Bs, Q) == [o \in Q |-> IF o = RunOp(x) THEN Forwards(x, Bs) ELSE <<o>>]

LEMMA ExpandIs ==
  ASSUME NEW Q, NEW p \in Seq(Q), NEW x, NEW Bs
  PROVE  Expand(p, x, Bs) = Map(p, Expansion(x, Bs, Q))
<1>1. DOMAIN p = 1..Len(p) /\ \A i \in DOMAIN p : p[i] \in Q
  BY SeqElements
<1>2. Mapped(p, Expansion(x, Bs, Q)) = [i \in DOMAIN p |-> IF p[i] = RunOp(x) THEN Forwards(x, Bs) ELSE <<p[i]>>]
  BY <1>1 DEF Mapped, Expansion
<1> QED BY <1>2 DEF Expand, Map

LEMMA ExpandType ==
  ASSUME NEW Q, NEW p \in Seq(Q), NEW x, NEW Bs, Forwards(x, Bs) \in Seq(Q)
  PROVE  Expand(p, x, Bs) \in Seq(Q)
<1> DEFINE e == Expansion(x, Bs, Q)
           F == Forwards(x, Bs)
<1>1. e = [o \in Q |-> IF o = RunOp(x) THEN F ELSE <<o>>]
  BY DEF Expansion
<1> HIDE DEF e, F
<1>2. \A o \in Q : <<o>> \in Seq(Q)
  OBVIOUS
<1>3. e \in [Q -> Seq(Q)]
  <2>1. F \in Seq(Q)
    BY DEF F
  <2>2. \A o \in Q : (IF o = RunOp(x) THEN F ELSE <<o>>) \in Seq(Q)
    BY <1>2, <2>1
  <2> QED BY <1>1, <2>2
<1>4. Map(p, e) \in Seq(Q)
  BY <1>3, MappedIs
<1> QED BY <1>4, ExpandIs DEF e

\* Packing a route's rows is what its program still forwards of it.
LEMMA WorkExpand ==
  ASSUME NEW route, NEW b \in Seq(Nat), NEW x \in Range(Routes), NEW Bs \in Seq(Seq(Nat)),
         NEW p \in Seq(AllOps)
  PROVE  /\ Expand(p, x, Bs) \in Seq(AllOps)
         /\ Work(Expand(p, x, Bs), route, b) = Work(p, route, IF route = x THEN FlattenSeq(Bs) ELSE b)
<1> DEFINE e == Expansion(x, Bs, AllOps)
           h == Done(route, b)
           c == IF route = x THEN FlattenSeq(Bs) ELSE b
           g == Done(route, c)
           F == Mapped(p, e)
           f == [j \in DOMAIN F |-> Map(F[j], h)]
<1>1. Forwards(x, Bs) \in Seq(AllOps) /\ Work(Forwards(x, Bs), route, b) = IF x = route THEN FlattenSeq(Bs) ELSE <<>>
  BY WorkForwards
<1>2. Expand(p, x, Bs) \in Seq(AllOps) /\ Expand(p, x, Bs) = FlattenSeq(F)
  BY <1>1, ExpandType, ExpandIs DEF Map
<1>3. c \in Seq(Nat)
  BY FlattenType
<1> HIDE DEF c
<1>4. /\ h \in [AllOps -> Seq(Nat)] /\ g \in [AllOps -> Seq(Nat)]
  BY <1>3, DoneIs
<1>5. ASSUME NEW o \in AllOps
      PROVE  e[o] \in Seq(AllOps) /\ Map(e[o], h) = g[o]
  <2>1. e[o] = IF o = RunOp(x) THEN Forwards(x, Bs) ELSE <<o>>
    BY DEF Expansion
  <2>2. CASE o = RunOp(x)
    <3>1. e[o] = Forwards(x, Bs)
      BY <2>1, <2>2
    <3>2. g[o] = IF x = route THEN c ELSE <<>>
      BY <1>3, <2>2, DoneIs
    <3>3. Map(e[o], h) = IF x = route THEN FlattenSeq(Bs) ELSE <<>>
      BY <1>1, <3>1 DEF Work
    <3> QED BY <1>1, <3>1, <3>2, <3>3 DEF c
  <2>3. CASE o # RunOp(x)
    <3>1. e[o] = <<o>>
      BY <2>1, <2>3
    <3>2. <<o>> \in Seq(AllOps) /\ Map(<<o>>, h) = h[o]
      BY WorkFacts DEF Work
    <3>3. h[o] = g[o]
      <4>1. CASE route = x
        <5>1. o # RunOp(route)
          BY <2>3, <4>1
        <5> QED BY <5>1 DEF Done
      <4>2. CASE route # x
        BY <4>2 DEF c
      <4> QED BY <4>1, <4>2
    <3> QED BY <3>1, <3>2, <3>3
  <2> QED BY <2>2, <2>3
<1>6. e \in [AllOps -> Seq(AllOps)]
  <2>1. e = [o \in AllOps |-> e[o]]
    BY DEF Expansion
  <2> HIDE DEF e
  <2> QED BY <1>5, <2>1
<1> HIDE DEF e, h, g, F
<1>7. F \in Seq(Seq(AllOps)) /\ DOMAIN F = DOMAIN p /\ \A j \in DOMAIN p : F[j] = e[p[j]]
  <2>1. Takes(e, AllOps, AllOps)
    BY <1>6 DEF Takes
  <2>2. Mapped(p, e) \in Seq(Seq(AllOps))
    BY <2>1, MappedTakes
  <2>3. DOMAIN Mapped(p, e) = DOMAIN p /\ \A j \in DOMAIN p : Mapped(p, e)[j] = e[p[j]]
    BY DEF Mapped
  <2> QED BY <2>2, <2>3 DEF F
<1>8. Map(FlattenSeq(F), h) = FlattenSeq(f)
  <2>1. Each(F, h, f)
    BY DEF Each
  <2> HIDE DEF f
  <2>2. F \in Seq(Seq(AllOps)) /\ Takes(h, AllOps, Nat)
    BY <1>4, <1>7 DEF Takes
  <2> QED BY <2>1, <2>2, MapFlatten
<1>9. f = Mapped(p, g)
  <2>1. \A j \in DOMAIN p : p[j] \in AllOps
    BY SeqElements
  <2>2. \A j \in DOMAIN p : Map(F[j], h) = g[p[j]]
    BY <1>5, <1>7, <2>1
  <2> QED BY <1>7, <2>2 DEF Mapped
<1>10. Work(Expand(p, x, Bs), route, b) = Work(p, route, c)
  <2>1. Work(Expand(p, x, Bs), route, b) = FlattenSeq(f)
    BY <1>2, <1>8 DEF Work, h
  <2>2. Work(p, route, c) = FlattenSeq(Mapped(p, g))
    BY DEF Work, Map, g
  <2> QED BY <1>9, <2>1, <2>2
<1> QED BY <1>2, <1>10 DEF c

-----------------------------------------------------------------------------
(* Micro-batches.                                                             *)

LEMMA SplitsAre ==
  ASSUME NEW n \in Nat, NEW size \in Nat \ {0}
  PROVE  Splits(n, size) \in Seq(Seq(1..n)) /\ FlattenSeq(Splits(n, size)) = Upto(n)
<1> DEFINE l == CeilDiv(n, size)
           f == Splits(n, size)
           e(m) == Least(size * m, n)
           Good == {k \in Nat : k <= l => FlattenSeq(SubSeq(f, 1, k)) = Upto(e(k))}
<1>1. l \in Nat /\ size * l >= n /\ \A m \in Nat : m < l => size * m < n
  BY CeilDivIs
<1>2. f = [m \in 1..l |-> Shifted((m - 1) * size, IF m * size <= n THEN size ELSE n - (m - 1) * size)]
  BY DEF Splits, Shifted
<1> HIDE DEF l, f
<1>3. ASSUME NEW k \in Nat, k < l
      PROVE  /\ e(k) \in Nat /\ e(k + 1) \in Nat /\ e(k + 1) - e(k) \in Nat /\ e(k + 1) <= n
             /\ k + 1 \in 1..l /\ f[k + 1] = Shifted(e(k), e(k + 1) - e(k))
  <2> DEFINE a == size * k
             b == size * (k + 1)
  <2>1. a \in Nat /\ b = a + size /\ a < n
    BY <1>1, <1>3
  <2>2. e(k) = a /\ e(k + 1) = IF b <= n THEN b ELSE n
    <3> HIDE DEF a, b
    <3>1. Least(a, n) = a /\ Least(b, n) = IF b <= n THEN b ELSE n
      BY <2>1 DEF Least
    <3> QED BY <3>1 DEF a, b
  <2>3. k + 1 \in 1..l /\ (k + 1) - 1 = k
    BY <1>1, <1>3
  <2>4. f[k + 1] = Shifted(k * size, IF (k + 1) * size <= n THEN size ELSE n - k * size)
    BY <1>2, <2>3
  <2>5. k * size = a /\ (k + 1) * size = b
    OBVIOUS
  <2> HIDE DEF a, b, e
  <2>6. f[k + 1] = Shifted(a, IF b <= n THEN size ELSE n - a)
    BY <2>4, <2>5
  <2>7. (IF b <= n THEN size ELSE n - a) = e(k + 1) - e(k)
    BY <2>1, <2>2
  <2> QED BY <2>1, <2>2, <2>3, <2>6, <2>7
<1>4. f \in Seq(Seq(1..n)) /\ Len(f) = l
  <2> DEFINE Q == Seq(1..n)
  <2>1. ASSUME NEW m \in 1..l PROVE f[m] \in Q
    <3> DEFINE k == m - 1
    <3>1. k \in Nat /\ k < l /\ k + 1 = m
      BY <1>1
    <3> HIDE DEF k
    <3> DEFINE a == e(k)
               c == e(k + 1) - e(k)
    <3>2. a \in Nat /\ c \in Nat /\ a + c <= n /\ f[m] = Shifted(a, c)
      <4> HIDE DEF e
      <4>1. /\ e(k) \in Nat /\ e(k + 1) \in Nat /\ e(k + 1) - e(k) \in Nat /\ e(k + 1) <= n
            /\ f[k + 1] = Shifted(e(k), e(k + 1) - e(k))
        BY <1>3, <3>1
      <4> QED BY <3>1, <4>1
    <3> HIDE DEF a, c
    <3>3. Shifted(a, c) \in Seq(1..(a + c))
      BY <3>2, UptoJoin
    <3>5. 1..(a + c) \in SUBSET (1..n)
      BY <3>2
    <3>4. Shifted(a, c) \in Seq(1..n)
      BY <3>3, <3>5, SeqWider
    <3> QED BY <3>2, <3>4
  <2>2. f = [m \in 1..l |-> f[m]]
    BY <1>2
  <2> HIDE DEF Q, e
  <2>3. f \in Seq(Q) /\ Len(f) = l
    BY <1>1, <2>1, <2>2
  <2> QED BY <2>3 DEF Q
<1>5. 0 \in Good
  <2>1. SubSeq(f, 1, 0) = <<>>
    BY <1>4
  <2>2. e(0) = 0
    BY DEF Least
  <2>3. Upto(0) = <<>>
    BY DEF Upto
  <2> HIDE DEF e
  <2> QED BY <2>1, <2>2, <2>3, FlattenNone
<1> HIDE DEF e
<1>6. ASSUME NEW k \in Nat, k \in Good
      PROVE  k + 1 \in Good
  <2> SUFFICES ASSUME k + 1 <= l PROVE FlattenSeq(SubSeq(f, 1, k + 1)) = Upto(e(k + 1))
    OBVIOUS
  <2>1. k < l /\ k < Len(f)
    BY <1>1, <1>4
  <2>2. FlattenSeq(SubSeq(f, 1, k)) = Upto(e(k))
    <3>1. k <= l
      BY <1>1, <2>1
    <3> QED BY <1>6, <3>1
  <2>3. FlattenSeq(SubSeq(f, 1, k + 1)) = FlattenSeq(SubSeq(f, 1, k)) \o f[k + 1]
    <3> DEFINE S == 1..n
    <3>1. f \in Seq(Seq(S))
      BY <1>4
    <3> HIDE DEF S
    <3> QED BY <2>1, <3>1, FlattenPrefix
  <2>4. /\ e(k) \in Nat /\ e(k + 1) \in Nat /\ e(k + 1) - e(k) \in Nat
        /\ f[k + 1] = Shifted(e(k), e(k + 1) - e(k))
    BY <1>3, <2>1
  <2> DEFINE a == e(k)
             c == e(k + 1) - e(k)
  <2>5. a \in Nat /\ c \in Nat /\ a + c = e(k + 1)
    BY <2>4
  <2> HIDE DEF a, c
  <2>6. Upto(a) \o Shifted(a, c) = Upto(a + c)
    BY <2>5, UptoJoin
  <2> QED BY <2>2, <2>3, <2>4, <2>5, <2>6 DEF a, c
<1>7. l \in Good
  <2> HIDE DEF Good
  <2> QED BY <1>1, <1>5, <1>6, SetInduction
<1>8. e(l) = n /\ SubSeq(f, 1, l) = f
  <2> DEFINE z == size * l
  <2>1. z \in Int /\ z >= n
    BY <1>1
  <2> HIDE DEF z
  <2>2. Least(z, n) = n
    BY <2>1 DEF Least
  <2>3. SubSeq(f, 1, Len(f)) = f
    BY <1>4, WholeSeq
  <2> QED BY <1>4, <2>2, <2>3 DEF e, z
<1>9. FlattenSeq(SubSeq(f, 1, l)) = Upto(e(l))
  <2>1. l <= l
    BY <1>1
  <2> QED BY <1>7, <2>1
<1> QED BY <1>4, <1>8, <1>9 DEF f

-----------------------------------------------------------------------------
(* The rows of a call: of each rank and route.                                *)

LEMMA ChunkIs ==
  ASSUME NEW T, NEW b \in Seq(T), NEW k \in Nat \ {0}, NEW size \in Nat \ {0}, Divides(k, size, Len(b)),
         NEW r \in 1..k
  PROVE  /\ Chunk(b, k, r) \in Seq(T) /\ Len(Chunk(b, k, r)) = size /\ DOMAIN Chunk(b, k, r) = 1..size
         /\ \A i \in 1..size : Chunk(b, k, r)[i] = b[Place(size, r, i)] /\ Place(size, r, i) \in 1..Len(b)
<1> DEFINE x == (r - 1) * size
           y == r * size
           c == SubSeq(b, x + 1, y)
           n == Len(b)
<1>0. Len(b) = k * size
  BY DEF Divides
<1>1. Chunk(b, k, r) = c
  <2>1. (k * size) \div k = size
    BY ExactDiv
  <2> QED BY <1>0, <2>1 DEF Chunk
<1>2. x \in Nat /\ y \in Nat /\ y = x + size /\ x <= y /\ n \in Nat
  OBVIOUS
<1>3. y <= n
  <2> DEFINE z == size * (r - 1)
  <2>0. r - 1 \in Int /\ k \in Int /\ r - 1 < k
    OBVIOUS
  <2>1. z + size <= size * k
    BY <2>0, MulMono
  <2>2. z = x /\ size * k = n /\ z \in Int
    BY <1>0
  <2> HIDE DEF x, y, z, n
  <2> QED BY <1>2, <2>1, <2>2
<1>4. size * (r - 1) = x
  OBVIOUS
<1> HIDE DEF x, y
<1>5. /\ c \in Seq(T) /\ Len(c) = y - x /\ DOMAIN c = 1..(y - x)
      /\ \A i \in 1..(y - x) : x + i \in 1..n /\ c[i] = b[x + i]
  <2>1. x \in Nat /\ y \in Nat /\ x <= y /\ y <= Len(b)
    BY <1>2, <1>3
  <2> QED BY <2>1, SlicePoint
<1>6. y - x = size
  BY <1>2
<1>7. \A i \in 1..size : Place(size, r, i) = x + i
  BY <1>4 DEF Place
<1> QED BY <1>1, <1>5, <1>6, <1>7

\* RouteBatch of rank r, of given rows.
OrdersOf(b, c, r, route) ==
  LET rows == Chunk(b, c.world, r)
      idx  == RowsOfRoute(rows, route)
  IN [i \in DOMAIN idx |-> rows[idx[i]].out.order]

OrderSet(b, c, r, route) ==
  {Chunk(b, c.world, r)[i].out.order : i \in RouteSet(Chunk(b, c.world, r), route)}

Quota(c) == Rows(c) \div c.world

LEMMA ActorShardIs ==
  ASSUME NEW c \in Configs, NEW b, BatchOk(b, c), NEW r \in 1..c.world
  PROVE  LET rows == Chunk(b, c.world, r)
         IN  /\ Quota(c) \in Nat \ {0} /\ Rows(c) = c.world * Quota(c)
             /\ DOMAIN rows = 1..Quota(c) /\ Len(rows) = Quota(c) /\ RoutesKnown(rows)
             /\ \A i \in 1..Quota(c) : /\ rows[i] = b[Place(Quota(c), r, i)]
                                       /\ Place(Quota(c), r, i) \in 1..Rows(c)
             /\ \A i \in 1..Quota(c) : rows[i].out.order = Orders(b)[Place(Quota(c), r, i)]
<1> DEFINE k == c.world
           n == Rows(c)
           size == Quota(c)
           rows == Chunk(b, c.world, r)
           T == {b[i] : i \in 1..n}
<1>1. k \in Nat \ {0} /\ n \in Nat \ {0} /\ n = k * size /\ size \in Nat
  BY ConfigFacts, WorldDivides DEF Quota
<1>2. DOMAIN b = 1..n /\ Len(b) = n /\ b \in Seq(T) /\ RoutesKnown(b)
  BY DEF BatchOk, BatchShape
<1> HIDE DEF T, n, size
<1>3. size \in Nat \ {0}
  <2>1. size = 0 => k * size = 0
    BY <1>1
  <2> QED BY <1>1, <2>1
<1>4. /\ Len(rows) = size /\ DOMAIN rows = 1..size
      /\ \A i \in 1..size : rows[i] = b[Place(size, r, i)] /\ Place(size, r, i) \in 1..n
  <2>1. b \in Seq(T) /\ Divides(k, size, Len(b))
    BY <1>1, <1>2 DEF Divides
  <2> HIDE DEF k
  <2>2. r \in 1..k
    BY DEF k
  <2>3. /\ Len(Chunk(b, k, r)) = size /\ DOMAIN Chunk(b, k, r) = 1..size
        /\ \A i \in 1..size : Chunk(b, k, r)[i] = b[Place(size, r, i)] /\ Place(size, r, i) \in 1..Len(b)
    BY <1>1, <1>3, <2>1, <2>2, ChunkIs
  <2>4. rows = Chunk(b, k, r)
    BY DEF k
  <2> QED BY <1>2, <2>3, <2>4
<1> HIDE DEF rows, k
<1>5. RoutesKnown(rows)
  BY <1>2, <1>4 DEF RoutesKnown
<1>6. \A i \in 1..size : rows[i].out.order = Orders(b)[Place(size, r, i)]
  BY <1>2, <1>4 DEF Orders
<1> QED BY <1>1, <1>3, <1>4, <1>5, <1>6 DEF n, size, rows, k

LEMMA OrdersOfIs ==
  ASSUME NEW c \in Configs, NEW b, BatchOk(b, c), NEW r \in 1..c.world, NEW route
  PROVE  /\ OrdersOf(b, c, r, route) \in Seq(1..Rows(c))
         /\ Lists(OrdersOf(b, c, r, route), OrderSet(b, c, r, route))
         /\ Len(OrdersOf(b, c, r, route)) = Cardinality(RouteSet(Chunk(b, c.world, r), route))
<1> DEFINE rows == Chunk(b, c.world, r)
           idx == RowsOfRoute(rows, route)
           I == RouteSet(rows, route)
           n == Rows(c)
           size == Quota(c)
           keys == [i \in 1..size |-> rows[i].out.order]
           o == OrdersOf(b, c, r, route)
<1>1. /\ size \in Nat \ {0} /\ n = c.world * size /\ DOMAIN rows = 1..size
      /\ \A i \in 1..size : /\ rows[i].out.order = Orders(b)[Place(size, r, i)]
                            /\ Place(size, r, i) \in 1..n
  BY ActorShardIs
<1>2. Lists(Orders(b), 1..n) /\ DOMAIN Orders(b) = 1..n
  BY DEF BatchOk, BatchShape, Orders
<1>k. c.world \in Nat \ {0}
  BY ConfigFacts
<1>o. o = [i \in DOMAIN idx |-> rows[idx[i]].out.order]
  BY DEF OrdersOf
<1>s. OrderSet(b, c, r, route) = {rows[i].out.order : i \in I}
  BY DEF OrderSet
<1> HIDE DEF rows, n, size, I, idx, o
<1>3. I \in SUBSET (1..size) /\ Lists(idx, I) /\ Len(idx) = Cardinality(I) /\ \A i \in DOMAIN idx : idx[i] \in I
  BY <1>1, RouteListed DEF I, idx
<1>4. \A i \in 1..size : keys[i] \in 1..n
  <2>1. Orders(b) \in Seq(1..n)
    BY <1>2 DEF Lists
  <2>2. \A i \in 1..n : Orders(b)[i] \in 1..n
    BY <1>2, <2>1, SeqElements
  <2> QED BY <1>1, <2>2
<1>5. \A i, j \in 1..size : keys[i] = keys[j] => i = j
  <2>1. ASSUME NEW i \in 1..size, NEW j \in 1..size, keys[i] = keys[j] PROVE i = j
    <3>1. Orders(b)[Place(size, r, i)] = Orders(b)[Place(size, r, j)]
      BY <1>1, <2>1
    <3>2. Place(size, r, i) = Place(size, r, j)
      BY <1>1, <1>2, <3>1 DEF Lists
    <3>3. PlacesApart(size, c.world)
      BY <1>1, <1>k, ChunkPlaces
    <3> QED BY <3>2, <3>3 DEF PlacesApart
  <2> QED BY <2>1
<1>6. o = Select(keys, idx)
  <2>1. \A i \in DOMAIN idx : idx[i] \in 1..size
    BY <1>3
  <2> QED BY <1>o, <2>1 DEF Select
<1>7. ElementsAt(keys, I) = OrderSet(b, c, r, route)
  <2>1. \A i \in I : keys[i] = rows[i].out.order
    BY <1>3
  <2> QED BY <1>s, <2>1 DEF ElementsAt
<1> HIDE DEF keys
<1>8. Into(keys, I, 1..n) /\ OneToOne(keys, I)
  BY <1>3, <1>4, <1>5 DEF Into, OneToOne
<1>9. Lists(Select(keys, idx), ElementsAt(keys, I)) /\ Select(keys, idx) \in Seq(1..n) /\ Len(Select(keys, idx)) = Len(idx)
  BY <1>3, <1>8, SelectLists
<1> QED BY <1>3, <1>6, <1>7, <1>9 DEF o, n, I, rows

\* A row of the step is in one rank's shard, and in one of its routes.
LEMMA OrderSetsApart ==
  ASSUME NEW c \in Configs, NEW b, BatchOk(b, c)
  PROVE  /\ \A r, q \in 1..c.world : \A x, y :
              r # q \/ x # y => OrderSet(b, c, r, x) \cap OrderSet(b, c, q, y) = {}
         /\ \A route : UNION {OrderSet(b, c, r, route) : r \in 1..c.world}
                         = {b[i].out.order : i \in RouteSet(b, route)}
<1> DEFINE n == Rows(c)
           k == c.world
           size == Quota(c)
<1>1. Lists(Orders(b), 1..n) /\ DOMAIN Orders(b) = 1..n /\ DOMAIN b = 1..n
      /\ \A i \in 1..n : Orders(b)[i] = b[i].out.order
  BY DEF BatchOk, BatchShape, Orders
<1>2. k \in Nat \ {0}
  BY ConfigFacts
<1>i. 1 \in 1..k
  BY <1>2
<1>3. /\ size \in Nat \ {0} /\ n = k * size
      /\ \A r \in 1..k : /\ DOMAIN Chunk(b, k, r) = 1..size
                         /\ \A i \in 1..size : /\ Chunk(b, k, r)[i] = b[Place(size, r, i)]
                                               /\ Place(size, r, i) \in 1..n
  BY <1>i, ActorShardIs
<1>s. \A r, x : OrderSet(b, c, r, x) = {Chunk(b, k, r)[i].out.order : i \in RouteSet(Chunk(b, k, r), x)}
  BY DEF OrderSet
<1> HIDE DEF n, k, size
<1>4. \A r \in 1..k : \A x, o : o \in OrderSet(b, c, r, x) <=>
        \E i \in 1..size : b[Place(size, r, i)].out.route = x /\ o = b[Place(size, r, i)].out.order
  <2>1. ASSUME NEW r \in 1..k, NEW x, NEW o
        PROVE  o \in OrderSet(b, c, r, x) <=>
                 \E i \in 1..size : b[Place(size, r, i)].out.route = x /\ o = b[Place(size, r, i)].out.order
    <3> DEFINE rows == Chunk(b, k, r)
    <3>1. DOMAIN rows = 1..size /\ \A i \in 1..size : rows[i] = b[Place(size, r, i)]
      BY <1>3
    <3>2. OrderSet(b, c, r, x) = {rows[i].out.order : i \in RouteSet(rows, x)}
      BY <1>s
    <3> HIDE DEF rows
    <3>3. RouteSet(rows, x) = {i \in 1..size : rows[i].out.route = x}
      BY <3>1 DEF RouteSet
    <3> QED BY <3>1, <3>2, <3>3
  <2> QED BY <2>1
<1>5. ASSUME NEW r \in 1..k, NEW q \in 1..k, NEW x, NEW y, r # q \/ x # y
      PROVE  OrderSet(b, c, r, x) \cap OrderSet(b, c, q, y) = {}
  <2> SUFFICES ASSUME NEW o, o \in OrderSet(b, c, r, x), o \in OrderSet(b, c, q, y) PROVE FALSE
    OBVIOUS
  <2>1. PICK i \in 1..size : b[Place(size, r, i)].out.route = x /\ o = b[Place(size, r, i)].out.order
    BY <1>4
  <2>2. PICK j \in 1..size : b[Place(size, q, j)].out.route = y /\ o = b[Place(size, q, j)].out.order
    BY <1>4
  <2>3. Place(size, r, i) \in 1..n /\ Place(size, q, j) \in 1..n
    BY <1>3
  <2>4. Place(size, r, i) = Place(size, q, j)
    <3> DEFINE x1 == Place(size, r, i)
               x2 == Place(size, q, j)
    <3>1. Orders(b)[x1] = o /\ Orders(b)[x2] = o /\ x1 \in 1..n /\ x2 \in 1..n
      BY <1>1, <2>1, <2>2, <2>3
    <3> HIDE DEF x1, x2
    <3>2. x1 = x2
      BY <1>1, <3>1 DEF Lists
    <3> QED BY <3>2 DEF x1, x2
  <2>5. r = q
    <3>1. PlacesApart(size, k)
      BY <1>2, <1>3, ChunkPlaces
    <3> QED BY <2>4, <3>1 DEF PlacesApart
  <2> QED BY <1>5, <2>1, <2>2, <2>4, <2>5
<1>6. ASSUME NEW route
      PROVE  UNION {OrderSet(b, c, r, route) : r \in 1..k} = {b[i].out.order : i \in RouteSet(b, route)}
  <2> DEFINE U == UNION {OrderSet(b, c, r, route) : r \in 1..k}
             V == {b[i].out.order : i \in RouteSet(b, route)}
  <2>1. \A o : o \in U <=> \E r \in 1..k : o \in OrderSet(b, c, r, route)
    OBVIOUS
  <2>2. \A o : o \in V <=> \E i \in 1..n : b[i].out.route = route /\ o = b[i].out.order
    BY <1>1 DEF RouteSet
  <2> HIDE DEF U, V
  <2>3. ASSUME NEW o \in U PROVE o \in V
    <3>1. PICK r \in 1..k : o \in OrderSet(b, c, r, route)
      BY <2>1
    <3>2. PICK i \in 1..size : b[Place(size, r, i)].out.route = route /\ o = b[Place(size, r, i)].out.order
      BY <1>4, <3>1
    <3> QED BY <1>3, <2>2, <3>2
  <2>4. ASSUME NEW o \in V PROVE o \in U
    <3>1. PICK i \in 1..n : b[i].out.route = route /\ o = b[i].out.order
      BY <2>2
    <3>2. i \in 1..(k * size)
      BY <1>3
    <3>3. PICK r \in 1..k, j \in 1..size : i = Place(size, r, j)
      <4>1. PlacesCover(size, k, k * size)
        BY <1>2, <1>3, ChunkPlaces
      <4> QED BY <3>2, <4>1 DEF PlacesCover
    <3>4. o \in OrderSet(b, c, r, route)
      BY <1>4, <3>1, <3>3
    <3> QED BY <2>1, <3>4
  <2>5. U = V
    BY <2>3, <2>4
  <2> QED BY <2>5 DEF U, V
<1> QED BY <1>5, <1>6 DEF k

-----------------------------------------------------------------------------
(* A rank's program, step by step, has each row of a route forwarded once.    *)

OpsOf(local, dynamic) ==
  {o \in AllOps : o.op \in {"count", "run"} => dynamic /\ local[o.route] # <<>>}

\* b has each of n rows once; without packing, in their order.
Whole(b, n, dynamic) == Lists(b, 1..n) /\ (~dynamic => b = Upto(n))

Progress(p, done, n, x, dynamic) ==
  /\ done \in Seq(Seq(Nat))
  /\ \A b : Whole(b, n, dynamic) => Whole(FlattenSeq(done) \o Work(p, x, b), n, dynamic)

LEMMA WorkHead ==
  ASSUME NEW p \in Seq(AllOps), p # <<>>, NEW x, NEW b \in Seq(Nat)
  PROVE  Work(p, x, b) = Done(x, b)[Head(p)] \o Work(Tail(p), x, b)
<1> DEFINE h == Head(p)
           t == Tail(p)
<1>1. h \in AllOps /\ t \in Seq(AllOps) /\ p = <<h>> \o t
  BY HeadTail
<1> HIDE DEF h, t
<1>2. <<h>> \in Seq(AllOps) /\ Work(<<h>>, x, b) = Done(x, b)[h]
  BY <1>1, WorkFacts
<1> DEFINE s == <<h>>
<1> HIDE DEF s
<1>3. s \in Seq(AllOps) /\ p = s \o t /\ Work(s, x, b) = Done(x, b)[h]
  BY <1>1, <1>2 DEF s
<1>4. Work(s \o t, x, b) = Work(s, x, b) \o Work(t, x, b)
  BY <1>1, <1>3, WorkFacts
<1> QED BY <1>3, <1>4 DEF h, t

LEMMA WholeIs ==
  ASSUME NEW n \in Nat, NEW dynamic, NEW b, Whole(b, n, dynamic)
  PROVE  b \in Seq(1..n) /\ b \in Seq(Nat)
<1>1. b \in Seq(1..n) /\ 1..n \in SUBSET Nat
  BY DEF Whole, Lists
<1> QED BY <1>1, SeqWider

\* An operation that forwards nothing.
LEMMA QuietProgress ==
  ASSUME NEW n \in Nat, NEW x, NEW dynamic, NEW p \in Seq(AllOps), p # <<>>, NEW done,
         Progress(p, done, n, x, dynamic), \A b \in Seq(Nat) : Done(x, b)[Head(p)] = <<>>
  PROVE  Progress(Tail(p), done, n, x, dynamic)
<1>1. done \in Seq(Seq(Nat))
  BY DEF Progress
<1>2. ASSUME NEW b, Whole(b, n, dynamic)
      PROVE  Whole(FlattenSeq(done) \o Work(Tail(p), x, b), n, dynamic)
  <2>1. b \in Seq(Nat)
    BY <1>2, WholeIs
  <2>2. Work(p, x, b) = <<>> \o Work(Tail(p), x, b)
    BY <2>1, WorkHead
  <2>3. Work(Tail(p), x, b) \in Seq(Nat)
    <3>1. Tail(p) \in Seq(AllOps)
      BY HeadTail
    <3> QED BY <2>1, <3>1, WorkFacts
  <2>4. Work(p, x, b) = Work(Tail(p), x, b)
    <3> DEFINE t == Work(Tail(p), x, b)
    <3>1. t \in Seq(Nat)
      BY <2>3
    <3> HIDE DEF t
    <3>2. <<>> \o t = t
      BY <3>1
    <3> QED BY <2>2, <3>2 DEF t
  <2>5. Whole(FlattenSeq(done) \o Work(p, x, b), n, dynamic)
    BY <1>2 DEF Progress
  <2> QED BY <2>4, <2>5
<1> QED BY <1>1, <1>2 DEF Progress

LEMMA ForwardProgress ==
  ASSUME NEW n \in Nat, NEW x \in Range(Routes), NEW dynamic, NEW p \in Seq(AllOps), p # <<>>, NEW done,
         Progress(p, done, n, x, dynamic), NEW s \in Seq(Nat), Head(p) = ForwardOp(x, s)
  PROVE  /\ Progress(Tail(p), Append(done, s), n, x, dynamic)
         /\ FlattenSeq(Append(done, s)) = FlattenSeq(done) \o s
<1> DEFINE f == FlattenSeq(done)
<1>1. done \in Seq(Seq(Nat)) /\ Append(done, s) \in Seq(Seq(Nat))
  <2> DEFINE Q == Seq(Nat)
  <2>1. done \in Seq(Q) /\ s \in Q
    BY DEF Progress
  <2> HIDE DEF Q
  <2>2. Append(done, s) \in Seq(Q)
    BY <2>1
  <2> QED BY <2>1, <2>2 DEF Q
<1>2. f \in Seq(Nat) /\ FlattenSeq(Append(done, s)) = f \o s
  BY <1>1, FlattenAppend
<1> HIDE DEF f
<1>3. ASSUME NEW b, Whole(b, n, dynamic)
      PROVE  Whole(FlattenSeq(Append(done, s)) \o Work(Tail(p), x, b), n, dynamic)
  <2> DEFINE t == Work(Tail(p), x, b)
  <2>1. b \in Seq(Nat)
    BY <1>3, WholeIs
  <2>2. Done(x, b)[ForwardOp(x, s)] = s
    BY <2>1, DoneIs
  <2>3. Work(p, x, b) = s \o t
    BY <2>1, <2>2, WorkHead
  <2>4. t \in Seq(Nat)
    <3>1. Tail(p) \in Seq(AllOps)
      BY HeadTail
    <3> QED BY <2>1, <3>1, WorkFacts
  <2> HIDE DEF t
  <2>5. (f \o s) \o t = f \o (s \o t)
    <3>1. f \in Seq(Nat) /\ s \in Seq(Nat) /\ t \in Seq(Nat)
      BY <1>2, <2>4
    <3> QED BY <3>1, ConcatAssoc, SMTT(30)
  <2>6. Whole(f \o Work(p, x, b), n, dynamic)
    BY <1>3 DEF Progress, f
  <2>7. Whole((f \o s) \o t, n, dynamic)
    BY <2>3, <2>5, <2>6
  <2> QED BY <1>2, <2>7 DEF t
<1> QED BY <1>1, <1>2, <1>3 DEF Progress, f

\* Once a packing is known, the run stands for its forwards.
LEMMA ExpandProgress ==
  ASSUME NEW n \in Nat, NEW x \in Range(Routes), NEW y \in Range(Routes), NEW p \in Seq(AllOps), NEW done,
         Progress(p, done, n, x, TRUE), NEW Bs \in Seq(Seq(Nat)), x = y => Lists(FlattenSeq(Bs), 1..n)
  PROVE  Progress(Expand(p, y, Bs), done, n, x, TRUE)
<1>1. done \in Seq(Seq(Nat))
  BY DEF Progress
<1>2. ASSUME NEW b, Whole(b, n, TRUE)
      PROVE  Whole(FlattenSeq(done) \o Work(Expand(p, y, Bs), x, b), n, TRUE)
  <2> DEFINE c == IF x = y THEN FlattenSeq(Bs) ELSE b
  <2>1. b \in Seq(Nat)
    BY <1>2, WholeIs
  <2>2. Work(Expand(p, y, Bs), x, b) = Work(p, x, c)
    BY <2>1, WorkExpand
  <2>3. Whole(c, n, TRUE)
    BY <1>2 DEF Whole
  <2> HIDE DEF c
  <2>4. Whole(FlattenSeq(done) \o Work(p, x, c), n, TRUE)
    BY <2>3 DEF Progress
  <2> QED BY <2>2, <2>4
<1> QED BY <1>1, <1>2 DEF Progress

\* A finished program has forwarded every row.
LEMMA NoneLeft ==
  ASSUME NEW n \in Nat, NEW x, NEW dynamic, NEW done, Progress(<<>>, done, n, x, dynamic)
  PROVE  Whole(FlattenSeq(done), n, dynamic) /\ done \in Seq(Seq(Nat))
<1>1. done \in Seq(Seq(Nat)) /\ FlattenSeq(done) \in Seq(Nat)
  <2>1. done \in Seq(Seq(Nat))
    BY DEF Progress
  <2> QED BY <2>1, FlattenType
<1>2. Whole(Upto(n), n, dynamic)
  BY UptoIs DEF Whole
<1>3. Upto(n) \in Seq(Nat)
  BY <1>2, WholeIs
<1>4. Whole(FlattenSeq(done) \o Work(<<>>, x, Upto(n)), n, dynamic)
  BY <1>2 DEF Progress
<1>5. Work(<<>>, x, Upto(n)) = <<>>
  BY <1>3, WorkFacts
<1>6. FlattenSeq(done) \o <<>> = FlattenSeq(done)
  <2> DEFINE f == FlattenSeq(done)
  <2>1. f \in Seq(Nat)
    BY <1>1
  <2> HIDE DEF f
  <2>2. f \o <<>> = f
    BY <2>1
  <2> QED BY <2>2 DEF f
<1> QED BY <1>1, <1>4, <1>5, <1>6

\* What an operation is.
LEMMA OpIs ==
  ASSUME NEW o \in AllOps
  PROVE  /\ o.op = "count" => o.route \in Range(Routes) /\ o = CountOp(o.route)
         /\ o.op = "forward" => o.route \in Range(Routes) /\ o.rows \in Seq(Nat) /\ o = ForwardOp(o.route, o.rows)
         /\ o.op = "step" => o = StepOp
         /\ o.op # "reduce"
<1>1. CASE \E x \in Range(Routes) : o = CountOp(x)
  BY <1>1 DEF CountOp
<1>2. CASE \E x \in Range(Routes) : o = RunOp(x)
  BY <1>2 DEF RunOp
<1>3. CASE o = StepOp
  BY <1>3 DEF StepOp
<1>4. CASE \E x \in Range(Routes), s \in Seq(Nat) : o = ForwardOp(x, s)
  <2>1. PICK x \in Range(Routes), s \in Seq(Nat) : o = ForwardOp(x, s)
    BY <1>4
  <2>2. o.op = "forward" /\ o.route = x /\ o.rows = s
    BY <2>1 DEF ForwardOp
  <2> QED BY <2>1, <2>2
<1> QED BY <1>1, <1>2, <1>3, <1>4 DEF AllOps

-----------------------------------------------------------------------------
(* The programs of a call.                                                    *)

OfClean(local, v) == IF local["clean"] # <<>> THEN v ELSE <<>>

OfMasked(local, v) == IF local["masked"] # <<>> THEN v ELSE <<>>

LEMMA PresentIs ==
  ASSUME NEW local
  PROVE  /\ OfClean(local, <<"clean">>) \in Seq(Range(Routes)) /\ OfMasked(local, <<"masked">>) \in Seq(Range(Routes))
         /\ Present(local) \in Seq(Range(Routes))
         /\ Present(local) = OfClean(local, <<"clean">>) \o OfMasked(local, <<"masked">>)
<1> DEFINE f == [k \in DOMAIN Routes |-> IF local[Routes[k]] # <<>> THEN <<Routes[k]>> ELSE <<>>]
           S == Range(Routes)
<1>1. DOMAIN Routes = 1..2 /\ Routes[1] = "clean" /\ Routes[2] = "masked" /\ "clean" \in S /\ "masked" \in S
  BY TwoRoutes
<1>2. f[1] = OfClean(local, <<"clean">>) /\ f[2] = OfMasked(local, <<"masked">>)
  BY <1>1 DEF OfClean, OfMasked
<1>3. DOMAIN f = DOMAIN Routes /\ f = [k \in DOMAIN Routes |-> f[k]]
  OBVIOUS
<1>4. Present(local) = FlattenSeq(f)
  BY DEF Present
<1> HIDE DEF f, S
<1>5. f[1] \in Seq(S) /\ f[2] \in Seq(S)
  <2>1. <<"clean">> \in Seq(S) /\ <<"masked">> \in Seq(S) /\ <<>> \in Seq(S)
    BY <1>1
  <2> QED BY <1>2, <2>1 DEF OfClean, OfMasked
<1>6. FlattenSeq(f) = f[1] \o f[2] /\ FlattenSeq(f) \in Seq(S)
  BY <1>3, <1>5, FlattenRoutes
<1> QED BY <1>2, <1>4, <1>5, <1>6 DEF S

LEMMA MapPresent ==
  ASSUME NEW local, NEW T, NEW h \in [Range(Routes) -> Seq(T)]
  PROVE  /\ OfClean(local, h["clean"]) \in Seq(T) /\ OfMasked(local, h["masked"]) \in Seq(T)
         /\ Map(Present(local), h) \in Seq(T)
         /\ Map(Present(local), h) = OfClean(local, h["clean"]) \o OfMasked(local, h["masked"])
<1> DEFINE S == Range(Routes)
           a == OfClean(local, <<"clean">>)
           b == OfMasked(local, <<"masked">>)
<1>1. a \in Seq(S) /\ b \in Seq(S) /\ Present(local) = a \o b
  BY PresentIs
<1>2. "clean" \in S /\ "masked" \in S /\ h["clean"] \in Seq(T) /\ h["masked"] \in Seq(T) /\ <<>> \in Seq(T)
  BY TwoRoutes
<1>3. Map(a, h) = OfClean(local, h["clean"])
  BY <1>2, MapOne, MapNone DEF OfClean
<1>4. Map(b, h) = OfMasked(local, h["masked"])
  BY <1>2, MapOne, MapNone DEF OfMasked
<1>5. OfClean(local, h["clean"]) \in Seq(T) /\ OfMasked(local, h["masked"]) \in Seq(T)
  BY <1>2 DEF OfClean, OfMasked
<1> HIDE DEF S, a, b
<1>6. h \in [S -> Seq(T)]
  BY DEF S
<1>7. Map(a \o b, h) = Map(a, h) \o Map(b, h)
  BY <1>1, <1>6, MapConcat
<1>8. Map(a, h) \o Map(b, h) \in Seq(T)
  <2> DEFINE u == OfClean(local, h["clean"])
             v == OfMasked(local, h["masked"])
  <2>1. u \in Seq(T) /\ v \in Seq(T)
    BY <1>5
  <2> HIDE DEF u, v
  <2>2. u \o v \in Seq(T)
    BY <2>1
  <2> QED BY <1>3, <1>4, <2>2 DEF u, v
<1> QED BY <1>1, <1>3, <1>4, <1>5, <1>7, <1>8

\* What a program made of a piece for each present route forwards of a route.
Pieces(h, route, b, v) ==
  \A x \in Range(Routes) : Work(h[x], route, b) = IF x = route THEN v ELSE <<>>

LEMMA WorkPieces ==
  ASSUME NEW local, NEW h \in [Range(Routes) -> Seq(AllOps)], NEW route \in Range(Routes),
         NEW b \in Seq(Nat), NEW v \in Seq(Nat), Pieces(h, route, b, v)
  PROVE  Work(Map(Present(local), h), route, b) = IF local[route] # <<>> THEN v ELSE <<>>
<1> DEFINE P == OfClean(local, h["clean"])
           Q == OfMasked(local, h["masked"])
<1>1. P \in Seq(AllOps) /\ Q \in Seq(AllOps) /\ Map(Present(local), h) = P \o Q
  BY MapPresent
<1>2. "clean" \in Range(Routes) /\ "masked" \in Range(Routes) /\ route \in {"clean", "masked"} /\ "clean" # "masked"
  BY TwoRoutes
<1>3. Work(<<>>, route, b) = <<>>
  BY WorkFacts
<1>4. Work(P, route, b) = IF route = "clean" /\ local["clean"] # <<>> THEN v ELSE <<>>
  <2>1. Work(h["clean"], route, b) = IF route = "clean" THEN v ELSE <<>>
    BY <1>2 DEF Pieces
  <2>2. CASE local["clean"] # <<>>
    BY <2>1, <2>2 DEF OfClean
  <2>3. CASE local["clean"] = <<>>
    BY <1>3, <2>3 DEF OfClean
  <2> QED BY <2>2, <2>3
<1>5. Work(Q, route, b) = IF route = "masked" /\ local["masked"] # <<>> THEN v ELSE <<>>
  <2>1. Work(h["masked"], route, b) = IF route = "masked" THEN v ELSE <<>>
    BY <1>2 DEF Pieces
  <2>2. CASE local["masked"] # <<>>
    BY <2>1, <2>2 DEF OfMasked
  <2>3. CASE local["masked"] = <<>>
    BY <1>3, <2>3 DEF OfMasked
  <2> QED BY <2>2, <2>3
<1> HIDE DEF P, Q
<1>6. Work(P \o Q, route, b) = Work(P, route, b) \o Work(Q, route, b)
  BY <1>1, WorkFacts
<1>7. v \o <<>> = v /\ <<>> \o v = v /\ <<>> \o <<>> = <<>>
  OBVIOUS
<1>8. CASE route = "clean"
  BY <1>1, <1>2, <1>4, <1>5, <1>6, <1>7, <1>8
<1>9. CASE route = "masked"
  BY <1>1, <1>2, <1>4, <1>5, <1>6, <1>7, <1>9
<1> QED BY <1>2, <1>8, <1>9

\* The operations of a program made of a piece for each present route.
PiecesOk(h, local, dynamic) ==
  \A x \in Range(Routes) : local[x] # <<>> => h[x] \in Seq(OpsOf(local, dynamic))

LEMMA OpsPieces ==
  ASSUME NEW local, NEW dynamic, NEW h \in [Range(Routes) -> Seq(AllOps)], PiecesOk(h, local, dynamic)
  PROVE  Map(Present(local), h) \in Seq(OpsOf(local, dynamic))
<1> DEFINE P == OfClean(local, h["clean"])
           Q == OfMasked(local, h["masked"])
           T == OpsOf(local, dynamic)
<1>1. Map(Present(local), h) = P \o Q
  BY MapPresent
<1>2. "clean" \in Range(Routes) /\ "masked" \in Range(Routes)
  BY TwoRoutes
<1>3. P \in Seq(T) /\ Q \in Seq(T)
  BY <1>2 DEF OfClean, OfMasked, PiecesOk
<1> HIDE DEF P, Q, T
<1>4. P \o Q \in Seq(T)
  BY <1>3
<1> QED BY <1>1, <1>4 DEF T

\* Of a call on rows of a rank.
LocalOk(local) == \A x \in Range(Routes) : local[x] \in Seq(Nat)

ProgramOk(p, local, dynamic) ==
  /\ p \in Seq(OpsOf(local, dynamic))
  /\ \A x \in Range(Routes) : Progress(p, <<>>, Len(local[x]), x, dynamic)

\* A program forwards all rows when its work is b, or the rows in their order.
LEMMA AllForwarded ==
  ASSUME NEW local, LocalOk(local), NEW route \in Range(Routes), NEW dynamic, NEW p,
         \A b \in Seq(Nat) : Whole(b, Len(local[route]), dynamic) =>
           \/ local[route] = <<>> /\ Work(p, route, b) = <<>>
           \/ Work(p, route, b) = b
           \/ Work(p, route, b) = Upto(Len(local[route]))
  PROVE  Progress(p, <<>>, Len(local[route]), route, dynamic)
<1> DEFINE n == Len(local[route])
           s == local[route]
<1>1. s \in Seq(Nat) /\ n \in Nat /\ n = Len(s)
  BY DEF LocalOk
<1>2. <<>> \in Seq(Seq(Nat)) /\ FlattenSeq(<<>>) = <<>>
  BY FlattenNone
<1> HIDE DEF n, s
<1>3. Whole(Upto(n), n, dynamic) /\ Upto(n) \in Seq(Nat)
  <2>1. Whole(Upto(n), n, dynamic)
    BY <1>1, UptoIs DEF Whole
  <2> QED BY <1>1, <2>1, WholeIs
<1>4. s = <<>> => n = 0 /\ Upto(n) = <<>>
  <2>1. s = <<>> => n = 0
    BY <1>1
  <2>2. Upto(0) = <<>>
    BY DEF Upto
  <2> QED BY <2>1, <2>2
<1>5. ASSUME NEW b, Whole(b, n, dynamic)
      PROVE  Whole(FlattenSeq(<<>>) \o Work(p, route, b), n, dynamic)
  <2> DEFINE t == Work(p, route, b)
  <2>1. b \in Seq(Nat)
    BY <1>1, <1>5, WholeIs
  <2>2. (s = <<>> /\ t = <<>>) \/ t = b \/ t = Upto(n)
    BY <1>5, <2>1 DEF n, s
  <2> HIDE DEF t
  <2>3. Whole(t, n, dynamic) /\ t \in Seq(Nat)
    BY <1>3, <1>4, <1>5, <2>1, <2>2
  <2>4. <<>> \o t = t
    BY <2>3
  <2> QED BY <1>2, <2>3, <2>4 DEF t
<1> QED BY <1>2, <1>5 DEF Progress, n

Packs  == [x \in Range(Routes) |-> <<CountOp(x), RunOp(x)>>]

Counts == [x \in Range(Routes) |-> <<CountOp(x)>>]

Runs   == [x \in Range(Routes) |-> <<RunOp(x)>>]

Fixed(local) == [x \in Range(Routes) |-> FixedForwards(local, x)]

LEMMA PiecesAre ==
  ASSUME NEW local, LocalOk(local), NEW route \in Range(Routes), NEW b \in Seq(Nat)
  PROVE  /\ Packs \in [Range(Routes) -> Seq(AllOps)] /\ Pieces(Packs, route, b, b)
         /\ Counts \in [Range(Routes) -> Seq(AllOps)] /\ Pieces(Counts, route, b, <<>>)
         /\ Runs \in [Range(Routes) -> Seq(AllOps)] /\ Pieces(Runs, route, b, b)
<1>1. ASSUME NEW x \in Range(Routes)
      PROVE  /\ <<CountOp(x)>> \in Seq(AllOps) /\ Work(<<CountOp(x)>>, route, b) = <<>>
             /\ <<RunOp(x)>> \in Seq(AllOps) /\ Work(<<RunOp(x)>>, route, b) = IF x = route THEN b ELSE <<>>
             /\ <<CountOp(x), RunOp(x)>> \in Seq(AllOps)
             /\ Work(<<CountOp(x), RunOp(x)>>, route, b) = IF x = route THEN b ELSE <<>>
  <2> DEFINE c == <<CountOp(x)>>
             r == <<RunOp(x)>>
             v == IF x = route THEN b ELSE <<>>
  <2>1. /\ CountOp(x) \in AllOps /\ Done(route, b)[CountOp(x)] = <<>>
        /\ RunOp(x) \in AllOps /\ Done(route, b)[RunOp(x)] = v
    BY DoneIs
  <2>2. c \in Seq(AllOps) /\ Work(c, route, b) = <<>> /\ r \in Seq(AllOps) /\ Work(r, route, b) = v
    BY <2>1, WorkFacts
  <2>3. <<CountOp(x), RunOp(x)>> = c \o r
    OBVIOUS
  <2>4. v \in Seq(Nat)
    OBVIOUS
  <2> HIDE DEF c, r, v
  <2>5. Work(c \o r, route, b) = Work(c, route, b) \o Work(r, route, b) /\ c \o r \in Seq(AllOps)
    <3>1. Work(c \o r, route, b) = Work(c, route, b) \o Work(r, route, b)
      BY <2>2, WorkFacts
    <3>2. c \o r \in Seq(AllOps)
      BY <2>2
    <3> QED BY <3>1, <3>2
  <2>6. <<>> \o v = v
    BY <2>4
  <2> QED BY <2>2, <2>3, <2>5, <2>6 DEF c, r, v
<1>2. Packs \in [Range(Routes) -> Seq(AllOps)] /\ Pieces(Packs, route, b, b)
  <2>1. \A x \in Range(Routes) : Packs[x] = <<CountOp(x), RunOp(x)>>
    BY DEF Packs
  <2>2. Packs \in [Range(Routes) -> Seq(AllOps)]
    BY <1>1 DEF Packs
  <2> QED BY <1>1, <2>1, <2>2 DEF Pieces
<1>3. Counts \in [Range(Routes) -> Seq(AllOps)] /\ Pieces(Counts, route, b, <<>>)
  <2>1. \A x \in Range(Routes) : Counts[x] = <<CountOp(x)>>
    BY DEF Counts
  <2>2. Counts \in [Range(Routes) -> Seq(AllOps)]
    BY <1>1 DEF Counts
  <2> QED BY <1>1, <2>1, <2>2 DEF Pieces
<1>4. Runs \in [Range(Routes) -> Seq(AllOps)] /\ Pieces(Runs, route, b, b)
  <2>1. \A x \in Range(Routes) : Runs[x] = <<RunOp(x)>>
    BY DEF Runs
  <2>2. Runs \in [Range(Routes) -> Seq(AllOps)]
    BY <1>1 DEF Runs
  <2> QED BY <1>1, <2>1, <2>2 DEF Pieces
<1> QED BY <1>2, <1>3, <1>4

LEMMA FixedIs ==
  ASSUME config \in Configs, NEW local, LocalOk(local), NEW route \in Range(Routes), NEW b \in Seq(Nat)
  PROVE  /\ Fixed(local) \in [Range(Routes) -> Seq(AllOps)]
         /\ Pieces(Fixed(local), route, b, Upto(Len(local[route])))
<1>1. ASSUME NEW x \in Range(Routes)
      PROVE  /\ Fixed(local)[x] \in Seq(AllOps)
             /\ Work(Fixed(local)[x], route, b) = IF x = route THEN Upto(Len(local[x])) ELSE <<>>
  <2> DEFINE n == Len(local[x])
             Bs == Splits(n, config.micro)
  <2>1. n \in Nat /\ config.micro \in Nat \ {0}
    BY ConfigFacts DEF LocalOk
  <2>2. Fixed(local)[x] = Forwards(x, Bs)
    BY DEF Fixed, FixedForwards
  <2> HIDE DEF n
  <2>3. Bs \in Seq(Seq(1..n)) /\ FlattenSeq(Bs) = Upto(n)
    BY <2>1, SplitsAre
  <2> HIDE DEF Bs
  <2>4. Bs \in Seq(Seq(Nat))
    <3>1. 1..n \in SUBSET Nat
      OBVIOUS
    <3>2. \A z \in Seq(1..n) : z \in Seq(Nat)
      BY <3>1, SeqWider
    <3> DEFINE Q == Seq(1..n)
               R == Seq(Nat)
    <3>3. Q \in SUBSET R /\ Bs \in Seq(Q)
      BY <2>3, <3>2
    <3> HIDE DEF Q, R
    <3>4. Bs \in Seq(R)
      BY <3>3, SeqWider
    <3> QED BY <3>4 DEF R
  <2>5. /\ Forwards(x, Bs) \in Seq(AllOps)
        /\ Work(Forwards(x, Bs), route, b) = IF x = route THEN FlattenSeq(Bs) ELSE <<>>
    BY <2>4, WorkForwards
  <2> QED BY <2>2, <2>3, <2>5 DEF n
<1>2. Fixed(local) \in [Range(Routes) -> Seq(AllOps)]
  <2>1. Fixed(local) = [x \in Range(Routes) |-> Fixed(local)[x]]
    BY DEF Fixed
  <2> QED BY <1>1, <2>1
<1> QED BY <1>1, <1>2 DEF Pieces

LEMMA OpsOfIs ==
  ASSUME NEW local, NEW dynamic
  PROVE  /\ OpsOf(local, dynamic) \in SUBSET AllOps /\ StepOp \in OpsOf(local, dynamic)
         /\ \A x \in Range(Routes), s \in Seq(Nat) : ForwardOp(x, s) \in OpsOf(local, dynamic)
         /\ \A x \in Range(Routes) : dynamic /\ local[x] # <<>> =>
              CountOp(x) \in OpsOf(local, dynamic) /\ RunOp(x) \in OpsOf(local, dynamic)
<1>1. StepOp.op = "step" /\ StepOp \in AllOps
  BY DEF StepOp, AllOps
<1>2. ASSUME NEW x \in Range(Routes)
      PROVE  /\ CountOp(x).route = x /\ CountOp(x) \in AllOps /\ RunOp(x).route = x /\ RunOp(x) \in AllOps
             /\ \A s \in Seq(Nat) : ForwardOp(x, s).op = "forward" /\ ForwardOp(x, s) \in AllOps
  BY DEF CountOp, RunOp, ForwardOp, AllOps
<1>3. OpsOf(local, dynamic) = {o \in AllOps : o.op \in {"count", "run"} => dynamic /\ local[o.route] # <<>>}
  BY DEF OpsOf
<1>4. StepOp \in OpsOf(local, dynamic)
  BY <1>1, <1>3
<1>5. \A x \in Range(Routes), s \in Seq(Nat) : ForwardOp(x, s) \in OpsOf(local, dynamic)
  BY <1>2, <1>3
<1>6. \A x \in Range(Routes) : dynamic /\ local[x] # <<>> =>
              CountOp(x) \in OpsOf(local, dynamic) /\ RunOp(x) \in OpsOf(local, dynamic)
  BY <1>2, <1>3
<1> QED BY <1>3, <1>4, <1>5, <1>6

LEMMA ForwardsOps ==
  ASSUME NEW local, NEW dynamic, NEW x \in Range(Routes), NEW Bs \in Seq(Seq(Nat))
  PROVE  Forwards(x, Bs) \in Seq(OpsOf(local, dynamic))
<1> DEFINE Q == Seq(Nat)
           T == OpsOf(local, dynamic)
           f == Forwards(x, Bs)
<1>1. \A s \in Q : ForwardOp(x, s) \in T
  BY OpsOfIs
<1>2. f = [m \in DOMAIN Bs |-> ForwardOp(x, Bs[m])]
  BY DEF Forwards, ForwardOp
<1>3. Bs \in Seq(Q)
  OBVIOUS
<1> HIDE DEF Q, T, f
<1>4. Len(Bs) \in Nat /\ DOMAIN Bs = 1..Len(Bs) /\ \A m \in DOMAIN Bs : Bs[m] \in Q
  BY <1>3, SeqElements
<1>5. f \in Seq(T)
  BY <1>1, <1>2, <1>4
<1> QED BY <1>5 DEF f, T

LEMMA MappedPresent ==
  ASSUME NEW local
  PROVE  LET routes == Present(local)
         IN  /\ [k \in DOMAIN routes |-> <<CountOp(routes[k]), RunOp(routes[k])>>] = Mapped(routes, Packs)
             /\ [k \in DOMAIN routes |-> FixedForwards(local, routes[k])] = Mapped(routes, Fixed(local))
             /\ [k \in DOMAIN routes |-> <<CountOp(routes[k])>>] = Mapped(routes, Counts)
             /\ [k \in DOMAIN routes |-> <<RunOp(routes[k])>>] = Mapped(routes, Runs)
             /\ [k \in DOMAIN routes |-> CountOp(routes[k])] = Map(routes, Counts)
             /\ [k \in DOMAIN routes |-> RunOp(routes[k])] = Map(routes, Runs)
<1> DEFINE routes == Present(local)
           c == [k \in DOMAIN routes |-> CountOp(routes[k])]
           r == [k \in DOMAIN routes |-> RunOp(routes[k])]
<1>1. routes \in Seq(Range(Routes))
  BY PresentIs
<1> HIDE DEF routes
<1>2. Len(routes) \in Nat /\ DOMAIN routes = 1..Len(routes) /\ \A k \in DOMAIN routes : routes[k] \in Range(Routes)
  BY <1>1, SeqElements
<1>3. /\ [k \in DOMAIN routes |-> <<CountOp(routes[k]), RunOp(routes[k])>>] = Mapped(routes, Packs)
      /\ [k \in DOMAIN routes |-> FixedForwards(local, routes[k])] = Mapped(routes, Fixed(local))
      /\ [k \in DOMAIN routes |-> <<CountOp(routes[k])>>] = Mapped(routes, Counts)
      /\ [k \in DOMAIN routes |-> <<RunOp(routes[k])>>] = Mapped(routes, Runs)
  <2>1. \A k \in DOMAIN routes : /\ Packs[routes[k]] = <<CountOp(routes[k]), RunOp(routes[k])>>
                                 /\ Fixed(local)[routes[k]] = FixedForwards(local, routes[k])
                                 /\ Counts[routes[k]] = <<CountOp(routes[k])>>
                                 /\ Runs[routes[k]] = <<RunOp(routes[k])>>
    BY <1>2 DEF Packs, Fixed, Counts, Runs
  <2>2. Mapped(routes, Packs) = [k \in DOMAIN routes |-> Packs[routes[k]]]
    BY DEF Mapped
  <2>3. Mapped(routes, Fixed(local)) = [k \in DOMAIN routes |-> Fixed(local)[routes[k]]]
    BY DEF Mapped
  <2>4. Mapped(routes, Counts) = [k \in DOMAIN routes |-> Counts[routes[k]]]
    BY DEF Mapped
  <2>5. Mapped(routes, Runs) = [k \in DOMAIN routes |-> Runs[routes[k]]]
    BY DEF Mapped
  <2>6. [k \in DOMAIN routes |-> Packs[routes[k]]] = [k \in DOMAIN routes |-> <<CountOp(routes[k]), RunOp(routes[k])>>]
    BY <2>1
  <2>7. [k \in DOMAIN routes |-> Fixed(local)[routes[k]]] = [k \in DOMAIN routes |-> FixedForwards(local, routes[k])]
    BY <2>1
  <2>8. [k \in DOMAIN routes |-> Counts[routes[k]]] = [k \in DOMAIN routes |-> <<CountOp(routes[k])>>]
    BY <2>1
  <2>9. [k \in DOMAIN routes |-> Runs[routes[k]]] = [k \in DOMAIN routes |-> <<RunOp(routes[k])>>]
    BY <2>1
  <2> QED BY <2>2, <2>3, <2>4, <2>5, <2>6, <2>7, <2>8, <2>9
<1>4. \A x \in Range(Routes) : CountOp(x) \in AllOps /\ RunOp(x) \in AllOps
  BY DEF AllOps
<1>5. c = Map(routes, Counts)
  <2>1. c \in Seq(AllOps) /\ DOMAIN c = DOMAIN routes
    BY <1>2, <1>4
  <2>2. \A k \in DOMAIN routes : c[k] = CountOp(routes[k])
    OBVIOUS
  <2> HIDE DEF c
  <2>3. [i \in DOMAIN c |-> <<c[i]>>] = [k \in DOMAIN routes |-> <<CountOp(routes[k])>>]
    BY <2>1, <2>2
  <2>4. FlattenSeq([i \in DOMAIN c |-> <<c[i]>>]) = c
    BY <2>1, FlattenSingles
  <2> QED BY <1>3, <2>3, <2>4 DEF Map
<1>6. r = Map(routes, Runs)
  <2>1. r \in Seq(AllOps) /\ DOMAIN r = DOMAIN routes
    BY <1>2, <1>4
  <2>2. \A k \in DOMAIN routes : r[k] = RunOp(routes[k])
    OBVIOUS
  <2> HIDE DEF r
  <2>3. [i \in DOMAIN r |-> <<r[i]>>] = [k \in DOMAIN routes |-> <<RunOp(routes[k])>>]
    BY <2>1, <2>2
  <2>4. FlattenSeq([i \in DOMAIN r |-> <<r[i]>>]) = r
    BY <2>1, FlattenSingles
  <2> QED BY <1>3, <2>3, <2>4 DEF Map
<1> QED BY <1>3, <1>5, <1>6 DEF routes

LEMMA PresentOps ==
  ASSUME config \in Configs, NEW local, LocalOk(local), NEW dynamic
  PROVE  /\ Map(Present(local), Fixed(local)) \in Seq(OpsOf(local, dynamic))
         /\ dynamic => /\ Map(Present(local), Packs) \in Seq(OpsOf(local, dynamic))
                       /\ Map(Present(local), Counts) \in Seq(OpsOf(local, dynamic))
                       /\ Map(Present(local), Runs) \in Seq(OpsOf(local, dynamic))
<1> DEFINE T == OpsOf(local, dynamic)
<1>0. "clean" \in Range(Routes) /\ <<>> \in Seq(Nat)
  BY TwoRoutes
<1>1. /\ Packs \in [Range(Routes) -> Seq(AllOps)] /\ Counts \in [Range(Routes) -> Seq(AllOps)]
      /\ Runs \in [Range(Routes) -> Seq(AllOps)] /\ Fixed(local) \in [Range(Routes) -> Seq(AllOps)]
  BY <1>0, PiecesAre, FixedIs
<1>2. PiecesOk(Fixed(local), local, dynamic)
  <2>1. ASSUME NEW x \in Range(Routes) PROVE Fixed(local)[x] \in Seq(T)
    <3> DEFINE n == Len(local[x])
               Bs == Splits(n, config.micro)
    <3>1. n \in Nat /\ config.micro \in Nat \ {0}
      BY ConfigFacts DEF LocalOk
    <3>2. Fixed(local)[x] = Forwards(x, Bs)
      BY DEF Fixed, FixedForwards
    <3> HIDE DEF n
    <3>3. Bs \in Seq(Seq(1..n))
      BY <3>1, SplitsAre
    <3> HIDE DEF Bs, T
    <3>4. Bs \in Seq(Seq(Nat))
      <4>1. 1..n \in SUBSET Nat
        OBVIOUS
      <4>2. \A z \in Seq(1..n) : z \in Seq(Nat)
        BY <4>1, SeqWider
      <4> DEFINE Q == Seq(1..n)
                 R == Seq(Nat)
      <4>3. Q \in SUBSET R /\ Bs \in Seq(Q)
        BY <3>3, <4>2
      <4> HIDE DEF Q, R
      <4>4. Bs \in Seq(R)
        BY <4>3, SeqWider
      <4> QED BY <4>4 DEF R
    <3> QED BY <3>2, <3>4, ForwardsOps DEF T
  <2> QED BY <2>1 DEF PiecesOk
<1>3. dynamic => PiecesOk(Packs, local, dynamic) /\ PiecesOk(Counts, local, dynamic) /\ PiecesOk(Runs, local, dynamic)
  <2> SUFFICES ASSUME dynamic
               PROVE  PiecesOk(Packs, local, dynamic) /\ PiecesOk(Counts, local, dynamic) /\ PiecesOk(Runs, local, dynamic)
    OBVIOUS
  <2>1. ASSUME NEW x \in Range(Routes), local[x] # <<>>
        PROVE  Packs[x] \in Seq(T) /\ Counts[x] \in Seq(T) /\ Runs[x] \in Seq(T)
    <3>1. CountOp(x) \in T /\ RunOp(x) \in T
      BY <2>1, OpsOfIs
    <3>2. Packs[x] = <<CountOp(x), RunOp(x)>> /\ Counts[x] = <<CountOp(x)>> /\ Runs[x] = <<RunOp(x)>>
      BY DEF Packs, Counts, Runs
    <3> HIDE DEF T
    <3> QED BY <3>1, <3>2
  <2> QED BY <2>1 DEF PiecesOk
<1> QED BY <1>1, <1>2, <1>3, OpsPieces

LEMMA LogProbProgramIs ==
  ASSUME config \in Configs, NEW local, LocalOk(local)
  PROVE  ProgramOk(LogProbProgram(local), local, config.dynamic)
<1> DEFINE p == LogProbProgram(local)
           routes == Present(local)
<1>1. p = Map(routes, IF config.dynamic THEN Packs ELSE Fixed(local))
  <2>1. CASE config.dynamic
    <3>1. p = FlattenSeq([k \in DOMAIN routes |-> <<CountOp(routes[k]), RunOp(routes[k])>>])
      BY <2>1 DEF LogProbProgram
    <3> QED BY <2>1, <3>1, MappedPresent DEF Map
  <2>2. CASE ~config.dynamic
    <3>1. p = FlattenSeq([k \in DOMAIN routes |-> FixedForwards(local, routes[k])])
      BY <2>2 DEF LogProbProgram
    <3> QED BY <2>2, <3>1, MappedPresent DEF Map
  <2> QED BY <2>1, <2>2
<1> HIDE DEF p, routes
<1>2. p \in Seq(OpsOf(local, config.dynamic))
  BY <1>1, PresentOps DEF routes
<1>3. ASSUME NEW x \in Range(Routes) PROVE Progress(p, <<>>, Len(local[x]), x, config.dynamic)
  <2>1. ASSUME NEW b \in Seq(Nat)
        PROVE  \/ local[x] = <<>> /\ Work(p, x, b) = <<>>
               \/ Work(p, x, b) = b
               \/ Work(p, x, b) = Upto(Len(local[x]))
    <3>1. CASE config.dynamic
      <4>1. Work(p, x, b) = IF local[x] # <<>> THEN b ELSE <<>>
        <5>1. Packs \in [Range(Routes) -> Seq(AllOps)] /\ Pieces(Packs, x, b, b)
          BY PiecesAre
        <5> QED BY <1>1, <3>1, <5>1, WorkPieces DEF routes
      <4> QED BY <4>1
    <3>2. CASE ~config.dynamic
      <4> DEFINE v == Upto(Len(local[x]))
      <4>1. Fixed(local) \in [Range(Routes) -> Seq(AllOps)] /\ Pieces(Fixed(local), x, b, v)
        BY FixedIs
      <4>2. v \in Seq(Nat)
        <5> DEFINE n == Len(local[x])
        <5>1. n \in Nat
          BY DEF LocalOk
        <5> HIDE DEF n
        <5>2. Upto(n) \in Seq(1..n) /\ 1..n \in SUBSET Nat
          BY <5>1, UptoIs
        <5>3. Upto(n) \in Seq(Nat)
          BY <5>2, SeqWider
        <5> QED BY <5>3 DEF n
      <4> HIDE DEF v
      <4>3. Work(p, x, b) = IF local[x] # <<>> THEN v ELSE <<>>
        BY <1>1, <3>2, <4>1, <4>2, WorkPieces DEF routes
      <4> QED BY <4>3 DEF v
    <3> QED BY <3>1, <3>2
  <2> QED BY <2>1, AllForwarded
<1> QED BY <1>2, <1>3 DEF ProgramOk, p

LEMMA UpdateProgramIs ==
  ASSUME config \in Configs, NEW local, LocalOk(local)
  PROVE  ProgramOk(UpdateProgram(local), local, config.dynamic)
<1> DEFINE p == UpdateProgram(local)
           C == Map(Present(local), Counts)
           R == Map(Present(local), Runs)
           F == Map(Present(local), Fixed(local))
           s == <<StepOp>>
           T == OpsOf(local, config.dynamic)
<1>1. p = IF config.dynamic THEN (C \o R) \o s ELSE F \o s
  BY MappedPresent DEF UpdateProgram, Map
<1>2. s \in Seq(T) /\ F \in Seq(T) /\ T \in SUBSET AllOps /\ (config.dynamic => C \in Seq(T) /\ R \in Seq(T))
  <2>1. StepOp \in T /\ T \in SUBSET AllOps
    BY OpsOfIs
  <2> QED BY <2>1, PresentOps
<1>w. \A t \in Seq(T) : t \in Seq(AllOps)
  BY <1>2, SeqWider
<1>3. \A x, b : b \in Seq(Nat) => Work(s, x, b) = <<>>
  <2>1. ASSUME NEW x, NEW b \in Seq(Nat) PROVE Work(s, x, b) = <<>>
    <3>1. StepOp \in AllOps /\ Done(x, b)[StepOp] = <<>>
      BY DoneIs
    <3> QED BY <3>1, WorkFacts
  <2> QED BY <2>1
<1>4. ASSUME NEW x \in Range(Routes), NEW b \in Seq(Nat)
      PROVE  /\ config.dynamic => Work(C, x, b) = <<>>
             /\ config.dynamic => Work(R, x, b) = IF local[x] # <<>> THEN b ELSE <<>>
             /\ Work(F, x, b) = IF local[x] # <<>> THEN Upto(Len(local[x])) ELSE <<>>
             /\ Upto(Len(local[x])) \in Seq(Nat)
  <2> DEFINE v == Upto(Len(local[x]))
             e == <<>>
  <2>1. /\ Counts \in [Range(Routes) -> Seq(AllOps)] /\ Pieces(Counts, x, b, e)
        /\ Runs \in [Range(Routes) -> Seq(AllOps)] /\ Pieces(Runs, x, b, b)
        /\ Fixed(local) \in [Range(Routes) -> Seq(AllOps)] /\ Pieces(Fixed(local), x, b, v)
    BY PiecesAre, FixedIs
  <2>2. v \in Seq(Nat)
    <3> DEFINE n == Len(local[x])
    <3>1. n \in Nat
      BY DEF LocalOk
    <3> HIDE DEF n
    <3>2. Upto(n) \in Seq(1..n) /\ 1..n \in SUBSET Nat
      BY <3>1, UptoIs
    <3>3. Upto(n) \in Seq(Nat)
      BY <3>2, SeqWider
    <3> QED BY <3>3 DEF n
  <2>3. e \in Seq(Nat)
    OBVIOUS
  <2> HIDE DEF v
  <2>4. Work(F, x, b) = IF local[x] # <<>> THEN v ELSE <<>>
    BY <2>1, <2>2, WorkPieces
  <2>5. Work(R, x, b) = IF local[x] # <<>> THEN b ELSE <<>>
    BY <2>1, WorkPieces
  <2>6. Work(C, x, b) = IF local[x] # <<>> THEN e ELSE <<>>
    <3> HIDE DEF e
    <3> QED BY <2>1, <2>3, WorkPieces
  <2> QED BY <2>2, <2>4, <2>5, <2>6 DEF v
<1> HIDE DEF C, R, F, s, T
<1>5. p \in Seq(T)
  <2>1. CASE config.dynamic
    <3>1. C \o R \in Seq(T)
      BY <1>2, <2>1
    <3> DEFINE u == C \o R
    <3> HIDE DEF u, p
    <3>2. u \o s \in Seq(T)
      BY <1>2, <3>1 DEF u
    <3> QED BY <1>1, <2>1, <3>2 DEF u
  <2>2. CASE ~config.dynamic
    <3>1. F \o s \in Seq(T)
      BY <1>2
    <3> HIDE DEF p
    <3> QED BY <1>1, <2>2, <3>1
  <2> QED BY <2>1, <2>2
<1> HIDE DEF p
<1>6. ASSUME NEW x \in Range(Routes) PROVE Progress(p, <<>>, Len(local[x]), x, config.dynamic)
  <2>1. ASSUME NEW b \in Seq(Nat)
        PROVE  \/ local[x] = <<>> /\ Work(p, x, b) = <<>>
               \/ Work(p, x, b) = b
               \/ Work(p, x, b) = Upto(Len(local[x]))
    <3>1. s \in Seq(AllOps) /\ F \in Seq(AllOps) /\ (config.dynamic => C \in Seq(AllOps) /\ R \in Seq(AllOps))
      BY <1>2, <1>w
    <3>2. Work(s, x, b) = <<>>
      BY <1>3
    <3>3. CASE config.dynamic
      <4> DEFINE u == C \o R
                 z == IF local[x] # <<>> THEN b ELSE <<>>
      <4>1. u \in Seq(AllOps) /\ Work(u, x, b) = Work(C, x, b) \o Work(R, x, b)
        <5>1. C \in Seq(AllOps) /\ R \in Seq(AllOps)
          BY <3>1, <3>3
        <5>2. Work(C \o R, x, b) = Work(C, x, b) \o Work(R, x, b)
          BY <5>1, WorkFacts
        <5>3. C \o R \in Seq(AllOps)
          BY <5>1
        <5> QED BY <5>2, <5>3
      <4>2. p = u \o s
        BY <1>1, <3>3
      <4>3. z \in Seq(Nat) /\ Work(C, x, b) = <<>> /\ Work(R, x, b) = z
        BY <1>4, <3>3
      <4> HIDE DEF u, z
      <4>4. Work(u \o s, x, b) = Work(u, x, b) \o Work(s, x, b)
        BY <3>1, <4>1, WorkFacts
      <4>5. (<<>> \o z) \o <<>> = z
        BY <4>3
      <4>6. Work(p, x, b) = z
        BY <3>2, <4>1, <4>2, <4>3, <4>4, <4>5
      <4> QED BY <4>6 DEF z
    <3>4. CASE ~config.dynamic
      <4> DEFINE z == IF local[x] # <<>> THEN Upto(Len(local[x])) ELSE <<>>
      <4>1. z \in Seq(Nat) /\ Work(F, x, b) = z
        BY <1>4
      <4>2. p = F \o s
        BY <1>1, <3>4
      <4> HIDE DEF z
      <4>3. Work(F \o s, x, b) = Work(F, x, b) \o Work(s, x, b)
        BY <3>1, WorkFacts
      <4>4. z \o <<>> = z
        BY <4>1
      <4>5. Work(p, x, b) = z
        BY <3>2, <4>1, <4>2, <4>3, <4>4
      <4> QED BY <4>5 DEF z
    <3> QED BY <3>3, <3>4
  <2> QED BY <2>1, AllForwarded
<1> QED BY <1>5, <1>6 DEF ProgramOk, p, T

-----------------------------------------------------------------------------
(* The calls on the actor.                                                    *)

Calls == {"run_log_prob", "run_update"}

ShardsNow ==
  shard = [r \in 1..config.world |-> [x \in Range(Routes) |-> OrdersOf(batch, config, r, x)]]

RankProgress(r) ==
  /\ DOMAIN ran[r] = Range(Routes)
  /\ prog[r] \in Seq(OpsOf(shard[r], config.dynamic))
  /\ \A x \in Range(Routes) : Progress(prog[r], ran[r][x], Len(shard[r][x]), x, config.dynamic)

\* Every rank's program, with what it has done, has each row of its shard forwarded once.
CallInv ==
  /\ pc \in Calls \cup {"run_refresh", "done"} => ShardsNow
  /\ pc \in Calls => \A r \in 1..config.world : RankProgress(r)
  /\ pc \in {"generate", "balance", "log_prob", "update", "done"} => \A r \in 1..config.world : prog[r] = <<>>
  /\ pc = "run_refresh" => \A r \in 1..config.world : prog[r] \in {<<>>, <<ReduceOp>>}

LEMMA ShardFacts ==
  ASSUME RowsInv, ShardsNow, NEW r \in 1..config.world, NEW x \in Range(Routes)
  PROVE  /\ shard[r][x] = OrdersOf(batch, config, r, x) /\ shard[r][x] \in Seq(1..Rows(config))
         /\ Lists(shard[r][x], OrderSet(batch, config, r, x))
         /\ shard[r][x] \in Seq(Nat) /\ Len(shard[r][x]) \in Nat
<1>1. shard[r][x] = OrdersOf(batch, config, r, x)
  BY DEF ShardsNow
<1>2. config \in Configs /\ BatchOk(batch, config)
  BY DEF RowsInv
<1>3. OrdersOf(batch, config, r, x) \in Seq(1..Rows(config)) /\ Lists(OrdersOf(batch, config, r, x), OrderSet(batch, config, r, x))
  BY <1>2, OrdersOfIs
<1>4. 1..Rows(config) \in SUBSET Nat
  OBVIOUS
<1>5. shard[r][x] \in Seq(Nat)
  BY <1>1, <1>3, <1>4, SeqWider
<1> QED BY <1>1, <1>3, <1>5

LEMMA LocalLens ==
  ASSUME RowsInv, ShardsNow, pc \notin {"generate", "failed"}, NEW r \in 1..config.world, NEW x \in Range(Routes)
  PROVE  LensOf(shard[r][x]) \in Seq(Nat \ {0}) /\ Len(LensOf(shard[r][x])) = Len(shard[r][x])
<1> DEFINE s == shard[r][x]
           n == Rows(config)
           f == LensOf(s)
<1>1. s \in Seq(1..n)
  BY ShardFacts
<1>2. /\ \A i \in 1..n : lens[i] \in config.lens
      /\ config.lens \subseteq 1..config.maxTokens /\ config.maxTokens \in Nat \ {0}
  BY ConfigFacts DEF RowsInv
<1>3. f = [i \in DOMAIN s |-> lens[s[i]]]
  BY DEF LensOf
<1> HIDE DEF s, n, f
<1>4. Len(s) \in Nat /\ DOMAIN s = 1..Len(s) /\ \A i \in DOMAIN s : s[i] \in 1..n
  BY <1>1, SeqElements
<1>5. \A i \in 1..Len(s) : lens[s[i]] \in Nat \ {0}
  BY <1>2, <1>4
<1>6. f \in Seq(Nat \ {0}) /\ Len(f) = Len(s)
  BY <1>3, <1>4, <1>5
<1> QED BY <1>6 DEF f, s

\* A call starts with all rows to forward.
LEMMA DispatchKeeps ==
  ASSUME RowsInv, DispatchLogProb \/ DispatchUpdate
  PROVE  CallInv'
<1>1. /\ shard' = [r \in Ranks |-> [route \in Range(Routes) |-> RouteBatch(r, route)]]
      /\ ran' = [r \in Ranks |-> [route \in Range(Routes) |-> <<>>]]
      /\ config' = config /\ batch' = batch /\ pc' \in Calls
      /\ \A r \in Ranks : prog'[r] = LogProbProgram(shard'[r]) \/ prog'[r] = UpdateProgram(shard'[r])
  <2>1. CASE DispatchLogProb
    BY <2>1 DEF DispatchLogProb, Dispatch, Calls
  <2>2. CASE DispatchUpdate
    BY <2>2 DEF DispatchUpdate, Dispatch, Calls
  <2> QED BY <2>1, <2>2
<1>2. config \in Configs /\ BatchOk(batch, config) /\ Ranks = 1..config.world
  BY DEF RowsInv, Ranks
<1>3. shard' = [r \in 1..config.world |-> [x \in Range(Routes) |-> OrdersOf(batch, config, r, x)]]
  BY <1>1, <1>2 DEF RouteBatch, ActorShard, OrdersOf
<1>4. ASSUME NEW r \in 1..config.world
      PROVE  /\ DOMAIN ran'[r] = Range(Routes)
             /\ prog'[r] \in Seq(OpsOf(shard'[r], config.dynamic))
             /\ \A x \in Range(Routes) : Progress(prog'[r], ran'[r][x], Len(shard'[r][x]), x, config.dynamic)
  <2> DEFINE local == shard'[r]
             p == prog'[r]
  <2>1. LocalOk(local)
    <3>1. ASSUME NEW x \in Range(Routes) PROVE local[x] \in Seq(Nat)
      <4>1. local[x] = OrdersOf(batch, config, r, x)
        BY <1>3
      <4>2. OrdersOf(batch, config, r, x) \in Seq(1..Rows(config))
        BY <1>2, OrdersOfIs
      <4>3. 1..Rows(config) \in SUBSET Nat
        OBVIOUS
      <4> QED BY <4>1, <4>2, <4>3, SeqWider
    <3> QED BY <3>1 DEF LocalOk
  <2>2. p = LogProbProgram(local) \/ p = UpdateProgram(local)
    BY <1>1, <1>2
  <2> HIDE DEF local, p
  <2>3. ProgramOk(p, local, config.dynamic)
    BY <1>2, <2>1, <2>2, LogProbProgramIs, UpdateProgramIs
  <2>4. DOMAIN ran'[r] = Range(Routes) /\ \A x \in Range(Routes) : ran'[r][x] = <<>>
    BY <1>1, <1>2
  <2> QED BY <2>3, <2>4 DEF ProgramOk, local, p
<1>5. ShardsNow'
  BY <1>1, <1>3 DEF ShardsNow
<1>6. (\A r \in 1..config.world : RankProgress(r))'
  BY <1>1, <1>4 DEF RankProgress
<1> QED BY <1>1, <1>5, <1>6 DEF CallInv, Calls

\* Completing a collective operation.
LEMMA StepKeeps ==
  ASSUME RowsInv, CallInv, OptimizerStep
  PROVE  CallInv'
<1>1. /\ UNCHANGED <<config, pc, batch, shard, ran>>
      /\ \A r \in 1..config.world : prog[r] # <<>> /\ Head(prog[r]).op = "step" /\ prog'[r] = Tail(prog[r])
  BY DEF OptimizerStep, AllAt, Ranks
<1>2. config.world \in Nat \ {0}
  BY ConfigFacts DEF RowsInv
<1>3. CASE pc \in Calls
  <2>1. ShardsNow /\ \A r \in 1..config.world : RankProgress(r)
    BY <1>3 DEF CallInv
  <2>2. ASSUME NEW r \in 1..config.world
        PROVE  /\ prog'[r] \in Seq(OpsOf(shard[r], config.dynamic))
               /\ \A x \in Range(Routes) : Progress(prog'[r], ran[r][x], Len(shard[r][x]), x, config.dynamic)
    <3> DEFINE p == prog[r]
               T == OpsOf(shard[r], config.dynamic)
    <3>1. p \in Seq(T) /\ p # <<>> /\ Head(p).op = "step" /\ prog'[r] = Tail(p)
      BY <1>1, <2>1 DEF RankProgress
    <3>2. T \in SUBSET AllOps
      BY OpsOfIs
    <3> HIDE DEF T, p
    <3>3. p \in Seq(AllOps)
      BY <3>1, <3>2, SeqWider
    <3>4. Head(p) \in AllOps /\ Tail(p) \in Seq(T)
      BY <3>1, <3>3, HeadTail
    <3>5. Head(p) = StepOp
      BY <3>1, <3>4, OpIs
    <3>6. ASSUME NEW x \in Range(Routes)
          PROVE  Progress(Tail(p), ran[r][x], Len(shard[r][x]), x, config.dynamic)
      <4>1. \A b \in Seq(Nat) : Done(x, b)[Head(p)] = <<>>
        BY <3>5, DoneIs
      <4>2. Len(shard[r][x]) \in Nat
        BY <2>1, ShardFacts
      <4>3. Progress(p, ran[r][x], Len(shard[r][x]), x, config.dynamic)
        BY <2>1 DEF RankProgress, p
      <4> QED BY <3>1, <3>3, <4>1, <4>2, <4>3, QuietProgress
    <3> QED BY <3>1, <3>4, <3>6 DEF T
  <2>3. ShardsNow'
    BY <1>1, <2>1 DEF ShardsNow
  <2>4. (\A r \in 1..config.world : RankProgress(r))'
    BY <1>1, <2>1, <2>2 DEF RankProgress
  <2> QED BY <1>1, <1>3, <2>3, <2>4 DEF CallInv, Calls
<1>4. CASE pc \notin Calls
  <2>1. 1 \in 1..config.world
    BY <1>2
  <2>2. pc # "run_refresh"
    <3>1. SUFFICES ASSUME pc = "run_refresh" PROVE FALSE
      OBVIOUS
    <3>2. prog[1] = <<ReduceOp>>
      BY <1>1, <2>1, <3>1 DEF CallInv
    <3>3. Head(<<ReduceOp>>) = ReduceOp /\ ReduceOp.op = "reduce"
      BY DEF ReduceOp
    <3> QED BY <1>1, <2>1, <3>2, <3>3
  <2>3. pc \notin {"generate", "balance", "log_prob", "update", "done"}
    BY <1>1, <2>1 DEF CallInv
  <2> QED BY <1>1, <1>4, <2>2, <2>3 DEF CallInv
<1> QED BY <1>3, <1>4

Idle == {"generate", "balance", "log_prob", "update", "run_refresh", "done"}

LEMMA InCall ==
  ASSUME RowsInv, CallInv, NEW op \in {"count", "forward", "step"}, AllAt(op)
  PROVE  pc \notin Idle
<1>1. 1 \in 1..config.world
  BY ConfigFacts DEF RowsInv
<1>2. prog[1] # <<>> /\ Head(prog[1]).op = op
  BY <1>1 DEF AllAt, Ranks
<1>3. pc # "run_refresh"
  <2>1. SUFFICES ASSUME pc = "run_refresh" PROVE FALSE
    OBVIOUS
  <2>2. prog[1] = <<ReduceOp>>
    BY <1>1, <1>2, <2>1 DEF CallInv
  <2>3. Head(<<ReduceOp>>) = ReduceOp /\ ReduceOp.op = "reduce"
    BY DEF ReduceOp
  <2> QED BY <1>2, <2>2, <2>3
<1>4. pc \notin {"generate", "balance", "log_prob", "update", "done"}
  BY <1>1, <1>2 DEF CallInv
<1> QED BY <1>3, <1>4 DEF Idle

\* A rank's next operation, in a call.
LEMMA NextOp ==
  ASSUME RowsInv, CallInv, pc \in Calls, NEW r \in 1..config.world, prog[r] # <<>>
  PROVE  /\ ShardsNow /\ RankProgress(r)
         /\ prog[r] \in Seq(AllOps) /\ Head(prog[r]) \in OpsOf(shard[r], config.dynamic) /\ Head(prog[r]) \in AllOps
         /\ Tail(prog[r]) \in Seq(OpsOf(shard[r], config.dynamic)) /\ Tail(prog[r]) \in Seq(AllOps)
<1> DEFINE p == prog[r]
           T == OpsOf(shard[r], config.dynamic)
<1>1. ShardsNow /\ RankProgress(r)
  BY DEF CallInv
<1>2. p \in Seq(T)
  BY <1>1 DEF RankProgress
<1>3. T \in SUBSET AllOps
  BY OpsOfIs
<1> HIDE DEF p, T
<1>4. Head(p) \in T /\ Tail(p) \in Seq(T)
  BY <1>2, HeadTail DEF p
<1>5. p \in Seq(AllOps) /\ Tail(p) \in Seq(AllOps)
  BY <1>2, <1>3, <1>4, SeqWider
<1> QED BY <1>1, <1>3, <1>4, <1>5 DEF p, T

LEMMA ForwardKeeps ==
  ASSUME RowsInv, CallInv, Forward
  PROVE  CallInv'
<1>1. /\ UNCHANGED <<config, pc, batch, shard>> /\ Ranks = 1..config.world
      /\ \A r \in 1..config.world : prog[r] # <<>> /\ Head(prog[r]).op = "forward" /\ prog'[r] = Tail(prog[r])
      /\ \A r \in 1..config.world :
           ran'[r] = [ran[r] EXCEPT ![Head(prog[r]).route] = Append(@, Head(prog[r]).rows)]
  BY DEF Forward, AllAt, Ranks
<1>2. pc \notin Idle
  BY InCall DEF Forward
<1>3. CASE pc \in Calls
  <2>1. ASSUME NEW r \in 1..config.world
        PROVE  /\ DOMAIN ran'[r] = Range(Routes)
               /\ prog'[r] \in Seq(OpsOf(shard[r], config.dynamic))
               /\ \A x \in Range(Routes) : Progress(prog'[r], ran'[r][x], Len(shard[r][x]), x, config.dynamic)
    <3> DEFINE p == prog[r]
               h == Head(p)
    <3>1. /\ p # <<>> /\ h.op = "forward" /\ prog'[r] = Tail(p)
          /\ ran'[r] = [ran[r] EXCEPT ![h.route] = Append(@, h.rows)]
      BY <1>1
    <3>2. /\ ShardsNow /\ RankProgress(r) /\ p \in Seq(AllOps) /\ h \in AllOps
          /\ Tail(p) \in Seq(OpsOf(shard[r], config.dynamic))
      BY <1>3, <3>1, NextOp
    <3> HIDE DEF h, p
    <3>3. h.route \in Range(Routes) /\ h.rows \in Seq(Nat) /\ h = ForwardOp(h.route, h.rows)
      BY <3>1, <3>2, OpIs
    <3>4. /\ DOMAIN ran[r] = Range(Routes)
          /\ \A x \in Range(Routes) : Progress(p, ran[r][x], Len(shard[r][x]), x, config.dynamic)
      BY <3>2 DEF RankProgress, p
    <3>5. ASSUME NEW x \in Range(Routes)
          PROVE  Progress(Tail(p), ran'[r][x], Len(shard[r][x]), x, config.dynamic)
      <4>1. Len(shard[r][x]) \in Nat
        BY <3>2, ShardFacts
      <4>2. CASE x = h.route
        <5>1. ran'[r][x] = Append(ran[r][x], h.rows)
          BY <3>1, <3>4, <4>2
        <5>2. Head(p) = ForwardOp(x, h.rows)
          BY <3>3, <4>2 DEF h
        <5> DEFINE n == Len(shard[r][x])
                   done == ran[r][x]
                   s == h.rows
        <5>3. Progress(p, done, n, x, config.dynamic) /\ n \in Nat /\ s \in Seq(Nat) /\ p # <<>> /\ p \in Seq(AllOps)
              /\ Head(p) = ForwardOp(x, s)
          BY <3>1, <3>2, <3>3, <3>4, <4>1, <5>2
        <5> HIDE DEF n, done, s
        <5>4. Progress(Tail(p), Append(done, s), n, x, config.dynamic)
          BY <5>3, ForwardProgress
        <5> QED BY <5>1, <5>4 DEF n, done, s
      <4>3. CASE x # h.route
        <5>1. ran'[r][x] = ran[r][x]
          BY <3>1, <3>4, <4>3
        <5>2. \A b \in Seq(Nat) : Done(x, b)[Head(p)] = <<>>
          BY <3>3, <4>3, DoneIs DEF h
        <5>3. Progress(p, ran[r][x], Len(shard[r][x]), x, config.dynamic)
          BY <3>4
        <5> QED BY <3>1, <3>2, <4>1, <5>1, <5>2, <5>3, QuietProgress
      <4> QED BY <4>2, <4>3
    <3> QED BY <3>1, <3>2, <3>4, <3>5
  <2>2. ShardsNow'
    <3>1. ShardsNow
      BY <1>3 DEF CallInv
    <3> QED BY <1>1, <3>1 DEF ShardsNow
  <2>3. (\A r \in 1..config.world : RankProgress(r))'
    BY <1>1, <2>1 DEF RankProgress
  <2> QED BY <1>1, <1>3, <2>2, <2>3 DEF CallInv, Calls
<1>4. CASE pc \notin Calls
  BY <1>1, <1>2, <1>4 DEF CallInv, Idle
<1> QED BY <1>3, <1>4

LEMMA FailKeeps ==
  ASSUME Fail
  PROVE  CallInv'
BY DEF Fail, CallInv, Calls

Agreement ==
  LET offers == {ProposedCount(LensOf(shard[r][Head(prog[r]).route]), config.maxTokens) : r \in Ranks}
  IN CHOOSE n \in offers : \A o \in offers : n >= o

\* What the MAX reduction gives.
LEMMA AgreementIs ==
  ASSUME RowsInv, CallInv, pc \in Calls, AllAt("count")
  PROVE  /\ Agreement \in Nat \ {0}
         /\ \E q \in 1..config.world :
              Agreement = ProposedCount(LensOf(shard[q][Head(prog[q]).route]), config.maxTokens)
         /\ \A r \in 1..config.world :
              /\ Head(prog[r]).route \in Range(Routes) /\ Head(prog[r]) = CountOp(Head(prog[r]).route)
              /\ config.dynamic /\ shard[r][Head(prog[r]).route] # <<>>
              /\ Agreement >= ProposedCount(LensOf(shard[r][Head(prog[r]).route]), config.maxTokens)
<1> DEFINE k == config.world
           f == [r \in 1..k |-> ProposedCount(LensOf(shard[r][Head(prog[r]).route]), config.maxTokens)]
           offers == {f[r] : r \in 1..k}
<1>1. k \in Nat \ {0} /\ config.maxTokens \in Nat \ {0} /\ Ranks = 1..k
  BY ConfigFacts DEF RowsInv, Ranks
<1>2. ASSUME NEW r \in 1..k
      PROVE  /\ Head(prog[r]).route \in Range(Routes) /\ Head(prog[r]) = CountOp(Head(prog[r]).route)
             /\ config.dynamic /\ shard[r][Head(prog[r]).route] # <<>>
             /\ f[r] \in Nat \ {0}
  <2> DEFINE h == Head(prog[r])
             x == h.route
  <2>1. prog[r] # <<>> /\ h.op = "count"
    BY <1>1 DEF AllAt
  <2>2. ShardsNow /\ h \in OpsOf(shard[r], config.dynamic) /\ h \in AllOps
    BY <2>1, NextOp
  <2> HIDE DEF h
  <2>3. x \in Range(Routes) /\ h = CountOp(x)
    BY <2>1, <2>2, OpIs
  <2>4. config.dynamic /\ shard[r][x] # <<>>
    BY <2>1, <2>2 DEF OpsOf
  <2>5. LensOf(shard[r][x]) \in Seq(Nat \ {0}) /\ Len(LensOf(shard[r][x])) = Len(shard[r][x]) /\ shard[r][x] \in Seq(Nat)
    BY <2>2, <2>3, LocalLens, ShardFacts DEF Calls
  <2>6. Len(shard[r][x]) >= 1
    <3> DEFINE s == shard[r][x]
    <3>1. s \in Seq(Nat) /\ s # <<>>
      BY <2>4, <2>5
    <3> HIDE DEF s
    <3>2. Len(s) >= 1
      BY <3>1
    <3> QED BY <3>2 DEF s
  <2>7. ProposedCount(LensOf(shard[r][x]), config.maxTokens) \in Nat \ {0}
    <3> DEFINE ls == LensOf(shard[r][x])
    <3>1. ls \in Seq(Nat \ {0}) /\ Len(ls) >= 1
      BY <2>5, <2>6
    <3> HIDE DEF ls
    <3>2. ProposedCount(ls, config.maxTokens) \in Nat \ {0}
      BY <1>1, <3>1, ProposedIs
    <3> QED BY <3>2 DEF ls
  <2> QED BY <2>3, <2>4, <2>7 DEF h
<1>3. Agreement = CHOOSE n \in offers : \A o \in offers : n >= o
  <2>1. offers = {ProposedCount(LensOf(shard[r][Head(prog[r]).route]), config.maxTokens) : r \in Ranks}
    BY <1>1
  <2> HIDE DEF offers
  <2> QED BY <2>1 DEF Agreement
<1>f. \A r \in 1..k : f[r] = ProposedCount(LensOf(shard[r][Head(prog[r]).route]), config.maxTokens)
  OBVIOUS
<1>4. \E p \in 1..k : \A q \in 1..k : f[p] >= f[q]
  <2>1. NatOn(f, 1..k)
    BY <1>2 DEF NatOn
  <2> HIDE DEF f, k
  <2> QED BY <1>1, <2>1, LargestOf
<1>5. Agreement \in offers /\ \A o \in offers : Agreement >= o
  <2>1. \E n \in offers : \A o \in offers : n >= o
    <3> HIDE DEF f
    <3> QED BY <1>4
  <2> HIDE DEF offers
  <2> QED BY <1>3, <2>1
<1> HIDE DEF f
<1>6. PICK q \in 1..k : Agreement = f[q]
  BY <1>5
<1>7. \A r \in 1..k : Agreement >= f[r]
  BY <1>5
<1> QED BY <1>2, <1>6, <1>7, <1>f

LEMMA AgreeKeeps ==
  ASSUME RowsInv, CallInv, AgreeOnCount
  PROVE  CallInv'
<1>0. AllAt("count") /\ Ranks = 1..config.world
  BY DEF AgreeOnCount, Ranks
<1>1. pc \notin Idle
  BY <1>0, InCall
<1>2. CASE Fail
  BY <1>2, FailKeeps
<1>3. CASE ~Fail
  <2>1. /\ UNCHANGED <<config, pc, batch, lens, shard, ran>>
        /\ \A r \in 1..config.world :
             Agreement <= Len(LensOf(shard[r][Head(prog[r]).route]))
        /\ \A r \in 1..config.world :
             prog'[r] = Expand(Tail(prog[r]), Head(prog[r]).route,
                               MicroBatches(LensOf(shard[r][Head(prog[r]).route]), Agreement))
    BY <1>0, <1>3 DEF AgreeOnCount, Agreement
  <2>2. CASE pc \in Calls
    <3>1. ASSUME NEW r \in 1..config.world
          PROVE  /\ prog'[r] \in Seq(OpsOf(shard[r], config.dynamic))
                 /\ \A x \in Range(Routes) : Progress(prog'[r], ran[r][x], Len(shard[r][x]), x, config.dynamic)
      <4> DEFINE p == prog[r]
                 y == Head(p).route
                 ls == LensOf(shard[r][y])
                 n == Len(shard[r][y])
                 Bs == MicroBatches(ls, Agreement)
                 T == OpsOf(shard[r], config.dynamic)
      <4>1. Agreement \in Nat \ {0} /\ y \in Range(Routes) /\ Head(p) = CountOp(y) /\ config.dynamic
        BY <1>0, <2>2, AgreementIs
      <4>2. p # <<>> /\ prog'[r] = Expand(Tail(p), y, Bs) /\ Agreement <= Len(ls)
        BY <1>0, <2>1 DEF AllAt
      <4>3. /\ ShardsNow /\ RankProgress(r) /\ p \in Seq(AllOps) /\ Tail(p) \in Seq(T) /\ Tail(p) \in Seq(AllOps)
        BY <2>2, <4>2, NextOp
      <4> HIDE DEF y
      <4>4. ls \in Seq(Nat \ {0}) /\ Len(ls) = n
        BY <2>2, <4>1, <4>3, LocalLens DEF Calls
      <4> HIDE DEF ls, p
      <4>5. ls \in Seq(Nat)
        <5>1. Nat \ {0} \in SUBSET Nat
          OBVIOUS
        <5> QED BY <4>4, <5>1, SeqWider
      <4>6. Bs \in Seq(Seq(1..n)) /\ Lists(FlattenSeq(Bs), 1..n)
        <5>1. Bs \in Seq(Seq(1..Len(ls))) /\ Lists(FlattenSeq(Bs), 1..Len(ls))
          BY <4>1, <4>2, <4>5, MicroBatchesAre
        <5> HIDE DEF Bs
        <5> QED BY <4>4, <5>1
      <4> HIDE DEF n, Bs, T
      <4>7. Bs \in Seq(Seq(Nat))
        <5>1. 1..n \in SUBSET Nat
          OBVIOUS
        <5>2. \A z \in Seq(1..n) : z \in Seq(Nat)
          BY <5>1, SeqWider
        <5> DEFINE Q == Seq(1..n)
                   R == Seq(Nat)
        <5>3. Q \in SUBSET R /\ Bs \in Seq(Q)
          BY <4>6, <5>2
        <5> HIDE DEF Q, R
        <5>4. Bs \in Seq(R)
          BY <5>3, SeqWider
        <5> QED BY <5>4 DEF R
      <4>8. Expand(Tail(p), y, Bs) \in Seq(T)
        <5>1. Forwards(y, Bs) \in Seq(T)
          BY <4>1, <4>7, ForwardsOps DEF T
        <5> QED BY <4>3, <5>1, ExpandType
      <4>9. ASSUME NEW x \in Range(Routes)
            PROVE  Progress(Expand(Tail(p), y, Bs), ran[r][x], Len(shard[r][x]), x, config.dynamic)
        <5> DEFINE m == Len(shard[r][x])
        <5>1. m \in Nat
          BY <4>3, ShardFacts
        <5>2. Progress(p, ran[r][x], m, x, config.dynamic)
          BY <4>3 DEF RankProgress, p
        <5>3. \A b \in Seq(Nat) : Done(x, b)[Head(p)] = <<>>
          BY <4>1, DoneIs
        <5>4. config.dynamic = TRUE
          BY <4>1, ConfigFacts DEF RowsInv
        <5>5. x = y => n = m
          BY DEF n
        <5> HIDE DEF m
        <5>6. Progress(Tail(p), ran[r][x], m, x, TRUE)
          BY <4>2, <4>3, <5>1, <5>2, <5>3, <5>4, QuietProgress
        <5>7. x = y => Lists(FlattenSeq(Bs), 1..m)
          BY <4>6, <5>5
        <5>8. Progress(Expand(Tail(p), y, Bs), ran[r][x], m, x, TRUE)
          BY <4>1, <4>3, <4>7, <5>1, <5>6, <5>7, ExpandProgress
        <5> QED BY <5>4, <5>8 DEF m
      <4> QED BY <4>2, <4>8, <4>9 DEF T
    <3>2. ShardsNow /\ \A r \in 1..config.world : RankProgress(r)
      BY <2>2 DEF CallInv
    <3>3. ShardsNow'
      BY <2>1, <3>2 DEF ShardsNow
    <3>4. (\A r \in 1..config.world : RankProgress(r))'
      BY <2>1, <3>1, <3>2 DEF RankProgress
    <3> QED BY <2>1, <2>2, <3>3, <3>4 DEF CallInv, Calls
  <2>3. CASE pc \notin Calls
    BY <1>1, <2>1, <2>3 DEF CallInv, Idle
  <2> QED BY <2>2, <2>3
<1> QED BY <1>2, <1>3

LEMMA RefreshKeeps ==
  ASSUME RowsInv, CallInv, DispatchRefresh \/ Reduce \/ EndRefresh \/ CollectLogProb
  PROVE  CallInv'
<1>w. Ranks = 1..config.world /\ 1 \in 1..config.world
  BY ConfigFacts DEF RowsInv, Ranks
<1>1. CASE DispatchRefresh
  <2>1. /\ pc = "run_update" /\ pc' = "run_refresh" /\ UNCHANGED <<config, batch, shard>>
        /\ \A r \in 1..config.world : prog'[r] \in {<<>>, <<ReduceOp>>}
    BY <1>1, <1>w DEF DispatchRefresh
  <2>2. ShardsNow'
    BY <2>1 DEF CallInv, Calls, ShardsNow
  <2> QED BY <2>1, <2>2 DEF CallInv, Calls
<1>2. CASE CollectLogProb
  <2>1. pc' = "update" /\ config' = config /\ prog' = prog /\ \A r \in 1..config.world : prog[r] = <<>>
    BY <1>2, <1>w DEF CollectLogProb, AllReturned
  <2> QED BY <2>1 DEF CallInv, Calls
<1>3. CASE EndRefresh
  <2>1. /\ pc = "run_refresh" /\ pc' = "done" /\ UNCHANGED <<config, batch, shard, prog>>
        /\ \A r \in 1..config.world : prog[r] = <<>>
    BY <1>3, <1>w DEF EndRefresh, AllReturned
  <2>2. ShardsNow'
    BY <2>1 DEF CallInv, ShardsNow
  <2> QED BY <2>1, <2>2 DEF CallInv, Calls
<1>4. CASE Reduce
  <2>1. AllAt("reduce")
    BY <1>4 DEF Reduce
  <2>2. prog[1] # <<>> /\ Head(prog[1]).op = "reduce"
    BY <1>w, <2>1 DEF AllAt
  <2>3. pc \notin Calls
    <3>1. SUFFICES ASSUME pc \in Calls PROVE FALSE
      OBVIOUS
    <3>2. Head(prog[1]) \in AllOps
      BY <1>w, <2>2, <3>1, NextOp
    <3> QED BY <2>2, <3>2, OpIs
  <2>4. pc \notin {"generate", "balance", "log_prob", "update", "done"}
    BY <1>w, <2>2 DEF CallInv
  <2>5. CASE Fail
    BY <2>5, FailKeeps
  <2>6. CASE ~Fail
    <3>1. UNCHANGED <<config, pc, batch, shard>> /\ \A r \in 1..config.world : prog'[r] = <<>>
      BY <1>4, <1>w, <2>6 DEF Reduce
    <3>2. pc = "run_refresh" => ShardsNow'
      BY <3>1 DEF CallInv, ShardsNow
    <3> QED BY <2>3, <2>4, <3>1, <3>2 DEF CallInv
  <2> QED BY <2>5, <2>6
<1> QED BY <1>1, <1>2, <1>3, <1>4

LEMMA CallInvInit == Init => CallInv
BY DEF Init, CallInv, Calls, Ranks

LEMMA CallInvNext == RowsInv /\ CallInv /\ [Next]_vars => CallInv'
<1> SUFFICES ASSUME RowsInv, CallInv, [Next]_vars PROVE CallInv'
  OBVIOUS
<1>1. CASE GenerateDual
  <2>1. CASE Fail
    BY <2>1, FailKeeps
  <2>2. CASE ~Fail
    <3>1. pc = "generate" /\ pc' \in {"balance", "log_prob"} /\ config' = config /\ prog' = prog
      BY <1>1, <2>2 DEF GenerateDual
    <3> QED BY <3>1 DEF CallInv, Calls
  <2> QED BY <2>1, <2>2
<1>2. CASE BalanceDualRouteBatch
  <2>1. CASE Fail
    BY <2>1, FailKeeps
  <2>2. CASE ~Fail
    <3>1. pc = "balance" /\ pc' = "log_prob" /\ config' = config /\ prog' = prog
      BY <1>2, <2>2 DEF BalanceDualRouteBatch
    <3> QED BY <3>1 DEF CallInv, Calls
  <2> QED BY <2>1, <2>2
<1>3. CASE DispatchLogProb \/ DispatchUpdate
  BY <1>3, DispatchKeeps
<1>4. CASE AgreeOnCount
  BY <1>4, AgreeKeeps
<1>5. CASE Forward
  BY <1>5, ForwardKeeps
<1>6. CASE OptimizerStep
  BY <1>6, StepKeeps
<1>7. CASE DispatchRefresh \/ Reduce \/ EndRefresh \/ CollectLogProb
  BY <1>7, RefreshKeeps
<1>8. CASE UNCHANGED vars
  <2>1. UNCHANGED <<config, pc, batch, shard, prog, ran>>
    BY <1>8 DEF vars
  <2>2. ShardsNow' = ShardsNow
    BY <2>1 DEF ShardsNow
  <2>3. ASSUME NEW r PROVE RankProgress(r)' = RankProgress(r)
    BY <2>1 DEF RankProgress
  <2> QED BY <2>1, <2>2, <2>3 DEF CallInv
<1> QED
  BY <1>1, <1>2, <1>3, <1>4, <1>5, <1>6, <1>7, <1>8 DEF Next, Step, Stop

-----------------------------------------------------------------------------
(* Log-probs come back in the order of the rows.                              *)

\* What a rank has of a route after its call.
RouteResult(r, route) ==
  LET outs == Select(shard[r][route], FlattenSeq(ran[r][route]))
  IN IF config.dynamic THEN RestoreDynamicBatch(outs, ran[r][route]) ELSE outs

LEMMA RouteResultIs ==
  ASSUME RowsInv, CallInv, pc \in Calls, NEW r \in 1..config.world, prog[r] = <<>>, NEW x \in Range(Routes)
  PROVE  RouteResult(r, x) = shard[r][x]
<1> DEFINE s == shard[r][x]
           n == Len(s)
           bs == ran[r][x]
           idx == FlattenSeq(bs)
<1>1. ShardsNow /\ RankProgress(r)
  BY DEF CallInv
<1>2. s \in Seq(Nat) /\ n \in Nat
  BY <1>1, ShardFacts
<1>3. Progress(<<>>, bs, n, x, config.dynamic)
  BY <1>1 DEF RankProgress
<1> HIDE DEF bs, n, s
<1>4. Whole(idx, n, config.dynamic)
  BY <1>2, <1>3, NoneLeft
<1>5. CASE config.dynamic
  <2>1. Lists(FlattenSeq(bs), 1..n)
    BY <1>4 DEF Whole
  <2>2. RestoreDynamicBatch(Select(s, FlattenSeq(bs)), bs) = s
    BY <1>2, <2>1, RestoredIs DEF n
  <2> QED BY <1>5, <2>2 DEF RouteResult, s, bs
<1>6. CASE ~config.dynamic
  <2>1. idx = Upto(n)
    BY <1>4, <1>6 DEF Whole
  <2>2. Select(s, idx) = s
    BY <1>2, <2>1, InOrderIs DEF n
  <2> QED BY <1>6, <2>2 DEF RouteResult, s, bs
<1> QED BY <1>5, <1>6

\* The keys of a rank's rows: their orders, in the order of its shard.
LEMMA LogProbsAre ==
  ASSUME RowsInv, CallInv, pc \in Calls, NEW r \in 1..config.world, prog[r] = <<>>
  PROVE  LogProbs(r) = Chunk(Orders(batch), config.world, r)
<1> DEFINE rows == Chunk(batch, config.world, r)
           size == Quota(config)
           n == Rows(config)
           keys == [i \in 1..size |-> rows[i].out.order]
           local == shard[r]
           routes == Present(local)
           S == Range(Routes)
           H == [x \in S |-> local[x]]
           G == [x \in S |-> RowsOfRoute(rows, x)]
           RC == RowsOfRoute(rows, "clean")
           RM == RowsOfRoute(rows, "masked")
           grouped == FlattenSeq([k \in DOMAIN routes |-> RowsOfRoute(rows, routes[k])])
           joined == FlattenSeq([k \in DOMAIN routes |-> RouteResult(r, routes[k])])
<1>0. config \in Configs /\ BatchOk(batch, config) /\ ShardsNow
  BY DEF RowsInv, CallInv
<1>1. LogProbs(r) = Select(joined, Argsort(grouped))
  BY DEF LogProbs, RouteResult, ActorShard
<1>2. /\ size \in Nat \ {0} /\ n = config.world * size /\ DOMAIN rows = 1..size /\ RoutesKnown(rows)
      /\ \A i \in 1..size : rows[i].out.order = Orders(batch)[Place(size, r, i)] /\ Place(size, r, i) \in 1..n
  BY <1>0, ActorShardIs
<1>3. routes \in Seq(S) /\ "clean" \in S /\ "masked" \in S /\ S = {"clean", "masked"}
  BY PresentIs, TwoRoutes
<1>4. \A x \in S : local[x] = OrdersOf(batch, config, r, x) /\ local[x] \in Seq(Nat)
  BY <1>0, ShardFacts
<1>5. Orders(batch) \in Seq(1..n) /\ DOMAIN Orders(batch) = 1..n /\ Len(Orders(batch)) = n
  <2>1. Lists(Orders(batch), 1..n) /\ DOMAIN batch = 1..n
    BY <1>0 DEF BatchOk, BatchShape
  <2>2. Orders(batch) \in Seq(1..n) /\ DOMAIN Orders(batch) = 1..n
    BY <2>1 DEF Lists, Orders
  <2>3. n \in Nat
    BY <1>0, ConfigFacts
  <2> HIDE DEF n
  <2>4. Len(Orders(batch)) = n
    <3> DEFINE o == Orders(batch)
    <3>1. o \in Seq(1..n) /\ DOMAIN o = 1..n
      BY <2>2
    <3> HIDE DEF o
    <3>2. Len(o) \in Nat /\ DOMAIN o = 1..Len(o)
      BY <3>1, SeqElements
    <3>3. Len(o) = n
      BY <2>3, <3>1, <3>2
    <3> QED BY <3>3 DEF o
  <2> QED BY <2>2, <2>4
<1>6. \A i \in 1..size : keys[i] = rows[i].out.order /\ keys[i] = Orders(batch)[Place(size, r, i)] /\ keys[i] \in Nat
  <2>1. \A i \in 1..n : Orders(batch)[i] \in 1..n
    BY <1>5, SeqElements
  <2> QED BY <1>2, <2>1
<1>7. \A x \in S : local[x] = Select(keys, RowsOfRoute(rows, x)) /\ RowsOfRoute(rows, x) \in Seq(1..size)
                   /\ (local[x] = <<>> => RowsOfRoute(rows, x) = <<>>)
  <2>1. ASSUME NEW x \in S
        PROVE  local[x] = Select(keys, RowsOfRoute(rows, x)) /\ RowsOfRoute(rows, x) \in Seq(1..size)
               /\ (local[x] = <<>> => RowsOfRoute(rows, x) = <<>>)
    <3> DEFINE idx == RowsOfRoute(rows, x)
               s == local[x]
    <3>1. s = [i \in DOMAIN idx |-> rows[idx[i]].out.order]
      BY <1>4 DEF OrdersOf
    <3>2. idx \in Seq(1..size)
      BY <1>2, RouteListed
    <3> HIDE DEF idx, keys, s, rows
    <3>3. Len(idx) \in Nat /\ DOMAIN idx = 1..Len(idx) /\ \A i \in DOMAIN idx : idx[i] \in 1..size
      BY <3>2, SeqElements
    <3>4. s = Select(keys, idx)
      BY <1>6, <3>1, <3>3 DEF Select
    <3>5. s = <<>> => idx = <<>>
      <4>1. SUFFICES ASSUME s = <<>> PROVE idx = <<>>
        OBVIOUS
      <4>2. DOMAIN s = {} /\ DOMAIN s = DOMAIN idx
        BY <3>1, <4>1
      <4>3. 1 \notin 1..Len(idx)
        BY <3>3, <4>2
      <4>4. Len(idx) = 0
        BY <3>3, <4>3
      <4> QED BY <3>2, <4>4
    <3> QED BY <3>2, <3>4, <3>5 DEF s, idx
  <2> QED BY <2>1
<1>8. RC \in Seq(1..size) /\ RM \in Seq(1..size) /\ Lists(RC \o RM, 1..size)
  BY <1>2, <1>3, <1>7, RoutesListAll
<1>9. grouped = RC \o RM
  <2>1. G \in [S -> Seq(1..size)]
    <3>1. \A x \in S : RowsOfRoute(rows, x) \in Seq(1..size)
      BY <1>7
    <3> QED BY <3>1
  <2>2. \A k \in DOMAIN routes : routes[k] \in S
    BY <1>3, SeqElements
  <2>3. grouped = Map(routes, G)
    <3>1. Mapped(routes, G) = [k \in DOMAIN routes |-> RowsOfRoute(rows, routes[k])]
      BY <2>2 DEF Mapped
    <3> QED BY <3>1 DEF Map
  <2>4. G["clean"] = RC /\ G["masked"] = RM
    BY <1>3
  <2> HIDE DEF G, rows, size
  <2>5. Map(routes, G) = OfClean(local, G["clean"]) \o OfMasked(local, G["masked"])
    BY <2>1, MapPresent
  <2>6. OfClean(local, RC) = RC /\ OfMasked(local, RM) = RM
    BY <1>3, <1>7 DEF OfClean, OfMasked
  <2> QED BY <2>3, <2>4, <2>5, <2>6
<1>10. joined = local["clean"] \o local["masked"]
  <2>1. H \in [S -> Seq(Nat)]
    BY <1>4
  <2>2. \A k \in DOMAIN routes : routes[k] \in S
    BY <1>3, SeqElements
  <2>3. joined = Map(routes, H)
    <3>1. \A k \in DOMAIN routes : RouteResult(r, routes[k]) = local[routes[k]]
      BY <2>2, RouteResultIs
    <3>2. Mapped(routes, H) = [k \in DOMAIN routes |-> RouteResult(r, routes[k])]
      BY <2>2, <3>1 DEF Mapped
    <3> QED BY <3>2 DEF Map
  <2>4. H["clean"] = local["clean"] /\ H["masked"] = local["masked"]
    BY <1>3
  <2> HIDE DEF H, local
  <2>5. Map(routes, H) = OfClean(local, H["clean"]) \o OfMasked(local, H["masked"])
    BY <2>1, MapPresent
  <2>6. OfClean(local, local["clean"]) = local["clean"] /\ OfMasked(local, local["masked"]) = local["masked"]
    BY DEF OfClean, OfMasked
  <2> QED BY <2>3, <2>4, <2>5, <2>6
<1> HIDE DEF grouped, joined, RC, RM, H, G, rows, size, keys, local, routes, S
<1>11. joined = Select(keys, grouped)
  <2>1. Into(keys, 1..size, Nat)
    BY <1>6 DEF Into
  <2>2. Select(keys, RC \o RM) = Select(keys, RC) \o Select(keys, RM)
    BY <1>8, <2>1, SelectConcat
  <2>3. local["clean"] = Select(keys, RC) /\ local["masked"] = Select(keys, RM)
    BY <1>3, <1>7 DEF RC, RM
  <2> QED BY <1>9, <1>10, <2>2, <2>3
<1>12. /\ DOMAIN grouped = 1..size /\ DOMAIN Argsort(grouped) = 1..size
       /\ \A i \in 1..size : Argsort(grouped)[i] \in 1..size /\ grouped[Argsort(grouped)[i]] = i
  <2>1. Lists(grouped, 1..size) /\ size \in Nat
    BY <1>2, <1>8, <1>9
  <2> QED BY <2>1, ArgsortInverts
<1>13. ASSUME NEW i \in 1..size PROVE Select(joined, Argsort(grouped))[i] = keys[i]
  <2> DEFINE a == Argsort(grouped)
  <2>1. Select(joined, a)[i] = joined[a[i]]
    BY <1>12 DEF Select
  <2>2. joined[a[i]] = keys[grouped[a[i]]]
    BY <1>11, <1>12 DEF Select
  <2> QED BY <1>12, <2>1, <2>2
<1>14. Select(joined, Argsort(grouped)) = [i \in 1..size |-> keys[i]]
  <2>1. Select(joined, Argsort(grouped)) = [i \in 1..size |-> Select(joined, Argsort(grouped))[i]]
    BY <1>12 DEF Select
  <2> QED BY <1>13, <2>1
<1>15. Chunk(Orders(batch), config.world, r) = [i \in 1..size |-> keys[i]]
  <2> DEFINE o == Orders(batch)
             k == config.world
             c == Chunk(o, k, r)
  <2>1. o \in Seq(1..n) /\ Divides(k, size, Len(o)) /\ k \in Nat \ {0} /\ r \in 1..k
    BY <1>0, <1>2, <1>5, ConfigFacts DEF Divides
  <2> HIDE DEF o, k
  <2>2. c \in Seq(1..n) /\ Len(c) = size /\ DOMAIN c = 1..size /\ \A i \in 1..size : c[i] = o[Place(size, r, i)]
    BY <1>2, <2>1, ChunkIs
  <2>3. \A i \in 1..size : c[i] = keys[i]
    BY <1>6, <2>2 DEF o
  <2> HIDE DEF c
  <2>4. c = [i \in 1..size |-> c[i]]
    BY <2>2
  <2>5. c = [i \in 1..size |-> keys[i]]
    BY <2>3, <2>4
  <2> QED BY <2>5 DEF c, o, k
<1> QED BY <1>1, <1>14, <1>15

\* Joined over the ranks they are those of the driver's rows.
LEMMA CollectedLogProbs ==
  ASSUME RowsInv, CallInv, CollectLogProb
  PROVE  LogProbsOfOwnRow'
<1> DEFINE n == Rows(config)
           k == config.world
           o == Orders(batch)
           size == Quota(config)
           f == [r \in Ranks |-> LogProbs(r)]
           all == FlattenSeq(f)
<1>1. config \in Configs /\ BatchOk(batch, config) /\ Ranks = 1..k /\ k \in Nat \ {0} /\ 1 \in 1..k
  BY ConfigFacts DEF RowsInv, Ranks
<1>2. /\ pc \in Calls /\ (\A r \in 1..k : prog[r] = <<>>)
      /\ batch' = [i \in DOMAIN batch |-> [batch[i] EXCEPT !.logp = all[i]]]
  BY <1>1 DEF CollectLogProb, AllReturned, Calls
<1>3. \A r \in 1..k : f[r] = Chunk(o, k, r)
  BY <1>1, <1>2, LogProbsAre
<1>4. DOMAIN batch = 1..n /\ n \in Nat /\ Lists(o, 1..n) /\ DOMAIN o = 1..n /\ \A i \in 1..n : o[i] = batch[i].out.order
  BY <1>1, ConfigFacts DEF BatchOk, BatchShape, Orders
<1>5. size \in Nat \ {0} /\ n = k * size
  BY <1>1, ActorShardIs
<1>6. f = [r \in 1..k |-> Chunk(o, k, r)]
  BY <1>1, <1>3
<1> HIDE DEF f, o, n, size, k
<1>7. o \in Seq(1..n) /\ Len(o) = n
  <2>1. o \in Seq(1..n)
    BY <1>4 DEF Lists
  <2>2. Len(o) \in Nat /\ DOMAIN o = 1..Len(o)
    BY <2>1, SeqElements
  <2> QED BY <1>4, <2>1, <2>2
<1>8. GroupChunks(f, o, k, 1, size)
  <2>1. ASSUME NEW r \in 1..k
        PROVE  Chunk(o, k, r) = IF (r - 1) % 1 = 0
                                THEN SubSeq(o, ((r - 1) \div 1) * size + 1, ((r - 1) \div 1 + 1) * size)
                                ELSE <<>>
    <3>1. (r - 1) \div 1 = r - 1 /\ (r - 1) % 1 = 0
      BY <1>1
    <3>2. (r - 1) + 1 = r
      BY <1>1
    <3>3. (k * size) \div k = size
      BY <1>1, <1>5, ExactDiv
    <3>4. Chunk(o, k, r) = SubSeq(o, (r - 1) * size + 1, r * size)
      BY <1>5, <1>7, <3>3 DEF Chunk
    <3> QED BY <3>1, <3>2, <3>4
  <2> QED BY <1>6, <2>1 DEF GroupChunks
<1>9. all = o
  <2>1. Len(o) = k * size /\ k = 1 * k /\ 1 \in Nat \ {0}
    BY <1>1, <1>5, <1>7
  <2> QED BY <1>1, <1>5, <1>7, <1>8, <2>1, JoinChunks
<1> HIDE DEF all
<1>10. ASSUME NEW i \in DOMAIN batch' PROVE batch'[i].logp = batch'[i].out.order
  <2>1. i \in 1..n /\ batch'[i] = [batch[i] EXCEPT !.logp = all[i]]
    BY <1>2, <1>4
  <2>2. IsRow(batch[i])
    BY <1>1, <1>4, <2>1 DEF BatchOk
  <2>3. batch'[i].logp = all[i] /\ batch'[i].out = batch[i].out
    BY <2>1, <2>2 DEF IsRow
  <2> QED BY <1>4, <1>9, <2>1, <2>3
<1> QED BY <1>10 DEF LogProbsOfOwnRow

LEMMA LogProbsNext == RowsInv /\ CallInv /\ LogProbsOfOwnRow /\ [Next]_vars => LogProbsOfOwnRow'
<1> SUFFICES ASSUME RowsInv, CallInv, LogProbsOfOwnRow, [Next]_vars PROVE LogProbsOfOwnRow'
  OBVIOUS
<1> DEFINE After == {"update", "run_update", "run_refresh", "done"}
<1>1. CASE CollectLogProb
  BY <1>1, CollectedLogProbs
<1>2. CASE pc' \notin After
  BY <1>2 DEF LogProbsOfOwnRow
<1>3. ASSUME batch' = batch, pc \in After PROVE LogProbsOfOwnRow'
  BY <1>3 DEF LogProbsOfOwnRow
<1>4. CASE GenerateDual
  BY <1>2, <1>4 DEF GenerateDual, Fail
<1>5. CASE BalanceDualRouteBatch
  BY <1>2, <1>5 DEF BalanceDualRouteBatch, Fail
<1>6. CASE DispatchLogProb
  BY <1>2, <1>6 DEF DispatchLogProb, Dispatch
<1>7. CASE DispatchUpdate
  BY <1>3, <1>7 DEF DispatchUpdate, Dispatch
<1>8. CASE AgreeOnCount
  <2>1. batch' = batch /\ (pc' = "failed" \/ pc' = pc)
    BY <1>8 DEF AgreeOnCount, Fail
  <2> QED BY <1>2, <1>3, <2>1
<1>9. CASE Forward
  <2>1. batch' = batch /\ pc' = pc
    BY <1>9 DEF Forward
  <2> QED BY <1>2, <1>3, <2>1
<1>10. CASE OptimizerStep
  <2>1. batch' = batch /\ pc' = pc
    BY <1>10 DEF OptimizerStep
  <2> QED BY <1>2, <1>3, <2>1
<1>11. CASE DispatchRefresh
  BY <1>3, <1>11 DEF DispatchRefresh
<1>12. CASE Reduce
  <2>1. batch' = batch /\ (pc' = "failed" \/ pc' = pc)
    BY <1>12 DEF Reduce, Fail
  <2> QED BY <1>2, <1>3, <2>1
<1>13. CASE EndRefresh
  BY <1>3, <1>13 DEF EndRefresh
<1>14. CASE UNCHANGED vars
  <2>1. batch' = batch /\ pc' = pc
    BY <1>14 DEF vars
  <2> QED BY <1>2, <1>3, <2>1
<1> QED
  BY <1>1, <1>4, <1>5, <1>6, <1>7, <1>8, <1>9, <1>10, <1>11, <1>12, <1>13, <1>14 DEF Next, Step, Stop

\* In a call every rank's program has each row of its shard forwarded once, whichever
\* micro-batches the ranks agree on.
THEOREM CallInvHolds == Spec => []CallInv
<1>1. Init => CallInv
  BY CallInvInit
<1>2. RowsInv /\ CallInv /\ [Next]_vars => CallInv'
  BY CallInvNext
<1> QED BY <1>1, <1>2, RowsInvHolds, PTL DEF Spec

\* For every number of ranks and rows, with and without dynamic micro-batches, the log-probs
\* that come back are those of the rows they are joined to.
THEOREM LogProbsOfOwnRowHolds == Spec => []LogProbsOfOwnRow
<1>1. Init => LogProbsOfOwnRow
  BY DEF Init, LogProbsOfOwnRow
<1>2. RowsInv /\ CallInv /\ LogProbsOfOwnRow /\ [Next]_vars => LogProbsOfOwnRow'
  BY LogProbsNext
<1> QED BY <1>1, <1>2, RowsInvHolds, CallInvHolds, PTL DEF Spec

-----------------------------------------------------------------------------
(* The mask score counts each clean row of the step once, on every rank.      *)

CleanOrders == {batch[i].out.order : i \in RouteSet(batch, "clean")}

Collecting(r) == Select(shard[r]["clean"], FlattenSeq(ran[r]["clean"]))

ToReduce ==
  /\ pending = [r \in 1..config.world |-> pending[r]]
  /\ \A r \in 1..config.world : /\ Lists(pending[r], OrderSet(batch, config, r, "clean"))
                                /\ pending[r] # <<>> => prog[r] # <<>>

Scored == \A r \in 1..config.world : prog[r] = <<>> /\ Lists(score[r], CleanOrders)

ScoreInv ==
  /\ pc \in {"generate", "balance", "log_prob", "run_log_prob", "update"} =>
       pending = [r \in 1..config.world |-> <<>>]
  /\ pc = "run_update" => pending = [r \in 1..config.world |-> Collecting(r)]
  /\ pc = "run_refresh" => ToReduce \/ Scored
  /\ pc = "done" => Scored

LEMMA ScoreInvInit == Init => ScoreInv
BY DEF Init, ScoreInv, Ranks

LEMMA ScoreForward ==
  ASSUME RowsInv, CallInv, ScoreInv, Forward
  PROVE  ScoreInv'
<1>1. /\ UNCHANGED <<config, pc, batch, shard, score>> /\ Ranks = 1..config.world
      /\ \A r \in 1..config.world : prog[r] # <<>> /\ Head(prog[r]).op = "forward"
      /\ pending' = [r \in 1..config.world |-> pending[r] \o IF CollectsActivation(r) THEN ForwardedRows(r) ELSE <<>>]
      /\ \A r \in 1..config.world :
           ran'[r] = [ran[r] EXCEPT ![Head(prog[r]).route] = Append(@, Head(prog[r]).rows)]
  BY DEF Forward, AllAt, Ranks
<1>2. pc \notin Idle
  BY InCall DEF Forward
<1>3. CASE pc = "run_log_prob"
  <2>1. \A r \in 1..config.world : pending[r] = <<>> /\ ~CollectsActivation(r)
    BY <1>3 DEF ScoreInv, CollectsActivation
  <2>2. <<>> \o <<>> = <<>>
    OBVIOUS
  <2>3. pending' = [r \in 1..config.world |-> <<>>]
    BY <1>1, <2>1, <2>2
  <2> QED BY <1>1, <1>3, <2>3 DEF ScoreInv
<1>4. CASE pc = "run_update"
  <2>0. pc \in Calls
    BY <1>4 DEF Calls
  <2>1. ASSUME NEW r \in 1..config.world
        PROVE  pending[r] \o (IF CollectsActivation(r) THEN ForwardedRows(r) ELSE <<>>)
                 = Select(shard[r]["clean"], FlattenSeq(ran'[r]["clean"]))
    <3> DEFINE p == prog[r]
               h == Head(p)
               s == shard[r]["clean"]
               done == ran[r]["clean"]
               n == Len(s)
    <3>1. /\ p # <<>> /\ h.op = "forward"
          /\ ran'[r] = [ran[r] EXCEPT ![h.route] = Append(@, h.rows)]
      BY <1>1
    <3>2. ShardsNow /\ RankProgress(r) /\ p \in Seq(AllOps) /\ h \in AllOps /\ "clean" \in Range(Routes)
      BY <2>0, <3>1, NextOp, TwoRoutes
    <3>3. pending[r] = Select(s, FlattenSeq(done))
      BY <1>4 DEF ScoreInv, Collecting
    <3>4. ForwardedRows(r) = Select(shard[r][h.route], h.rows) /\ (CollectsActivation(r) <=> h.route = "clean")
      BY <1>4 DEF ForwardedRows, CollectsActivation
    <3> HIDE DEF h, p
    <3>5. h.route \in Range(Routes) /\ h.rows \in Seq(Nat) /\ h = ForwardOp(h.route, h.rows)
      BY <3>1, <3>2, OpIs
    <3>6. DOMAIN ran[r] = Range(Routes) /\ Progress(p, done, n, "clean", config.dynamic)
      BY <3>2 DEF RankProgress, p
    <3>7. n \in Nat
      BY <3>2, ShardFacts
    <3>8. FlattenSeq(done) \in Seq(Nat) /\ done \in Seq(Seq(Nat))
      <4>1. done \in Seq(Seq(Nat))
        BY <3>6 DEF Progress
      <4> HIDE DEF done
      <4> QED BY <4>1, FlattenType
    <3>9. CASE h.route = "clean"
      <4>1. ran'[r]["clean"] = Append(done, h.rows)
        BY <3>1, <3>2, <3>6, <3>9
      <4> HIDE DEF done, s, n
      <4>2. FlattenSeq(Append(done, h.rows)) = FlattenSeq(done) \o h.rows
        BY <3>5, <3>8, FlattenAppend
      <4>3. Select(s, FlattenSeq(done) \o h.rows) = Select(s, FlattenSeq(done)) \o Select(s, h.rows)
        BY <3>5, <3>8, SelectJoined
      <4> QED BY <3>3, <3>4, <3>9, <4>1, <4>2, <4>3 DEF s
    <3>10. CASE h.route # "clean"
      <4>1. ran'[r]["clean"] = done
        BY <3>1, <3>2, <3>6, <3>10
      <4> HIDE DEF done, s, n
      <4>2. Select(s, FlattenSeq(done)) \o <<>> = Select(s, FlattenSeq(done))
        BY <3>8, SelectJoined
      <4> QED BY <3>3, <3>4, <3>10, <4>1, <4>2 DEF s
    <3> QED BY <3>9, <3>10
  <2>2. pending' = [r \in 1..config.world |-> Select(shard[r]["clean"], FlattenSeq(ran'[r]["clean"]))]
    BY <1>1, <2>1
  <2> QED BY <1>1, <1>4, <2>2 DEF ScoreInv, Collecting
<1>5. CASE pc \notin Calls
  BY <1>1, <1>2, <1>5 DEF ScoreInv, Idle, Calls
<1> QED BY <1>3, <1>4, <1>5 DEF Calls

\* The sums of a rank whose call is over.
LEMMA ScoreDispatch ==
  ASSUME RowsInv, CallInv, ScoreInv, DispatchRefresh
  PROVE  ScoreInv'
<1>1. /\ pc = "run_update" /\ pc' = "run_refresh" /\ UNCHANGED <<config, batch, pending>>
      /\ \A r \in 1..config.world : prog[r] = <<>> /\ prog'[r] = IF EntersReduction(r) THEN <<ReduceOp>> ELSE <<>>
  BY DEF DispatchRefresh, AllReturned, Ranks
<1>2. pending = [r \in 1..config.world |-> Collecting(r)]
  BY <1>1 DEF ScoreInv
<1>3. ASSUME NEW r \in 1..config.world
      PROVE  Lists(pending[r], OrderSet(batch, config, r, "clean")) /\ (pending[r] # <<>> => prog'[r] # <<>>)
  <2> DEFINE s == shard[r]["clean"]
             n == Len(s)
             bs == ran[r]["clean"]
             O == OrderSet(batch, config, r, "clean")
  <2>1. ShardsNow /\ RankProgress(r) /\ "clean" \in Range(Routes)
    BY <1>1, TwoRoutes DEF CallInv, Calls
  <2>2. n \in Nat /\ Lists(s, O)
    BY <2>1, ShardFacts
  <2>3. Progress(<<>>, bs, n, "clean", config.dynamic)
    BY <1>1, <2>1 DEF RankProgress
  <2>p. pending[r] = Select(s, FlattenSeq(bs))
    BY <1>2 DEF Collecting
  <2> HIDE DEF n, s, O, bs
  <2>4. Lists(FlattenSeq(bs), 1..n)
    BY <2>2, <2>3, NoneLeft DEF Whole
  <2>5. DOMAIN s = 1..n /\ s \in Seq(O)
    <3>1. s \in Seq(O)
      BY <2>2 DEF Lists
    <3> QED BY <3>1, SeqElements DEF n
  <2>6. Into(s, 1..n, O) /\ OneToOne(s, 1..n) /\ ElementsAt(s, 1..n) = O
    <3>1. \A i \in 1..n : s[i] \in O
      BY <2>5, SeqElements
    <3>2. \A x \in O : \E i \in 1..n : s[i] = x
      BY <2>2, <2>5 DEF Lists
    <3>3. OneToOne(s, 1..n)
      BY <2>2, <2>5 DEF OneToOne, Lists
    <3>4. \A x : x \in ElementsAt(s, 1..n) <=> \E i \in 1..n : x = s[i]
      BY DEF ElementsAt
    <3>5. ElementsAt(s, 1..n) = O
      BY <3>1, <3>2, <3>4, ZenonT(60)
    <3> QED BY <3>1, <3>3, <3>5 DEF Into
  <2>7. Lists(Select(s, FlattenSeq(bs)), O)
    BY <2>4, <2>6, SelectLists
  <2>8. pending[r] # <<>> => prog'[r] # <<>>
    <3>1. pending[r] # <<>> => EntersReduction(r)
      BY DEF EntersReduction
    <3> QED BY <1>1, <3>1
  <2> QED BY <2>7, <2>8, <2>p DEF O
<1>4. ToReduce'
  BY <1>1, <1>2, <1>3 DEF ToReduce
<1> QED BY <1>1, <1>4 DEF ScoreInv

LEMMA CleanRows ==
  ASSUME RowsInv
  PROVE  CleanOrders # {} /\ CleanOrders = UNION {OrderSet(batch, config, r, "clean") : r \in 1..config.world}
<1>1. config \in Configs /\ BatchOk(batch, config) /\ "clean" \in Range(Routes)
  BY TwoRoutes DEF RowsInv
<1>2. Cardinality(RouteSet(batch, "clean")) \in Nat \ {0}
  BY <1>1, RouteCount
<1>3. RouteSet(batch, "clean") # {}
  <2>1. Cardinality({}) = 0
    BY FS_EmptySet
  <2> QED BY <1>2, <2>1
<1>4. CleanOrders # {}
  <2>1. PICK i : i \in RouteSet(batch, "clean")
    BY <1>3
  <2>2. batch[i].out.order \in CleanOrders
    BY <2>1 DEF CleanOrders
  <2> QED BY <2>2
<1>5. UNION {OrderSet(batch, config, r, "clean") : r \in 1..config.world} = CleanOrders
  BY <1>1, OrderSetsApart DEF CleanOrders
<1> QED BY <1>4, <1>5

\* The sums of all ranks, joined.
LEMMA ReducedLists ==
  ASSUME RowsInv, CallInv, ScoreInv, AllAt("reduce")
  PROVE  /\ pc \notin Calls /\ (pc \in Idle => pc = "run_refresh")
         /\ pc = "run_refresh" => Lists(FlattenSeq(pending), CleanOrders)
<1> DEFINE k == config.world
           all == FlattenSeq(pending)
           P == [r \in 1..k |-> OrderSet(batch, config, r, "clean")]
<1>1. Ranks = 1..k /\ 1 \in 1..k /\ k \in Nat \ {0} /\ config \in Configs /\ BatchOk(batch, config)
  BY ConfigFacts DEF RowsInv, Ranks
<1>2. prog[1] # <<>> /\ Head(prog[1]).op = "reduce"
  BY <1>1 DEF AllAt
<1>3. pc \notin Calls
  <2>1. SUFFICES ASSUME pc \in Calls PROVE FALSE
    OBVIOUS
  <2>2. Head(prog[1]) \in AllOps
    BY <1>1, <1>2, <2>1, NextOp
  <2> QED BY <1>2, <2>2, OpIs
<1>4. pc \notin {"generate", "balance", "log_prob", "update", "done"}
  BY <1>1, <1>2 DEF CallInv
<1>5. SUFFICES ASSUME pc = "run_refresh" PROVE Lists(all, CleanOrders)
  BY <1>3, <1>4 DEF Idle
<1>6. ToReduce
  BY <1>1, <1>2, <1>5 DEF ScoreInv, Scored
<1>7. \A r \in 1..k : Lists(pending[r], P[r])
  BY <1>6 DEF ToReduce
<1>8. \A r, q \in 1..k : r # q => P[r] \cap P[q] = {}
  BY <1>1, OrderSetsApart
<1>9. pending \in Seq(Seq(Nat)) /\ DOMAIN pending = 1..k
  <2> DEFINE Q == Seq(Nat)
  <2>1. ASSUME NEW r \in 1..k PROVE pending[r] \in Q
    <3>1. pending[r] \in Seq(P[r])
      BY <1>7 DEF Lists
    <3>2. P[r] \in SUBSET Nat
      <4> DEFINE rows == Chunk(batch, k, r)
      <4>1. Lists(OrdersOf(batch, config, r, "clean"), P[r]) /\ OrdersOf(batch, config, r, "clean") \in Seq(1..Rows(config))
        BY <1>1, OrdersOfIs
      <4> DEFINE o == OrdersOf(batch, config, r, "clean")
      <4> HIDE DEF o, P
      <4>2. \A x \in P[r] : \E i \in DOMAIN o : o[i] = x
        BY <4>1 DEF Lists, o
      <4>3. \A i \in DOMAIN o : o[i] \in 1..Rows(config)
        BY <4>1, SeqElements DEF o
      <4>4. \A x \in P[r] : x \in 1..Rows(config)
        BY <4>2, <4>3
      <4>5. \A x \in P[r] : x \in Nat
        BY <4>4
      <4> QED BY <4>5
    <3> HIDE DEF P
    <3> QED BY <3>1, <3>2, SeqWider
  <2>2. pending = [r \in 1..k |-> pending[r]]
    BY <1>6 DEF ToReduce
  <2> HIDE DEF Q, k
  <2>3. pending \in Seq(Q) /\ DOMAIN pending = 1..k
    BY <1>1, <2>1, <2>2
  <2> QED BY <2>3 DEF Q, k
<1>10. UNION {P[r] : r \in DOMAIN pending} = CleanOrders
  <2>1. {P[r] : r \in DOMAIN pending} = {OrderSet(batch, config, r, "clean") : r \in 1..k}
    BY <1>9
  <2> QED BY <2>1, CleanRows
<1> HIDE DEF P
<1>11. ListsEach(pending, P)
  BY <1>7, <1>8, <1>9 DEF ListsEach
<1>12. Lists(all, CleanOrders)
  BY <1>9, <1>10, <1>11, FlattenLists
<1> QED BY <1>12

LEMMA ScoreReduce ==
  ASSUME RowsInv, CallInv, ScoreInv, Reduce
  PROVE  ScoreInv'
<1>1. CASE Fail
  BY <1>1 DEF Fail, ScoreInv
<1>2. CASE ~Fail
  <2>1. /\ UNCHANGED <<config, pc, batch>>
        /\ \A r \in 1..config.world : prog'[r] = <<>> /\ score'[r] = FlattenSeq(pending)
    BY <1>2 DEF Reduce, Reduced, Ranks
  <2>2. pc \notin Calls /\ (pc \in Idle => pc = "run_refresh")
    BY ReducedLists DEF Reduce
  <2>3. CASE pc = "run_refresh"
    <3>1. Lists(FlattenSeq(pending), CleanOrders)
      BY <2>3, ReducedLists DEF Reduce
    <3>2. CleanOrders' = CleanOrders
      BY <2>1 DEF CleanOrders
    <3>3. Scored'
      BY <2>1, <3>1, <3>2 DEF Scored
    <3> QED BY <2>1, <2>3, <3>3 DEF ScoreInv
  <2>4. CASE pc # "run_refresh"
    BY <2>1, <2>2, <2>4 DEF ScoreInv, Calls, Idle
  <2> QED BY <2>3, <2>4
<1> QED BY <1>1, <1>2

\* With nothing to reduce there would be no clean rows.
LEMMA ScoreEnd ==
  ASSUME RowsInv, CallInv, ScoreInv, EndRefresh
  PROVE  ScoreInv'
<1>1. /\ pc = "run_refresh" /\ pc' = "done" /\ UNCHANGED <<config, batch, prog, score>>
      /\ \A r \in 1..config.world : prog[r] = <<>>
  BY DEF EndRefresh, AllReturned, Ranks
<1>2. ~ToReduce
  <2>1. SUFFICES ASSUME ToReduce PROVE FALSE
    OBVIOUS
  <2>2. PICK o : o \in CleanOrders
    BY CleanRows
  <2>3. PICK r \in 1..config.world : o \in OrderSet(batch, config, r, "clean")
    BY <2>2, CleanRows
  <2>4. pending[r] = <<>> /\ Lists(pending[r], OrderSet(batch, config, r, "clean"))
    BY <1>1, <2>1 DEF ToReduce
  <2>5. \E i \in DOMAIN <<>> : <<>>[i] = o
    BY <2>3, <2>4 DEF Lists
  <2> QED BY <2>5
<1>3. Scored
  BY <1>1, <1>2 DEF ScoreInv
<1>4. CleanOrders' = CleanOrders
  BY <1>1 DEF CleanOrders
<1>5. Scored'
  BY <1>1, <1>3, <1>4 DEF Scored
<1> QED BY <1>1, <1>5 DEF ScoreInv

LEMMA ScoreStays ==
  ASSUME ScoreInv, UNCHANGED <<config, pc, shard, ran, pending>>, pc \notin {"run_refresh", "done"}
  PROVE  ScoreInv'
BY DEF ScoreInv, Collecting

LEMMA ScoreUpdate ==
  ASSUME ScoreInv, DispatchUpdate
  PROVE  ScoreInv'
<1>1. /\ pc = "update" /\ pc' = "run_update" /\ UNCHANGED <<config, pending>>
      /\ ran' = [r \in 1..config.world |-> [route \in Range(Routes) |-> <<>>]]
  BY DEF DispatchUpdate, Dispatch, Ranks
<1>2. pending = [r \in 1..config.world |-> <<>>]
  BY <1>1 DEF ScoreInv
<1>3. ASSUME NEW r \in 1..config.world PROVE Collecting(r)' = <<>>
  <2>1. ran'[r]["clean"] = <<>>
    BY <1>1, <1>3, TwoRoutes
  <2>2. Select(shard'[r]["clean"], <<>>) = <<>>
    BY DEF Select
  <2> QED BY <2>1, <2>2, FlattenNone DEF Collecting
<1>4. pending' = [r \in 1..config.world |-> Collecting(r)']
  BY <1>1, <1>2, <1>3
<1> QED BY <1>1, <1>4 DEF ScoreInv

LEMMA ScoreInvNext == RowsInv /\ CallInv /\ ScoreInv /\ [Next]_vars => ScoreInv'
<1> SUFFICES ASSUME RowsInv, CallInv, ScoreInv, [Next]_vars PROVE ScoreInv'
  OBVIOUS
<1> DEFINE Before == {"generate", "balance", "log_prob", "run_log_prob", "update"}
<1>1. CASE pc' = "failed"
  BY <1>1 DEF ScoreInv
<1>2. ASSUME pc \in Before, pc' \in Before, UNCHANGED <<config, pending>>
      PROVE  ScoreInv'
  BY <1>2 DEF ScoreInv
<1>3. CASE GenerateDual
  BY <1>1, <1>2, <1>3 DEF GenerateDual, Fail
<1>4. CASE BalanceDualRouteBatch
  BY <1>1, <1>2, <1>4 DEF BalanceDualRouteBatch, Fail
<1>5. CASE DispatchLogProb
  BY <1>2, <1>5 DEF DispatchLogProb, Dispatch
<1>6. CASE CollectLogProb
  BY <1>2, <1>6 DEF CollectLogProb
<1>7. CASE AgreeOnCount
  <2>1. pc \notin Idle
    BY <1>7, InCall DEF AgreeOnCount
  <2>2. pc' = "failed" \/ UNCHANGED <<config, pc, shard, ran, pending>>
    BY <1>7 DEF AgreeOnCount, Fail
  <2> QED BY <1>1, <2>1, <2>2, ScoreStays DEF Idle
<1>8. CASE OptimizerStep
  <2>1. pc \notin Idle
    BY <1>8, InCall DEF OptimizerStep
  <2>2. UNCHANGED <<config, pc, shard, ran, pending>>
    BY <1>8 DEF OptimizerStep
  <2> QED BY <2>1, <2>2, ScoreStays DEF Idle
<1>9. CASE UNCHANGED vars
  <2>1. UNCHANGED <<config, pc, batch, shard, prog, ran, pending, score>>
    BY <1>9 DEF vars
  <2>2. (ToReduce => ToReduce') /\ (Scored => Scored')
    BY <2>1 DEF ToReduce, Scored, CleanOrders
  <2> QED BY <2>1, <2>2 DEF ScoreInv, Collecting
<1> QED
  BY <1>3, <1>4, <1>5, <1>6, <1>7, <1>8, <1>9, ScoreUpdate, ScoreForward, ScoreDispatch, ScoreReduce, ScoreEnd
  DEF Next, Step, Stop

\* The pending sums of a rank are of the clean rows it has forwarded, and a rank that has
\* any enters the reduction.
THEOREM ScoreInvHolds == Spec => []ScoreInv
<1>1. Init => ScoreInv
  BY ScoreInvInit
<1>2. RowsInv /\ CallInv /\ ScoreInv /\ [Next]_vars => ScoreInv'
  BY ScoreInvNext
<1> QED BY <1>1, <1>2, RowsInvHolds, CallInvHolds, PTL DEF Spec

\* For every number of ranks, rows and routes, the reduced score is over every clean row of
\* the step, each once, on every rank.
THEOREM ScoreOfAllCleanRowsHolds == Spec => []ScoreOfAllCleanRows
<1>1. ScoreInv => ScoreOfAllCleanRows
  <2> SUFFICES ASSUME ScoreInv, pc = "done", NEW r \in Ranks
               PROVE  /\ Range(score[r]) = {batch[i].out.order : i \in {j \in DOMAIN batch : batch[j].out.route = "clean"}}
                      /\ IsInjective(score[r])
    BY DEF ScoreOfAllCleanRows
  <2>1. Lists(score[r], CleanOrders)
    BY DEF ScoreInv, Scored, Ranks
  <2>2. Range(score[r]) = CleanOrders
    BY <2>1, ListsRange
  <2>3. IsInjective(score[r])
    BY <2>1 DEF Lists, IsInjective
  <2> QED BY <2>2, <2>3 DEF CleanOrders, RouteSet
<1> QED BY <1>1, ScoreInvHolds, PTL

-----------------------------------------------------------------------------
(* The loss of the micro-batches is that of the whole shard.                  *)

LEMMA CountsAre ==
  ASSUME NEW w \in Seq(Nat)
  PROVE  /\ TokenCount(w) \in Nat /\ ActiveCount(w) \in Nat
         /\ \A i \in DOMAIN w : w[i] > 0 => TokenCount(w) > 0 /\ ActiveCount(w) > 0
<1> DEFINE D == DOMAIN w
           A == {i \in D : w[i] > 0}
<1>1. D = 1..Len(w) /\ Len(w) \in Nat /\ NatOn(w, D)
  BY SeqElements DEF NatOn
<1>2. IsFiniteSet(D)
  BY <1>1, FS_Interval
<1>3. TokenCount(w) = Sum(w, D)
  <2>1. TokenCount(w) = Total(w)
    BY DEF TokenCount, Total
  <2> QED BY <2>1, TotalIsSum
<1>4. ActiveCount(w) = Cardinality(A)
  BY DEF ActiveCount
<1>5. IsFiniteSet(A)
  BY <1>2, FS_Subset
<1> HIDE DEF A
<1>6. Cardinality(A) \in Nat
  BY <1>5, FS_CardinalityType
<1>7. Sum(w, D) \in Nat
  <2>1. IntOn(w, D)
    BY <1>1 DEF IntOn, NatOn
  <2> QED BY <1>1, <1>2, <2>1, SumType
<1>8. ASSUME NEW i \in D, w[i] > 0 PROVE Sum(w, D) > 0 /\ Cardinality(A) > 0
  <2>1. i \in A
    BY <1>8 DEF A
  <2>2. Cardinality(A) # 0
    BY <1>5, <2>1, FS_EmptySet
  <2>3. IsFiniteSet(D \ {i}) /\ NatOn(w, D \ {i}) /\ IntOn(w, D \ {i}) /\ IntOn(w, D)
    BY <1>1, <1>2, FS_Subset DEF NatOn, IntOn
  <2>4. Sum(w, D \ {i}) \in Nat
    BY <2>3, SumType
  <2>5. Sum(w, D) = w[i] + Sum(w, D \ {i})
    BY <1>2, <2>3, SumRemove
  <2>6. w[i] \in Nat
    BY <1>1 DEF NatOn
  <2> QED BY <1>6, <1>8, <2>2, <2>4, <2>5, <2>6
<1> QED BY <1>3, <1>4, <1>6, <1>7, <1>8

\* A row of a micro-batch weighs what it would weigh among all rows of its group.
LEMMA SameWeight ==
  ASSUME NEW mode \in AggModes, NEW local \in Seq(Nat), NEW whole \in Seq(Nat),
         NEW i \in DOMAIN local, NEW j \in DOMAIN whole, local[i] = whole[j], NEW m \in Nat
  PROVE  /\ ContributedWeight(mode, local, whole, m, local[i]) \in Nat \X Nat
         /\ local[i] > 0 =>
              LET w == TokenWeight(mode, whole, whole[j])
              IN  SameFraction(ContributedWeight(mode, local, whole, m, local[i]), <<w[1], w[2] * m>>)
<1> DEFINE a == TokenCount(local)
           b == TokenCount(whole)
           p == ActiveCount(local)
           q == ActiveCount(whole)
           n == local[i]
           weight == TokenWeight(mode, local, n)
           scale == AggregationScale(mode, local, whole)
           due == TokenWeight(mode, whole, n)
<1>1. n \in Nat /\ n = whole[j] /\ ResponseWidth \in Nat
  BY SeqElements, WidthAssumption
<1>2. a \in Nat /\ b \in Nat /\ p \in Nat /\ q \in Nat
  BY CountsAre
<1>3. n > 0 => a > 0 /\ b > 0 /\ p > 0 /\ q > 0
  BY <1>1, CountsAre
<1>4. ContributedWeight(mode, local, whole, m, n) = <<weight[1] * scale[1], weight[2] * scale[2] * m>>
  BY DEF ContributedWeight
<1>5. mode \in {"token-mean", "seq-mean-token-sum", "seq-mean-token-mean", "seq-mean-token-sum-norm"}
  BY DEF AggModes
<1>6. weight = IF mode = "token-mean" THEN <<1, a>> ELSE IF mode = "seq-mean-token-sum" THEN <<1, p>>
               ELSE IF mode = "seq-mean-token-mean" THEN <<1, n * p>> ELSE <<1, ResponseWidth>>
  BY <1>5 DEF TokenWeight
<1>7. due = IF mode = "token-mean" THEN <<1, b>> ELSE IF mode = "seq-mean-token-sum" THEN <<1, q>>
            ELSE IF mode = "seq-mean-token-mean" THEN <<1, n * q>> ELSE <<1, ResponseWidth>>
  BY <1>5 DEF TokenWeight
<1> DEFINE mass(x, y) == IF mode = "token-mean" THEN x ELSE IF mode = "seq-mean-token-sum-norm" THEN 1 ELSE y
<1>8. AggregationMass(mode, local) = mass(a, p) /\ AggregationMass(mode, whole) = mass(b, q)
  BY <1>5 DEF AggregationMass
<1>9. scale = IF a = 0 \/ mass(b, q) = 0 THEN <<0, 1>>
              ELSE IF mode = "seq-mean-token-sum-norm" THEN <<1, 1>> ELSE <<mass(a, p), mass(b, q)>>
  BY <1>8 DEF AggregationScale
<1> HIDE DEF a, b, p, q, n, weight, scale, due
<1>10. scale[1] \in Nat /\ scale[2] \in Nat /\ weight[1] \in Nat /\ weight[2] \in Nat
  <2>1. n * p \in Nat
    BY <1>1, <1>2
  <2>2. weight[1] \in Nat /\ weight[2] \in Nat
    BY <1>1, <1>2, <1>6, <2>1
  <2> DEFINE x == mass(a, p)
             y == mass(b, q)
  <2>3. x \in Nat /\ y \in Nat
    BY <1>2
  <2> HIDE DEF x, y, mass
  <2>4. scale[1] \in Nat /\ scale[2] \in Nat
    <3>1. scale = <<0, 1>> \/ scale = <<1, 1>> \/ scale = <<x, y>>
      BY <1>9 DEF x, y
    <3> QED BY <2>3, <3>1
  <2> QED BY <2>2, <2>4
<1>11. <<weight[1] * scale[1], weight[2] * scale[2] * m>> \in Nat \X Nat
  <2>0. \A u, v \in Nat : u * v \in Nat
    OBVIOUS
  <2>1. weight[1] * scale[1] \in Nat /\ weight[2] * scale[2] \in Nat
    BY <1>10, <2>0
  <2>2. weight[2] * scale[2] * m \in Nat
    BY <2>0, <2>1
  <2> QED BY <2>1, <2>2
<1>12. ASSUME n > 0
       PROVE  (weight[1] * scale[1]) * (due[2] * m) = due[1] * (weight[2] * scale[2] * m)
  <2>1. a > 0 /\ b > 0 /\ p > 0 /\ q > 0
    BY <1>3, <1>12
  <2>2. CASE mode = "token-mean"
    <3>1. weight = <<1, a>> /\ due = <<1, b>> /\ scale = <<a, b>>
      BY <1>2, <1>6, <1>7, <1>9, <2>1, <2>2
    <3>2. (1 * a) * (b * m) = 1 * (a * b * m)
      BY <1>2
    <3> QED BY <3>1, <3>2
  <2>3. CASE mode = "seq-mean-token-sum"
    <3>1. weight = <<1, p>> /\ due = <<1, q>> /\ scale = <<p, q>>
      BY <1>2, <1>6, <1>7, <1>9, <2>1, <2>3
    <3>2. (1 * p) * (q * m) = 1 * (p * q * m)
      BY <1>2
    <3> QED BY <3>1, <3>2
  <2>4. CASE mode = "seq-mean-token-mean"
    <3>1. weight = <<1, n * p>> /\ due = <<1, n * q>> /\ scale = <<p, q>>
      BY <1>2, <1>6, <1>7, <1>9, <2>1, <2>4
    <3>2. (1 * p) * (n * q * m) = 1 * (n * p * q * m)
      BY <1>1, <1>2
    <3> QED BY <3>1, <3>2
  <2>5. CASE mode = "seq-mean-token-sum-norm"
    <3>1. weight = <<1, ResponseWidth>> /\ due = <<1, ResponseWidth>> /\ scale = <<1, 1>>
      BY <1>2, <1>6, <1>7, <1>9, <2>1, <2>5
    <3>2. (1 * 1) * (ResponseWidth * m) = 1 * (ResponseWidth * 1 * m)
      BY <1>1
    <3> QED BY <3>1, <3>2
  <2> QED BY <1>5, <2>2, <2>3, <2>4, <2>5
<1>13. n > 0 => SameFraction(ContributedWeight(mode, local, whole, m, n), <<due[1], due[2] * m>>)
  BY <1>4, <1>12 DEF SameFraction
<1> QED BY <1>1, <1>4, <1>11, <1>13 DEF due, n

Entry == [row : Nat, weight : Nat \X Nat]

RowOf(l) == [e \in DOMAIN l |-> l[e].row]

\* Orders of a rank's rows of a route that were forwarded.
RowsDone(r, x) == ElementsAt(shard[r][x], Range(FlattenSeq(ran[r][x])))

DueWeight(r, x, i) ==
  LET tokens == Trainable(shard[r][x])
      w      == TokenWeight(config.agg, tokens, tokens[i])
  IN <<w[1], w[2] * Len(Routes)>>

WeighsRight(r, entry) ==
  \A x \in Range(Routes) : \A i \in DOMAIN shard[r][x] :
    shard[r][x][i] = entry.row /\ Trainable(shard[r][x])[i] > 0 => SameFraction(entry.weight, DueWeight(r, x, i))

LossSoFar(r) ==
  /\ loss[r] \in Seq(Entry)
  /\ Lists(RowOf(loss[r]), RowsDone(r, "clean") \cup RowsDone(r, "masked"))
  /\ \A e \in DOMAIN loss[r] : WeighsRight(r, loss[r][e])

LossInv ==
  /\ pc \in {"generate", "balance", "log_prob", "run_log_prob", "update"} =>
       loss = [r \in 1..config.world |-> <<>>]
  /\ pc = "run_update" => \A r \in 1..config.world : LossSoFar(r)
  /\ LossOfWholeShard

LEMMA RowOfConcat ==
  ASSUME NEW a \in Seq(Entry), NEW b \in Seq(Entry)
  PROVE  RowOf(a \o b) = RowOf(a) \o RowOf(b)
<1> DEFINE h == [x \in Entry |-> x.row]
           s == RowOf(a)
           t == RowOf(b)
           u == RowOf(a \o b)
           n == Len(a) + Len(b)
<1>1. /\ a \o b \in Seq(Entry) /\ Len(a) \in Nat /\ Len(b) \in Nat
      /\ DOMAIN (a \o b) = 1..n /\ DOMAIN a = 1..Len(a) /\ DOMAIN b = 1..Len(b)
      /\ \A i \in 1..Len(a) : (a \o b)[i] = a[i]
      /\ \A i \in (Len(a) + 1)..n : i - Len(a) \in 1..Len(b) /\ (a \o b)[i] = b[i - Len(a)]
  BY ConcatFacts
<1>e. \A x \in Entry : x.row \in Nat
  BY DEF Entry
<1>2. \A i \in DOMAIN a : a[i].row \in Nat
  <2>1. \A i \in DOMAIN a : a[i] \in Entry
    BY SeqElements
  <2> QED BY <1>e, <2>1
<1>3. \A i \in DOMAIN b : b[i].row \in Nat
  <2>1. \A i \in DOMAIN b : b[i] \in Entry
    BY SeqElements
  <2> QED BY <1>e, <2>1
<1>4. s \in Seq(Nat) /\ Len(s) = Len(a) /\ DOMAIN s = 1..Len(a) /\ \A i \in 1..Len(a) : s[i] = a[i].row
  BY <1>1, <1>2 DEF RowOf
<1>5. t \in Seq(Nat) /\ Len(t) = Len(b) /\ DOMAIN t = 1..Len(b) /\ \A i \in 1..Len(b) : t[i] = b[i].row
  BY <1>1, <1>3 DEF RowOf
<1>6. DOMAIN u = 1..n /\ \A i \in 1..n : u[i] = (a \o b)[i].row
  BY <1>1 DEF RowOf
<1> HIDE DEF s, t, u
<1> DEFINE v == s \o t
<1>7. /\ v \in Seq(Nat) /\ Len(v) = Len(a) + Len(b)
      /\ \A i \in 1..Len(a) : v[i] = s[i]
      /\ \A i \in (Len(a) + 1)..(Len(a) + Len(b)) : v[i] = t[i - Len(a)]
  <2>1. s \in Seq(Nat) /\ t \in Seq(Nat)
    BY <1>4, <1>5
  <2>2. /\ s \o t \in Seq(Nat) /\ Len(s \o t) = Len(s) + Len(t)
        /\ \A i \in 1..Len(s) : (s \o t)[i] = s[i]
        /\ \A i \in (Len(s) + 1)..(Len(s) + Len(t)) : (s \o t)[i] = t[i - Len(s)]
    BY <2>1, ConcatFacts
  <2> QED BY <1>4, <1>5, <2>2
<1> HIDE DEF v
<1>8. ASSUME NEW i \in 1..n PROVE u[i] = v[i]
  <2>1. CASE i \in 1..Len(a)
    BY <1>1, <1>4, <1>6, <1>7, <2>1
  <2>2. CASE i \notin 1..Len(a)
    <3>1. i \in (Len(a) + 1)..n
      BY <1>1, <2>2
    <3> QED BY <1>1, <1>5, <1>6, <1>7, <3>1
  <2> QED BY <2>1, <2>2
<1>9. u = [i \in 1..n |-> u[i]] /\ v = [i \in 1..n |-> v[i]]
  <2>1. u = [i \in 1..n |-> u[i]]
    BY <1>6 DEF u, RowOf
  <2>2. v = [i \in 1..n |-> v[i]]
    BY <1>7
  <2> QED BY <2>1, <2>2
<1>10. u = v
  BY <1>8, <1>9
<1> QED BY <1>10 DEF u, v, s, t

\* The next forward takes rows that were not forwarded yet.
ForwardsNext(done, s, n) ==
  /\ FlattenSeq(Append(done, s)) = FlattenSeq(done) \o s /\ FlattenSeq(done) \in Seq(Nat)
  /\ Lists(s, Range(s)) /\ Range(s) \in SUBSET (1..n) /\ Range(FlattenSeq(done)) \in SUBSET (1..n)
  /\ Range(FlattenSeq(done)) \cap Range(s) = {}
  /\ Range(FlattenSeq(Append(done, s))) = Range(FlattenSeq(done)) \cup Range(s)

LEMMA NextRows ==
  ASSUME NEW n \in Nat, NEW x \in Range(Routes), NEW dynamic, NEW p \in Seq(AllOps), p # <<>>, NEW done,
         Progress(p, done, n, x, dynamic), NEW s \in Seq(Nat), Head(p) = ForwardOp(x, s)
  PROVE  ForwardsNext(done, s, n)
<1>0. Progress(Tail(p), Append(done, s), n, x, dynamic) /\ FlattenSeq(Append(done, s)) = FlattenSeq(done) \o s
  <2>1. /\ n \in Nat /\ x \in Range(Routes) /\ p \in Seq(AllOps) /\ p # <<>> /\ s \in Seq(Nat)
        /\ Progress(p, done, n, x, dynamic) /\ Head(p) = ForwardOp(x, s)
    OBVIOUS
  <2>2. Progress(Tail(p), Append(done, s), n, x, dynamic)
    BY <2>1, ForwardProgress
  <2>3. FlattenSeq(Append(done, s)) = FlattenSeq(done) \o s
    <3>1. done \in Seq(Seq(Nat))
      BY DEF Progress
    <3> QED BY <3>1, FlattenAppend
  <2> QED BY <2>2, <2>3
<1> DEFINE f == FlattenSeq(done)
           g == FlattenSeq(Append(done, s))
           t == Work(Tail(p), x, Upto(n))
<1>1. Progress(Tail(p), Append(done, s), n, x, dynamic) /\ g = f \o s
  BY <1>0
<1>2. f \in Seq(Nat)
  <2>1. done \in Seq(Seq(Nat))
    BY DEF Progress
  <2> QED BY <2>1, FlattenType
<1>3. Lists(Upto(n), 1..n) /\ Upto(n) \in Seq(Nat)
  <2>1. Lists(Upto(n), 1..n) /\ Upto(n) \in Seq(1..n) /\ 1..n \in SUBSET Nat
    BY UptoIs
  <2> QED BY <2>1, SeqWider
<1>4. Whole(Upto(n), n, dynamic)
  BY <1>3 DEF Whole
<1>5. Lists(g \o t, 1..n)
  BY <1>1, <1>4 DEF Progress, Whole
<1>6. t \in Seq(Nat)
  <2>1. Tail(p) \in Seq(AllOps)
    BY HeadTail
  <2> QED BY <1>3, <2>1, WorkFacts
<1> HIDE DEF f, g, t
<1>7. g \in Seq(Nat)
  BY <1>1, <1>2
<1>8. Lists(g, Range(g)) /\ Range(g) \cup Range(t) = 1..n
  BY <1>5, <1>6, <1>7, PartsOfList
<1>9. Lists(f \o s, Range(g))
  BY <1>1, <1>8
<1>10. Lists(s, Range(s)) /\ Range(f) \cap Range(s) = {} /\ Range(f) \cup Range(s) = Range(g)
  BY <1>2, <1>9, PartsOfList
<1>11. Range(f) \in SUBSET (1..n)
  BY <1>8, <1>10
<1>12. Range(s) \in SUBSET (1..n)
  BY <1>8, <1>10
<1> QED BY <1>1, <1>2, <1>10, <1>11, <1>12 DEF f, g, ForwardsNext

LEMMA TrainableIs ==
  ASSUME RowsInv, pc \notin {"generate", "failed"}, NEW s \in Seq(1..Rows(config))
  PROVE  /\ Trainable(s) \in Seq(Nat) /\ DOMAIN Trainable(s) = DOMAIN s
         /\ \A i \in DOMAIN s : Trainable(s)[i] = lens[s[i]] \div 256
<1> DEFINE f == Trainable(s)
           n == Rows(config)
<1>1. /\ \A i \in 1..n : lens[i] \in config.lens
      /\ config.lens \subseteq 1..config.maxTokens /\ config.maxTokens \in Nat \ {0}
  BY ConfigFacts DEF RowsInv
<1>2. f = [i \in DOMAIN s |-> lens[s[i]] \div 256]
  BY DEF Trainable
<1> HIDE DEF f, n
<1>3. Len(s) \in Nat /\ DOMAIN s = 1..Len(s) /\ \A i \in DOMAIN s : s[i] \in 1..n
  BY SeqElements DEF n
<1>4. \A i \in 1..Len(s) : lens[s[i]] \in Nat
  BY <1>1, <1>3
<1>5. \A k \in Nat : k \div 256 \in Nat
  OBVIOUS
<1>6. \A i \in 1..Len(s) : lens[s[i]] \div 256 \in Nat
  BY <1>4, <1>5
<1>7. f \in Seq(Nat) /\ DOMAIN f = DOMAIN s
  BY <1>2, <1>3, <1>6
<1> QED BY <1>2, <1>7 DEF f

\* A rank's shard of a route as a one-to-one list.
LEMMA ShardLists ==
  ASSUME RowsInv, ShardsNow, NEW r \in 1..config.world, NEW x \in Range(Routes)
  PROVE  LET s == shard[r][x]
             O == OrderSet(batch, config, r, x)
         IN  /\ DOMAIN s = 1..Len(s) /\ Len(s) \in Nat /\ O \in SUBSET (1..Rows(config))
             /\ Into(s, 1..Len(s), O) /\ OneToOne(s, 1..Len(s)) /\ ElementsAt(s, 1..Len(s)) = O
<1> DEFINE s == shard[r][x]
           n == Len(s)
           O == OrderSet(batch, config, r, x)
<1>1. Lists(s, O) /\ s \in Seq(1..Rows(config))
  BY ShardFacts
<1> HIDE DEF s, n, O
<1>2. s \in Seq(O)
  BY <1>1 DEF Lists
<1>3. DOMAIN s = 1..n /\ n \in Nat /\ \A i \in 1..n : s[i] \in O
  BY <1>2, SeqElements DEF n
<1>4. \A y \in O : \E i \in 1..n : s[i] = y
  BY <1>1, <1>3 DEF Lists
<1>5. OneToOne(s, 1..n)
  BY <1>1, <1>3 DEF OneToOne, Lists
<1>6. \A y : y \in ElementsAt(s, 1..n) <=> \E i \in 1..n : y = s[i]
  BY DEF ElementsAt
<1>7. ElementsAt(s, 1..n) = O
  BY <1>3, <1>4, <1>6, ZenonT(60)
<1>8. \A i \in 1..n : s[i] \in 1..Rows(config)
  BY <1>1, <1>3, SeqElements
<1>9. O \in SUBSET (1..Rows(config))
  <2>1. \A y \in O : y \in 1..Rows(config)
    BY <1>4, <1>8
  <2> QED BY <2>1
<1> QED BY <1>3, <1>5, <1>7, <1>9 DEF Into, s, n, O

\* What a forward adds: its rows, each with the weight it is due.
LEMMA ContributionIs ==
  ASSUME RowsInv, CallInv, pc = "run_update", NEW r \in 1..config.world, prog[r] # <<>>,
         NEW x \in Range(Routes), NEW m \in Seq(Nat), Head(prog[r]) = ForwardOp(x, m),
         Lists(m, Range(m)), Range(m) \in SUBSET (1..Len(shard[r][x]))
  PROVE  /\ Contribution(r) \in Seq(Entry)
         /\ Lists(RowOf(Contribution(r)), ElementsAt(shard[r][x], Range(m)))
         /\ \A e \in DOMAIN Contribution(r) : WeighsRight(r, Contribution(r)[e])
<1> DEFINE s == shard[r][x]
           n == Len(s)
           O == OrderSet(batch, config, r, x)
           I == Range(m)
           rows == Select(s, m)
           local == Trainable(rows)
           whole == Trainable(s)
           c == Contribution(r)
           mode == config.agg
           k == Len(Routes)
<1>1. ShardsNow /\ config \in Configs /\ BatchOk(batch, config)
  BY DEF CallInv, Calls, RowsInv
<1>2. /\ DOMAIN s = 1..n /\ n \in Nat /\ O \in SUBSET (1..Rows(config)) /\ s \in Seq(1..Rows(config))
      /\ Into(s, 1..n, O) /\ OneToOne(s, 1..n)
  BY <1>1, ShardLists, ShardFacts
<1>3. ForwardedRows(r) = rows /\ Head(prog[r]).route = x
  BY DEF ForwardedRows, ForwardOp
<1>4. c = [i \in DOMAIN rows |->
             [row |-> rows[i], weight |-> ContributedWeight(mode, local, whole, k, local[i])]]
  BY <1>3 DEF Contribution
<1> HIDE DEF s, n, O, c, local, whole
<1>5. Into(s, I, O) /\ OneToOne(s, I) /\ Lists(m, I) /\ I \in SUBSET (1..n)
  BY <1>2 DEF Into, OneToOne, n, s
<1> HIDE DEF I
<1>6. /\ Lists(rows, ElementsAt(s, I)) /\ rows \in Seq(O) /\ DOMAIN rows = DOMAIN m
      /\ \A i \in DOMAIN m : m[i] \in I /\ rows[i] = s[m[i]]
  BY <1>5, SelectLists
<1> HIDE DEF rows
<1>7. rows \in Seq(1..Rows(config))
  BY <1>2, <1>6, SeqWider
<1>8. /\ local \in Seq(Nat) /\ DOMAIN local = DOMAIN rows /\ \A i \in DOMAIN rows : local[i] = lens[rows[i]] \div 256
      /\ whole \in Seq(Nat) /\ DOMAIN whole = DOMAIN s /\ \A i \in DOMAIN s : whole[i] = lens[s[i]] \div 256
  BY <1>2, <1>7, TrainableIs DEF local, whole
<1>9. mode \in AggModes /\ k = 2
  BY <1>1, ConfigFacts, TwoRoutes
<1>10. ASSUME NEW i \in DOMAIN m
       PROVE  /\ m[i] \in DOMAIN s /\ rows[i] = s[m[i]] /\ rows[i] \in O /\ rows[i] \in Nat
              /\ ContributedWeight(mode, local, whole, k, local[i]) \in Nat \X Nat
              /\ whole[m[i]] > 0 => SameFraction(ContributedWeight(mode, local, whole, k, local[i]), DueWeight(r, x, m[i]))
  <2>1. m[i] \in DOMAIN s /\ rows[i] = s[m[i]]
    BY <1>2, <1>5, <1>6
  <2>2. rows[i] \in O /\ rows[i] \in Nat
    <3>1. rows[i] \in O
      BY <1>2, <2>1 DEF Into
    <3>2. rows[i] \in 1..Rows(config)
      BY <1>2, <3>1
    <3> QED BY <3>1, <3>2
  <2> DEFINE j == m[i]
  <2>3. i \in DOMAIN local /\ j \in DOMAIN whole /\ local[i] = whole[j]
    <3>1. i \in DOMAIN rows /\ DOMAIN rows = DOMAIN m
      BY <1>6
    <3>2. local[i] = lens[rows[i]] \div 256 /\ whole[j] = lens[s[j]] \div 256
      BY <1>8, <2>1, <3>1
    <3> QED BY <1>8, <2>1, <3>1, <3>2
  <2> HIDE DEF j, mode, k
  <2>4. k \in Nat
    BY <1>9
  <2>5. /\ ContributedWeight(mode, local, whole, k, local[i]) \in Nat \X Nat
        /\ local[i] > 0 =>
              LET w == TokenWeight(mode, whole, whole[j])
              IN  SameFraction(ContributedWeight(mode, local, whole, k, local[i]), <<w[1], w[2] * k>>)
    BY <1>8, <1>9, <2>3, <2>4, SameWeight, ZenonT(60)
  <2>6. DueWeight(r, x, j) = LET w == TokenWeight(mode, whole, whole[j]) IN <<w[1], w[2] * k>>
    BY DEF DueWeight, whole, s, mode, k
  <2>7. local[i] > 0 => SameFraction(ContributedWeight(mode, local, whole, k, local[i]), DueWeight(r, x, j))
    BY <2>5, <2>6
  <2> QED BY <2>1, <2>2, <2>3, <2>5, <2>7 DEF j
<1>11. DOMAIN m = 1..Len(m) /\ Len(m) \in Nat
  BY SeqElements
<1>12. c \in Seq(Entry) /\ DOMAIN c = DOMAIN m
  <2>1. c = [i \in 1..Len(m) |->
               [row |-> rows[i], weight |-> ContributedWeight(mode, local, whole, k, local[i])]]
    BY <1>4, <1>6, <1>11
  <2>2. \A i \in 1..Len(m) : [row |-> rows[i], weight |-> ContributedWeight(mode, local, whole, k, local[i])] \in Entry
    BY <1>10, <1>11 DEF Entry
  <2> DEFINE v == [i \in 1..Len(m) |-> [row |-> rows[i], weight |-> ContributedWeight(mode, local, whole, k, local[i])]]
  <2>3. \A i \in 1..Len(m) : v[i] \in Entry
    BY <2>2
  <2>4. v = [i \in 1..Len(m) |-> v[i]]
    OBVIOUS
  <2> HIDE DEF v
  <2>5. v \in Seq(Entry) /\ DOMAIN v = 1..Len(m)
    BY <1>11, <2>3, <2>4
  <2> QED BY <1>11, <2>1, <2>5 DEF v
<1>13. RowOf(c) = rows
  <2>1. RowOf(c) = [i \in DOMAIN m |-> rows[i]]
    BY <1>4, <1>6, <1>12 DEF RowOf
  <2>2. rows = [i \in DOMAIN rows |-> rows[i]]
    BY <1>6
  <2> QED BY <1>6, <2>1, <2>2
<1>14. ASSUME NEW e \in DOMAIN c PROVE WeighsRight(r, c[e])
  <2>1. /\ c[e].row = s[m[e]] /\ m[e] \in DOMAIN s /\ s[m[e]] \in O
        /\ c[e].weight = ContributedWeight(mode, local, whole, k, local[e])
        /\ whole[m[e]] > 0 => SameFraction(c[e].weight, DueWeight(r, x, m[e]))
    BY <1>4, <1>6, <1>10, <1>12
  <2>2. ASSUME NEW y \in Range(Routes), NEW i \in DOMAIN shard[r][y], shard[r][y][i] = c[e].row,
               Trainable(shard[r][y])[i] > 0
        PROVE  SameFraction(c[e].weight, DueWeight(r, y, i))
    <3>1. y = x
      <4>1. SUFFICES ASSUME y # x PROVE FALSE
        OBVIOUS
      <4>2. shard[r][y][i] \in OrderSet(batch, config, r, y)
        <5> DEFINE d == shard[r][y]
        <5>1. DOMAIN d = 1..Len(d) /\ Into(d, 1..Len(d), OrderSet(batch, config, r, y))
          BY <1>1, ShardLists
        <5> QED BY <5>1, <2>2 DEF Into
      <4>3. OrderSet(batch, config, r, x) \cap OrderSet(batch, config, r, y) = {}
        BY <1>1, <4>1, OrderSetsApart
      <4> QED BY <2>1, <2>2, <4>2, <4>3 DEF O
    <3>2. i = m[e]
      BY <1>2, <2>1, <2>2, <3>1 DEF OneToOne, s
    <3> QED BY <2>1, <2>2, <3>1, <3>2 DEF whole, s
  <2> QED BY <2>2 DEF WeighsRight
<1> QED BY <1>6, <1>12, <1>13, <1>14 DEF c, s, I

LEMMA SameTokens ==
  ASSUME UNCHANGED <<config, lens, shard>>
  PROVE  /\ \A s : Trainable(s)' = Trainable(s)
         /\ \A r, e : WeighsRight(r, e)' <=> WeighsRight(r, e)
<1>1. \A s : Trainable(s)' = Trainable(s)
  BY DEF Trainable
<1>2. \A r, x : Trainable(shard[r][x])' = Trainable(shard[r][x])
  BY DEF Trainable
<1>3. \A r, x, i : DueWeight(r, x, i)' = DueWeight(r, x, i)
  BY <1>2 DEF DueWeight
<1>4. \A r, e : WeighsRight(r, e)' <=> WeighsRight(r, e)
  BY <1>2, <1>3 DEF WeighsRight
<1> QED BY <1>1, <1>4

\* The property in terms of the shard, its lengths and the rank's loss.
WholeLoss(l, s, tokens, agg) ==
  \A i \in DOMAIN s : \E given \in DOMAIN l :
    /\ {e \in DOMAIN l : l[e].row = s[i]} = {given}
    /\ tokens[i] > 0 => SameFraction(l[given].weight,
                          LET w == TokenWeight(agg, tokens, tokens[i]) IN <<w[1], w[2] * Len(Routes)>>)

LossIsWhole ==
  \A r \in 1..config.world, k \in DOMAIN Routes :
    WholeLoss(loss[r], shard[r][Routes[k]], Trainable(shard[r][Routes[k]]), config.agg)

LEMMA WholeThen ==
  ASSUME LossOfWholeShard, pc \in {"run_refresh", "done"}
  PROVE  LossIsWhole
BY DEF LossOfWholeShard, LossIsWhole, WholeLoss, Ranks

LEMMA WholeNext ==
  ASSUME LossIsWhole'
  PROVE  LossOfWholeShard'
BY DEF LossOfWholeShard, LossIsWhole, WholeLoss, Ranks

LEMMA LossStays ==
  ASSUME UNCHANGED <<config, pc, lens, shard, ran, loss>>, pc \notin {"run_refresh", "done"}, LossInv
  PROVE  LossInv'
<1>1. ASSUME NEW r \in 1..config.world, LossSoFar(r) PROVE LossSoFar(r)'
  <2>1. \A x : RowsDone(r, x)' = RowsDone(r, x)
    BY DEF RowsDone
  <2>2. RowsDone(r, "clean")' = RowsDone(r, "clean") /\ RowsDone(r, "masked")' = RowsDone(r, "masked")
    BY <2>1
  <2>3. \A e \in DOMAIN loss[r] : WeighsRight(r, loss[r][e])'
    <3>1. \A e : WeighsRight(r, e) => WeighsRight(r, e)'
      BY SameTokens
    <3>2. \A e \in DOMAIN loss[r] : WeighsRight(r, loss[r][e])
      BY <1>1 DEF LossSoFar
    <3> QED BY <3>1, <3>2 DEF WeighsRight
  <2>4. loss'[r] = loss[r] /\ loss' = loss
    OBVIOUS
  <2>5. loss'[r] \in Seq(Entry) /\ Lists(RowOf(loss'[r]), RowsDone(r, "clean")' \cup RowsDone(r, "masked")')
    BY <1>1, <2>2, <2>4 DEF LossSoFar
  <2> QED BY <2>3, <2>4, <2>5 DEF LossSoFar
<1> QED BY <1>1 DEF LossInv, LossOfWholeShard

LEMMA WholeStays ==
  ASSUME UNCHANGED <<config, lens, shard, loss>>, pc \in {"run_refresh", "done"}, LossOfWholeShard
  PROVE  LossOfWholeShard'
<1>1. \A r, k : Trainable(shard[r][Routes[k]])' = Trainable(shard[r][Routes[k]])
  BY DEF Trainable
<1>2. LossIsWhole
  BY WholeThen
<1>3. ASSUME NEW r \in 1..config.world, NEW k \in DOMAIN Routes
      PROVE  WholeLoss(loss'[r], shard'[r][Routes[k]], Trainable(shard[r][Routes[k]])', config'.agg)
  BY <1>1, <1>2 DEF LossIsWhole
<1>4. LossIsWhole'
  BY <1>3 DEF LossIsWhole
<1> QED BY <1>4, WholeNext

LEMMA LossUpdate ==
  ASSUME RowsInv, LossInv, DispatchUpdate
  PROVE  LossInv'
<1>1. /\ pc = "update" /\ pc' = "run_update" /\ UNCHANGED <<config, loss>>
      /\ ran' = [r \in 1..config.world |-> [route \in Range(Routes) |-> <<>>]]
  BY DEF DispatchUpdate, Dispatch, Ranks
<1>2. \A r \in 1..config.world : loss'[r] = <<>>
  BY <1>1 DEF LossInv
<1>3. ASSUME NEW r \in 1..config.world PROVE LossSoFar(r)'
  <2>1. RowsDone(r, "clean")' = {} /\ RowsDone(r, "masked")' = {}
    <3>1. ran'[r]["clean"] = <<>> /\ ran'[r]["masked"] = <<>>
      BY <1>1, TwoRoutes
    <3>2. Range(<<>>) = {}
      BY DEF Range
    <3> QED BY <3>1, <3>2, FlattenNone DEF RowsDone, ElementsAt
  <2>2. RowOf(<<>>) = <<>> /\ Lists(<<>>, {})
    BY DEF RowOf, Lists
  <2>3. loss'[r] = <<>> /\ <<>> \in Seq(Entry) /\ DOMAIN <<>> = {}
    BY <1>2
  <2> QED BY <2>1, <2>2, <2>3 DEF LossSoFar
<1> QED BY <1>1, <1>3 DEF LossInv, LossOfWholeShard

\* A forward on one rank.
LEMMA LossForwarded ==
  ASSUME RowsInv, CallInv, LossInv, pc = "run_update", UNCHANGED <<config, lens, shard>>,
         NEW r \in 1..config.world, prog[r] # <<>>,
         NEW x \in Range(Routes), NEW m \in Seq(Nat), Head(prog[r]) = ForwardOp(x, m),
         loss'[r] = loss[r] \o Contribution(r), ran'[r] = [ran[r] EXCEPT ![x] = Append(@, m)]
  PROVE  LossSoFar(r)'
<1> DEFINE p == prog[r]
           s == shard[r][x]
           done == ran[r][x]
           n == Len(s)
           c == Contribution(r)
           dynamic == config.dynamic
<1>0. pc \in Calls /\ ShardsNow /\ config \in Configs /\ BatchOk(batch, config)
  BY DEF Calls, CallInv, RowsInv
<1>2. RankProgress(r) /\ p \in Seq(AllOps)
  BY <1>0, NextOp
<1>3. LossSoFar(r)
  BY DEF LossInv
<1>5. DOMAIN ran[r] = Range(Routes) /\ Progress(p, done, n, x, dynamic)
  BY <1>2 DEF RankProgress
<1>6. n \in Nat /\ Head(p) = ForwardOp(x, m) /\ p # <<>>
  BY <1>0, ShardFacts
<1>7. ran'[r][x] = Append(done, m) /\ \A y \in Range(Routes) : y # x => ran'[r][y] = ran[r][y]
  BY <1>5
<1> HIDE DEF done, n, p, c, dynamic
<1>8. /\ FlattenSeq(Append(done, m)) = FlattenSeq(done) \o m /\ FlattenSeq(done) \in Seq(Nat)
      /\ Lists(m, Range(m)) /\ Range(m) \in SUBSET (1..n) /\ Range(FlattenSeq(done)) \in SUBSET (1..n)
      /\ Range(FlattenSeq(done)) \cap Range(m) = {}
      /\ Range(FlattenSeq(Append(done, m))) = Range(FlattenSeq(done)) \cup Range(m)
  <2>1. Progress(p, done, n, x, dynamic) /\ n \in Nat /\ p \in Seq(AllOps) /\ p # <<>> /\ Head(p) = ForwardOp(x, m)
    BY <1>2, <1>5, <1>6
  <2>2. m \in Seq(Nat) /\ x \in Range(Routes)
    OBVIOUS
  <2>3. ForwardsNext(done, m, n)
    BY <2>1, <2>2, NextRows
  <2> QED BY <2>3 DEF ForwardsNext
<1>9. /\ c \in Seq(Entry) /\ Lists(RowOf(c), ElementsAt(shard[r][x], Range(m)))
      /\ \A e \in DOMAIN c : WeighsRight(r, c[e])
  BY <1>6, <1>8, ContributionIs DEF p, n, c
<1> DEFINE O == OrderSet(batch, config, r, x)
           A == ElementsAt(s, Range(FlattenSeq(done)))
           B == ElementsAt(s, Range(m))
           y == IF x = "clean" THEN "masked" ELSE "clean"
           C == RowsDone(r, y)
<1>10. Into(s, 1..n, O) /\ OneToOne(s, 1..n)
  BY <1>0, ShardLists DEF n
<1>11. y \in Range(Routes) /\ y # x /\ {x, y} = {"clean", "masked"}
  BY TwoRoutes
<1>12. A \cap B = {} /\ B \in SUBSET O
  BY <1>8, <1>10 DEF ElementsAt, Into, OneToOne
<1>13. C \in SUBSET OrderSet(batch, config, r, y)
  <2> DEFINE t == shard[r][y]
             d == ran[r][y]
             O2 == OrderSet(batch, config, r, y)
  <2>1. /\ Into(t, 1..Len(t), O2) /\ Len(t) \in Nat
        /\ Progress(prog[r], d, Len(t), y, config.dynamic)
    BY <1>0, <1>2, <1>11, ShardLists DEF RankProgress
  <2> HIDE DEF t, d, O2
  <2>2. Range(FlattenSeq(d)) \in SUBSET (1..Len(t))
    <3> DEFINE k == Len(t)
               w == Work(p, y, Upto(k))
    <3>1. Upto(k) \in Seq(1..k) /\ Lists(Upto(k), 1..k) /\ 1..k \in SUBSET Nat
      BY <2>1, UptoIs
    <3>2. Whole(Upto(k), k, config.dynamic) /\ Upto(k) \in Seq(Nat)
      BY <3>1, SeqWider DEF Whole
    <3>3. Lists(FlattenSeq(d) \o w, 1..k) /\ d \in Seq(Seq(Nat))
      BY <2>1, <3>2 DEF Progress, Whole, p
    <3>4. w \in Seq(Nat) /\ FlattenSeq(d) \in Seq(Nat)
      <4>1. w \in Seq(Nat)
        BY <1>2, <3>2, WorkFacts
      <4> QED BY <3>3, <4>1, FlattenType
    <3> HIDE DEF w, k
    <3>5. Range(FlattenSeq(d)) \cup Range(w) = 1..k
      BY <3>3, <3>4, PartsOfList
    <3> QED BY <3>5 DEF k
  <2>3. \A i \in Range(FlattenSeq(d)) : t[i] \in O2
    BY <2>1, <2>2 DEF Into
  <2> QED BY <2>3 DEF RowsDone, ElementsAt, t, d, O2
<1>14. B \cap C = {} /\ O \cap OrderSet(batch, config, r, y) = {}
  <2>1. O \cap OrderSet(batch, config, r, y) = {}
    BY <1>0, <1>11, OrderSetsApart
  <2> QED BY <1>12, <1>13, <2>1
<1>15. RowsDone(r, x) = A /\ RowsDone(r, "clean") \cup RowsDone(r, "masked") = A \cup C
  <2>1. RowsDone(r, x) = A
    BY DEF RowsDone, done, s
  <2> QED BY <1>11, <2>1
<1>16. RowsDone(r, x)' = A \cup B /\ RowsDone(r, y)' = C
  <2>1. shard' = shard
    OBVIOUS
  <2>2. ElementsAt(s, Range(FlattenSeq(ran'[r][x]))) = A \cup B
    <3> DEFINE I == Range(FlattenSeq(done))
               J == Range(m)
               K == Range(FlattenSeq(Append(done, m)))
    <3>1. ran'[r][x] = Append(done, m)
      BY <1>7
    <3>2. K = I \cup J
      BY <1>8
    <3>3. ElementsAt(s, I \cup J) = ElementsAt(s, I) \cup ElementsAt(s, J)
      <4> HIDE DEF I, J, s
      <4> QED BY ElementsJoin
    <3>4. ElementsAt(s, K) = ElementsAt(s, I) \cup ElementsAt(s, J)
      <4> HIDE DEF I, J, K
      <4> QED BY <3>2, <3>3
    <3> QED BY <3>1, <3>4
  <2>3. ran'[r][y] = ran[r][y]
    BY <1>7, <1>11
  <2> QED BY <2>1, <2>2, <2>3 DEF RowsDone
<1>17. RowsDone(r, "clean")' \cup RowsDone(r, "masked")' = (A \cup C) \cup B
  <2>1. (x = "clean" /\ y = "masked") \/ (x = "masked" /\ y = "clean")
    <3>1. x \in {"clean", "masked"}
      BY TwoRoutes
    <3>2. CASE x = "clean"
      BY <3>2
    <3>3. CASE x = "masked"
      BY <3>3
    <3> QED BY <3>1, <3>2, <3>3
  <2>2. CASE x = "clean" /\ y = "masked"
    BY <1>16, <2>2
  <2>3. CASE x = "masked" /\ y = "clean"
    BY <1>16, <2>3
  <2> QED BY <2>1, <2>2, <2>3
<1> HIDE DEF A, B, C, y, O
<1>18. loss[r] \in Seq(Entry) /\ Lists(RowOf(loss[r]), A \cup C) /\ \A e \in DOMAIN loss[r] : WeighsRight(r, loss[r][e])
  BY <1>3, <1>15 DEF LossSoFar
<1>19. Lists(RowOf(loss[r]) \o RowOf(c), (A \cup C) \cup B)
  <2>1. (A \cup C) \cap B = {} /\ Lists(RowOf(c), B)
    BY <1>9, <1>12, <1>14 DEF B
  <2> QED BY <1>18, <2>1, ListsConcat
<1> DEFINE l == loss[r] \o c
<1>20. RowOf(l) = RowOf(loss[r]) \o RowOf(c)
  BY <1>9, <1>18, RowOfConcat
<1>21. l \in Seq(Entry) /\ \A e \in DOMAIN l : WeighsRight(r, l[e])
  <2> DEFINE a == loss[r]
  <2>1. a \in Seq(Entry) /\ c \in Seq(Entry)
    BY <1>9, <1>18
  <2>2. \A e \in DOMAIN a : WeighsRight(r, a[e])
    BY <1>18
  <2> HIDE DEF a
  <2>3. /\ a \o c \in Seq(Entry) /\ Len(a) \in Nat /\ Len(c) \in Nat
        /\ DOMAIN (a \o c) = 1..(Len(a) + Len(c)) /\ DOMAIN a = 1..Len(a) /\ DOMAIN c = 1..Len(c)
        /\ \A i \in 1..Len(a) : (a \o c)[i] = a[i]
        /\ \A i \in (Len(a) + 1)..(Len(a) + Len(c)) : i - Len(a) \in 1..Len(c) /\ (a \o c)[i] = c[i - Len(a)]
    BY <2>1, ConcatFacts
  <2>4. ASSUME NEW e \in DOMAIN (a \o c) PROVE WeighsRight(r, (a \o c)[e])
    <3>1. CASE e \in 1..Len(a)
      BY <2>2, <2>3, <3>1
    <3>2. CASE e \notin 1..Len(a)
      <4>1. e \in (Len(a) + 1)..(Len(a) + Len(c))
        BY <2>3, <3>2
      <4> QED BY <1>9, <2>3, <4>1
    <3> QED BY <3>1, <3>2
  <2> QED BY <2>3, <2>4 DEF a
<1>22. loss'[r] = l
  BY DEF c
<1> HIDE DEF l
<1>23. loss'[r] \in Seq(Entry) /\ Lists(RowOf(loss'[r]), RowsDone(r, "clean")' \cup RowsDone(r, "masked")')
  BY <1>17, <1>19, <1>20, <1>21, <1>22
<1>24. \A e \in DOMAIN loss'[r] : WeighsRight(r, loss'[r][e])
  BY <1>21, <1>22
<1>25. \A e : WeighsRight(r, e) => WeighsRight(r, e)'
  BY SameTokens
<1> QED BY <1>23, <1>24, <1>25 DEF LossSoFar

LEMMA LossForward ==
  ASSUME RowsInv, CallInv, LossInv, Forward
  PROVE  LossInv'
<1>1. /\ UNCHANGED <<config, pc, batch, lens, shard>> /\ Ranks = 1..config.world
      /\ \A r \in 1..config.world : prog[r] # <<>> /\ Head(prog[r]).op = "forward"
      /\ loss' = [r \in 1..config.world |-> loss[r] \o IF pc = "run_update" THEN Contribution(r) ELSE <<>>]
      /\ \A r \in 1..config.world :
           ran'[r] = [ran[r] EXCEPT ![Head(prog[r]).route] = Append(@, Head(prog[r]).rows)]
  BY DEF Forward, AllAt, Ranks
<1>2. pc \notin Idle
  BY InCall DEF Forward
<1>3. CASE pc = "run_log_prob"
  <2>1. \A r \in 1..config.world : loss[r] = <<>>
    BY <1>3 DEF LossInv
  <2>2. <<>> \o <<>> = <<>>
    OBVIOUS
  <2>3. loss' = [r \in 1..config.world |-> <<>>]
    BY <1>1, <1>3, <2>1, <2>2
  <2> QED BY <1>1, <1>3, <2>3 DEF LossInv, LossOfWholeShard
<1>4. CASE pc = "run_update"
  <2>0. pc \in Calls /\ ShardsNow /\ config \in Configs /\ BatchOk(batch, config)
    BY <1>4 DEF Calls, CallInv, RowsInv
  <2>1. ASSUME NEW r \in 1..config.world PROVE LossSoFar(r)'
    <3> DEFINE h == Head(prog[r])
    <3>1. h \in AllOps /\ prog[r] # <<>> /\ h.op = "forward"
      BY <1>1, <2>0, NextOp
    <3>2. PICK x \in Range(Routes), m \in Seq(Nat) : h = ForwardOp(x, m)
      BY <3>1, OpIs
    <3>3. h.route = x /\ h.rows = m
      BY <3>2 DEF ForwardOp
    <3>4. loss'[r] = loss[r] \o Contribution(r) /\ ran'[r] = [ran[r] EXCEPT ![x] = Append(@, m)]
      BY <1>1, <1>4, <3>3
    <3> QED BY <1>1, <1>4, <3>1, <3>2, <3>4, LossForwarded
  <2> QED BY <1>1, <1>4, <2>1 DEF LossInv, LossOfWholeShard
<1>5. CASE pc \notin Calls
  BY <1>1, <1>2, <1>5 DEF LossInv, LossOfWholeShard, Idle, Calls
<1> QED BY <1>3, <1>4, <1>5 DEF Calls

\* With nothing left to forward, the whole shard is in the loss.
LEMMA LossDispatch ==
  ASSUME RowsInv, CallInv, LossInv, DispatchRefresh
  PROVE  LossInv'
<1>1. /\ pc = "run_update" /\ pc' = "run_refresh" /\ UNCHANGED <<config, batch, lens, shard, loss>>
      /\ \A r \in 1..config.world : prog[r] = <<>>
  BY DEF DispatchRefresh, AllReturned, Ranks
<1>2. ShardsNow /\ \A r \in 1..config.world : RankProgress(r) /\ LossSoFar(r)
  BY <1>1 DEF CallInv, Calls, LossInv
<1>3. ASSUME NEW r \in 1..config.world, NEW x \in Range(Routes), NEW i \in DOMAIN shard[r][x]
      PROVE  \E given \in DOMAIN loss[r] :
               /\ {e \in DOMAIN loss[r] : loss[r][e].row = shard[r][x][i]} = {given}
               /\ Trainable(shard[r][x])[i] > 0 => SameFraction(loss[r][given].weight, DueWeight(r, x, i))
  <2> DEFINE s == shard[r][x]
             n == Len(s)
             d == ran[r][x]
             l == loss[r]
             v == RowOf(l)
             A == RowsDone(r, "clean") \cup RowsDone(r, "masked")
  <2>1. Progress(<<>>, d, n, x, config.dynamic) /\ n \in Nat /\ DOMAIN s = 1..n
    <3>1. Progress(prog[r], d, n, x, config.dynamic) /\ prog[r] = <<>>
      BY <1>1, <1>2 DEF RankProgress
    <3> QED BY <1>2, <3>1, ShardLists
  <2>2. Lists(v, A) /\ \A e \in DOMAIN l : WeighsRight(r, l[e])
    BY <1>2 DEF LossSoFar
  <2>3. i \in 1..n
    BY <1>3, <2>1
  <2> HIDE DEF n, d, A
  <2>4. Range(FlattenSeq(d)) = 1..n
    <3>1. Lists(FlattenSeq(d), 1..n)
      BY <2>1, NoneLeft DEF Whole
    <3> QED BY <3>1, ListsRange
  <2>5. s[i] \in A
    <3>1. s[i] \in RowsDone(r, x)
      BY <2>3, <2>4 DEF RowsDone, ElementsAt, d
    <3> QED BY <3>1, TwoRoutes DEF A
  <2>6. DOMAIN v = DOMAIN l /\ \A e \in DOMAIN l : v[e] = l[e].row
    BY DEF RowOf
  <2> HIDE DEF v
  <2>7. PICK given \in DOMAIN l : v[given] = s[i]
    BY <2>2, <2>5, <2>6 DEF Lists
  <2>8. \A e \in DOMAIN l : l[e].row = s[i] <=> e = given
    BY <2>2, <2>6, <2>7 DEF Lists
  <2>9. {e \in DOMAIN l : l[e].row = s[i]} = {given}
    BY <2>7, <2>8
  <2>10. l[given].row = s[i]
    BY <2>6, <2>7
  <2>11. Trainable(s)[i] > 0 => SameFraction(l[given].weight, DueWeight(r, x, i))
    BY <1>3, <2>2, <2>7, <2>10 DEF WeighsRight
  <2> QED BY <2>7, <2>9, <2>11
<1>4. LossOfWholeShard'
  <2>1. ASSUME NEW r \in 1..config.world, NEW k \in DOMAIN Routes
        PROVE  WholeLoss(loss[r], shard[r][Routes[k]], Trainable(shard[r][Routes[k]]), config.agg)
    <3>1. Routes[k] \in Range(Routes)
      BY DEF Range
    <3> QED BY <1>3, <3>1 DEF DueWeight, WholeLoss
  <2>2. LossIsWhole
    BY <2>1 DEF LossIsWhole
  <2>3. \A r, k : Trainable(shard[r][Routes[k]])' = Trainable(shard[r][Routes[k]])
    BY <1>1 DEF Trainable
  <2>4. ASSUME NEW r \in 1..config.world, NEW k \in DOMAIN Routes
        PROVE  WholeLoss(loss'[r], shard'[r][Routes[k]], Trainable(shard[r][Routes[k]])', config'.agg)
    BY <1>1, <2>1, <2>3
  <2>5. LossIsWhole'
    BY <1>1, <2>4 DEF LossIsWhole
  <2> QED BY <2>5, WholeNext
<1> QED BY <1>1, <1>4 DEF LossInv

LEMMA LossInvInit == Init => LossInv
BY DEF Init, LossInv, LossOfWholeShard, Ranks

LEMMA LossInvNext == RowsInv /\ CallInv /\ LossInv /\ [Next]_vars => LossInv'
<1> SUFFICES ASSUME RowsInv, CallInv, LossInv, [Next]_vars PROVE LossInv'
  OBVIOUS
<1> DEFINE Before == {"generate", "balance", "log_prob", "run_log_prob", "update"}
           After == {"run_refresh", "done"}
<1>1. CASE pc' = "failed"
  BY <1>1 DEF LossInv, LossOfWholeShard
<1>2. ASSUME pc \in Before, pc' \in Before, UNCHANGED <<config, loss>>
      PROVE  LossInv'
  BY <1>2 DEF LossInv, LossOfWholeShard
<1>r. ASSUME pc \in After, pc' \in After, UNCHANGED <<config, lens, shard, loss>>
      PROVE  LossInv'
  BY <1>r, WholeStays DEF LossInv
<1>3. CASE GenerateDual
  BY <1>1, <1>2, <1>3 DEF GenerateDual, Fail
<1>4. CASE BalanceDualRouteBatch
  BY <1>1, <1>2, <1>4 DEF BalanceDualRouteBatch, Fail
<1>5. CASE DispatchLogProb
  BY <1>2, <1>5 DEF DispatchLogProb, Dispatch
<1>6. CASE CollectLogProb
  BY <1>2, <1>6 DEF CollectLogProb
<1>7. CASE AgreeOnCount
  <2>1. pc \notin Idle
    BY <1>7, InCall DEF AgreeOnCount
  <2>2. pc' = "failed" \/ UNCHANGED <<config, pc, lens, shard, ran, loss>>
    BY <1>7 DEF AgreeOnCount, Fail
  <2> QED BY <1>1, <2>1, <2>2, LossStays DEF Idle
<1>8. CASE OptimizerStep
  <2>1. pc \notin Idle
    BY <1>8, InCall DEF OptimizerStep
  <2>2. UNCHANGED <<config, pc, lens, shard, ran, loss>>
    BY <1>8 DEF OptimizerStep
  <2> QED BY <2>1, <2>2, LossStays DEF Idle
<1>9. CASE EndRefresh
  BY <1>r, <1>9 DEF EndRefresh
<1>10. CASE Reduce
  <2>1. pc' = "failed" \/ UNCHANGED <<config, pc, lens, shard, ran, loss>>
    BY <1>10 DEF Reduce, Fail
  <2> QED BY <1>1, <1>r, <2>1, LossStays
<1>11. CASE UNCHANGED vars
  <2>1. UNCHANGED <<config, pc, lens, shard, ran, loss>>
    BY <1>11 DEF vars
  <2> QED BY <1>r, <2>1, LossStays
<1> QED
  BY <1>3, <1>4, <1>5, <1>6, <1>7, <1>8, <1>9, <1>10, <1>11, LossUpdate, LossForward, LossDispatch
  DEF Next, Step, Stop

\* For every loss_agg_mode, all lengths and any number of ranks and micro-batches: the loss a
\* rank accumulates has each row of its shard once, at its weight in the undivided shard.
THEOREM LossOfWholeShardHolds == Spec => []LossOfWholeShard
<1>1. Init => LossInv
  BY LossInvInit
<1>2. RowsInv /\ CallInv /\ LossInv /\ [Next]_vars => LossInv'
  BY LossInvNext
<1>3. LossInv => LossOfWholeShard
  BY DEF LossInv
<1> QED BY <1>1, <1>2, <1>3, RowsInvHolds, CallInvHolds, PTL DEF Spec

-----------------------------------------------------------------------------
(* Programs of one shape wait for one another.                                *)

SameKind(a, b) == a.op = b.op /\ (a.op # "step" => a.route = b.route)

SameShape(p, q) == Len(p) = Len(q) /\ \A i \in 1..Len(p) : SameKind(p[i], q[i])

\* What ranks with programs of one shape do next.
LEMMA ShapeNext ==
  ASSUME NEW Q, NEW p \in Seq(Q), NEW q \in Seq(Q), SameShape(p, q)
  PROVE  /\ p = <<>> <=> q = <<>>
         /\ p # <<>> => SameKind(Head(p), Head(q)) /\ SameShape(Tail(p), Tail(q))
<1>1. Len(p) = Len(q) /\ Len(p) \in Nat /\ \A i \in 1..Len(p) : SameKind(p[i], q[i])
  BY SeqElements DEF SameShape
<1>2. p = <<>> <=> q = <<>>
  BY <1>1
<1>3. ASSUME p # <<>> PROVE SameKind(Head(p), Head(q)) /\ SameShape(Tail(p), Tail(q))
  <2>1. 1 \in 1..Len(p) /\ Head(p) = p[1] /\ Head(q) = q[1]
    BY <1>1, <1>2, <1>3
  <2>2. /\ Len(Tail(p)) = Len(p) - 1 /\ Len(Tail(q)) = Len(p) - 1
        /\ \A i \in 1..(Len(p) - 1) : Tail(p)[i] = p[i + 1] /\ Tail(q)[i] = q[i + 1] /\ i + 1 \in 1..Len(p)
    BY <1>1, <1>2, <1>3
  <2>3. \A i \in 1..(Len(p) - 1) : SameKind(Tail(p)[i], Tail(q)[i])
    BY <1>1, <2>2
  <2> QED BY <1>1, <2>1, <2>2, <2>3 DEF SameShape
<1> QED BY <1>2, <1>3

LEMMA ShapeConcat ==
  ASSUME NEW Q, NEW a \in Seq(Q), NEW b \in Seq(Q), NEW c \in Seq(Q), NEW d \in Seq(Q),
         SameShape(a, c), SameShape(b, d)
  PROVE  SameShape(a \o b, c \o d)
<1>1. Len(a) = Len(c) /\ Len(b) = Len(d) /\ Len(a) \in Nat /\ Len(b) \in Nat
  BY SeqElements DEF SameShape
<1>2. /\ \A i \in 1..Len(a) : SameKind(a[i], c[i])
      /\ \A i \in 1..Len(b) : SameKind(b[i], d[i])
  BY DEF SameShape
<1>3. /\ Len(a \o b) = Len(a) + Len(b) /\ Len(c \o d) = Len(a) + Len(b)
      /\ \A i \in 1..Len(a) : (a \o b)[i] = a[i] /\ (c \o d)[i] = c[i]
      /\ \A i \in (Len(a) + 1)..(Len(a) + Len(b)) :
           /\ i - Len(a) \in 1..Len(b) /\ (a \o b)[i] = b[i - Len(a)] /\ (c \o d)[i] = d[i - Len(a)]
  <2>1. /\ Len(a \o b) = Len(a) + Len(b) /\ \A i \in 1..Len(a) : (a \o b)[i] = a[i]
        /\ \A i \in (Len(a) + 1)..(Len(a) + Len(b)) : i - Len(a) \in 1..Len(b) /\ (a \o b)[i] = b[i - Len(a)]
    BY ConcatFacts
  <2>2. /\ Len(c \o d) = Len(c) + Len(d) /\ \A i \in 1..Len(c) : (c \o d)[i] = c[i]
        /\ \A i \in (Len(c) + 1)..(Len(c) + Len(d)) : i - Len(c) \in 1..Len(d) /\ (c \o d)[i] = d[i - Len(c)]
    BY ConcatFacts
  <2> QED BY <1>1, <2>1, <2>2
<1>4. ASSUME NEW i \in 1..(Len(a) + Len(b)) PROVE SameKind((a \o b)[i], (c \o d)[i])
  <2>1. CASE i \in 1..Len(a)
    BY <1>2, <1>3, <2>1
  <2>2. CASE i \in (Len(a) + 1)..(Len(a) + Len(b))
    BY <1>2, <1>3, <2>2
  <2> QED BY <1>1, <2>1, <2>2
<1> QED BY <1>3, <1>4 DEF SameShape

LEMMA ShapeFlatten ==
  ASSUME NEW Q, NEW f \in Seq(Seq(Q)), NEW g \in Seq(Seq(Q)), Len(f) = Len(g),
         \A i \in DOMAIN f : SameShape(f[i], g[i])
  PROVE  SameShape(FlattenSeq(f), FlattenSeq(g))
<1> DEFINE Flat(k) == FlattenSeq(SubSeq(f, 1, k))
           Glat(k) == FlattenSeq(SubSeq(g, 1, k))
           Good    == {k \in Nat : k <= Len(f) => SameShape(Flat(k), Glat(k))}
<1>1. Len(f) \in Nat /\ DOMAIN f = 1..Len(f)
  BY SeqElements
<1>2. 0 \in Good
  <2>1. SubSeq(f, 1, 0) = <<>> /\ SubSeq(g, 1, 0) = <<>>
    OBVIOUS
  <2>2. Flat(0) = <<>> /\ Glat(0) = <<>>
    BY <2>1, FlattenNone
  <2>3. SameShape(<<>>, <<>>)
    BY DEF SameShape
  <2> QED BY <2>2, <2>3
<1>3. ASSUME NEW k \in Nat, k \in Good
      PROVE  k + 1 \in Good
  <2> SUFFICES ASSUME k + 1 <= Len(f) PROVE SameShape(Flat(k + 1), Glat(k + 1))
    OBVIOUS
  <2>1. SameShape(Flat(k), Glat(k)) /\ k < Len(f) /\ k < Len(g) /\ k + 1 \in DOMAIN f
    BY <1>1, <1>3
  <2>2. /\ SubSeq(f, 1, k) \in Seq(Seq(Q)) /\ f[k + 1] \in Seq(Q) /\ Flat(k + 1) = Flat(k) \o f[k + 1]
        /\ SubSeq(g, 1, k) \in Seq(Seq(Q)) /\ g[k + 1] \in Seq(Q) /\ Glat(k + 1) = Glat(k) \o g[k + 1]
    BY <2>1, FlattenPrefix
  <2>3. Flat(k) \in Seq(Q) /\ Glat(k) \in Seq(Q)
    BY <2>2, FlattenType
  <2>4. SameShape(f[k + 1], g[k + 1])
    BY <2>1
  <2> HIDE DEF Flat, Glat
  <2>5. SameShape(Flat(k) \o f[k + 1], Glat(k) \o g[k + 1])
    BY <2>1, <2>2, <2>3, <2>4, ShapeConcat
  <2> QED BY <2>2, <2>5
<1>4. Len(f) \in Good
  <2> HIDE DEF Good
  <2> QED BY <1>1, <1>2, <1>3, SetInduction
<1>5. SameShape(Flat(Len(f)), Glat(Len(f)))
  BY <1>1, <1>4
<1>6. SubSeq(f, 1, Len(f)) = f /\ SubSeq(g, 1, Len(f)) = g
  <2> DEFINE P == Seq(Q)
  <2>1. f \in Seq(P) /\ g \in Seq(P)
    OBVIOUS
  <2> HIDE DEF P
  <2>2. SubSeq(f, 1, Len(f)) = f /\ SubSeq(g, 1, Len(g)) = g
    BY <2>1, WholeSeq
  <2> QED BY <2>2
<1> QED BY <1>5, <1>6

\* A route's forwards, of as many micro-batches.
LEMMA ShapeForwards ==
  ASSUME NEW x, NEW Bs \in Seq(Seq(Nat)), NEW Cs \in Seq(Seq(Nat)), Len(Bs) = Len(Cs)
  PROVE  SameShape(Forwards(x, Bs), Forwards(x, Cs))
<1> DEFINE l == Len(Bs)
<1>1. l \in Nat /\ DOMAIN Bs = 1..l /\ DOMAIN Cs = 1..l
  BY SeqElements
<1> HIDE DEF l
<1>2. /\ Forwards(x, Bs) = [m \in 1..l |-> [op |-> "forward", route |-> x, rows |-> Bs[m]]]
      /\ Forwards(x, Cs) = [m \in 1..l |-> [op |-> "forward", route |-> x, rows |-> Cs[m]]]
  BY <1>1 DEF Forwards
<1>3. Len(Forwards(x, Bs)) = l /\ Len(Forwards(x, Cs)) = l
  BY <1>1, <1>2
<1>4. \A m \in 1..l : SameKind(Forwards(x, Bs)[m], Forwards(x, Cs)[m])
  BY <1>2 DEF SameKind
<1> QED BY <1>3, <1>4 DEF SameShape

LEMMA ShapeExpand ==
  ASSUME NEW p \in Seq(AllOps), NEW q \in Seq(AllOps), SameShape(p, q), NEW x \in Range(Routes),
         NEW Bs \in Seq(Seq(Nat)), NEW Cs \in Seq(Seq(Nat)), Len(Bs) = Len(Cs)
  PROVE  SameShape(Expand(p, x, Bs), Expand(q, x, Cs))
<1> DEFINE n == Len(p)
           f == [i \in DOMAIN p |-> IF p[i] = RunOp(x) THEN Forwards(x, Bs) ELSE <<p[i]>>]
           g == [i \in DOMAIN q |-> IF q[i] = RunOp(x) THEN Forwards(x, Cs) ELSE <<q[i]>>]
           S == Seq(AllOps)
<1>1. /\ n \in Nat /\ DOMAIN p = 1..n /\ DOMAIN q = 1..n
      /\ \A i \in 1..n : p[i] \in AllOps /\ q[i] \in AllOps /\ SameKind(p[i], q[i])
  BY SeqElements DEF SameShape
<1>2. Forwards(x, Bs) \in S /\ Forwards(x, Cs) \in S
  <2>1. <<>> \in Seq(Nat)
    OBVIOUS
  <2> QED BY <2>1, WorkForwards
<1>3. SameShape(Forwards(x, Bs), Forwards(x, Cs))
  BY ShapeForwards
<1>4. Expand(p, x, Bs) = FlattenSeq(f) /\ Expand(q, x, Cs) = FlattenSeq(g)
  BY DEF Expand
<1> HIDE DEF n
<1>5. DOMAIN f = 1..n /\ DOMAIN g = 1..n
  BY <1>1
<1>6. ASSUME NEW i \in 1..n PROVE f[i] \in S /\ g[i] \in S /\ SameShape(f[i], g[i])
  <2>1. p[i] \in AllOps /\ q[i] \in AllOps /\ SameKind(p[i], q[i])
    BY <1>1
  <2>2. p[i] = RunOp(x) <=> q[i] = RunOp(x)
    <3>1. \A o \in AllOps : (o.op = "run" /\ o.route = x) <=> o = RunOp(x)
      <4>1. ASSUME NEW o \in AllOps PROVE (o.op = "run" /\ o.route = x) <=> o = RunOp(x)
        BY DEF AllOps, CountOp, RunOp, StepOp, ForwardOp
      <4> QED BY <4>1
    <3> QED BY <2>1, <3>1 DEF SameKind
  <2>3. f[i] = (IF p[i] = RunOp(x) THEN Forwards(x, Bs) ELSE <<p[i]>>) /\ g[i] = IF q[i] = RunOp(x) THEN Forwards(x, Cs) ELSE <<q[i]>>
    BY <1>1
  <2>4. CASE p[i] = RunOp(x)
    BY <1>2, <1>3, <2>2, <2>3, <2>4
  <2>5. CASE p[i] # RunOp(x)
    <3> DEFINE a == p[i]
               b == q[i]
    <3>1. f[i] = <<a>> /\ g[i] = <<b>> /\ a \in AllOps /\ b \in AllOps /\ SameKind(a, b)
      BY <2>1, <2>2, <2>3, <2>5
    <3> HIDE DEF a, b, f, g
    <3>2. SameShape(<<a>>, <<b>>) /\ <<a>> \in S /\ <<b>> \in S
      BY <3>1 DEF SameShape
    <3> QED BY <3>1, <3>2
  <2> QED BY <2>4, <2>5
<1>7. f = [i \in 1..n |-> f[i]] /\ g = [i \in 1..n |-> g[i]]
  BY <1>1
<1> HIDE DEF f, g, S
<1>8. f \in Seq(S) /\ g \in Seq(S) /\ Len(f) = n /\ Len(g) = n
  <2>1. f \in [1..n -> S] /\ g \in [1..n -> S]
    BY <1>6, <1>7
  <2> QED BY <1>1, <2>1
<1>9. SameShape(FlattenSeq(f), FlattenSeq(g))
  BY <1>5, <1>6, <1>8, ShapeFlatten DEF S
<1> QED BY <1>4, <1>9

\* A packing runs after its micro-batches were agreed on: no program is at a "run".
Counted(p) ==
  \A i \in DOMAIN p : p[i].op = "run" => \E j \in 1..(i - 1) : p[j] = CountOp(p[i].route)

LEMMA CountedNext ==
  ASSUME NEW Q, NEW p \in Seq(Q), p # <<>>, Counted(p)
  PROVE  Head(p).op # "run" /\ (Head(p).op # "count" => Counted(Tail(p)))
<1>1. Len(p) \in Nat /\ DOMAIN p = 1..Len(p) /\ 1 \in DOMAIN p /\ Head(p) = p[1]
  OBVIOUS
<1>2. Head(p).op # "run"
  BY <1>1 DEF Counted
<1>3. ASSUME Head(p).op # "count" PROVE Counted(Tail(p))
  <2> DEFINE t == Tail(p)
  <2>1. DOMAIN t = 1..(Len(p) - 1) /\ \A i \in 1..(Len(p) - 1) : t[i] = p[i + 1] /\ i + 1 \in DOMAIN p
    BY <1>1
  <2> HIDE DEF t
  <2>2. ASSUME NEW i \in DOMAIN t, t[i].op = "run"
        PROVE  \E j \in 1..(i - 1) : t[j] = CountOp(t[i].route)
    <3>1. PICK j \in 1..(i + 1 - 1) : p[j] = CountOp(t[i].route)
      BY <2>1, <2>2 DEF Counted
    <3>2. j # 1
      BY <1>1, <1>3, <3>1 DEF CountOp
    <3>3. j - 1 \in 1..(i - 1) /\ t[j - 1] = p[j - 1 + 1] /\ j - 1 + 1 = j
      BY <2>1, <2>2, <3>1, <3>2
    <3> QED BY <3>1, <3>3
  <2> QED BY <2>2 DEF Counted, t
<1> QED BY <1>2, <1>3

LEMMA CountedConcat ==
  ASSUME NEW Q, NEW a \in Seq(Q), NEW b \in Seq(Q), Counted(a),
         \A i \in DOMAIN b : b[i].op = "run" => CountOp(b[i].route) \in Range(a)
  PROVE  Counted(a \o b) /\ Range(a) \cup Range(b) \in SUBSET Range(a \o b)
<1> DEFINE c == a \o b
           la == Len(a)
           lb == Len(b)
<1>1. /\ la \in Nat /\ lb \in Nat /\ DOMAIN a = 1..la /\ DOMAIN b = 1..lb /\ DOMAIN c = 1..(la + lb)
      /\ \A i \in 1..la : c[i] = a[i]
      /\ \A i \in 1..lb : c[la + i] = b[i]
      /\ \A i \in (la + 1)..(la + lb) : i - la \in 1..lb /\ c[i] = b[i - la]
  <2>1. /\ Len(a) \in Nat /\ Len(b) \in Nat /\ DOMAIN (a \o b) = 1..(Len(a) + Len(b))
        /\ DOMAIN a = 1..Len(a) /\ DOMAIN b = 1..Len(b)
        /\ \A i \in 1..Len(a) : (a \o b)[i] = a[i]
        /\ \A i \in 1..Len(b) : (a \o b)[Len(a) + i] = b[i]
        /\ \A i \in (Len(a) + 1)..(Len(a) + Len(b)) :
             i - Len(a) \in 1..Len(b) /\ (a \o b)[i] = b[i - Len(a)]
    BY ConcatFacts
  <2> QED BY <2>1
<1> HIDE DEF c, la, lb
<1>2. ASSUME NEW i \in DOMAIN c, c[i].op = "run"
      PROVE  \E j \in 1..(i - 1) : c[j] = CountOp(c[i].route)
  <2>1. CASE i \in 1..la
    <3>1. PICK j \in 1..(i - 1) : a[j] = CountOp(a[i].route)
      BY <1>1, <1>2, <2>1 DEF Counted
    <3> QED BY <1>1, <2>1, <3>1
  <2>2. CASE i \in (la + 1)..(la + lb)
    <3>1. i - la \in DOMAIN b /\ c[i] = b[i - la]
      BY <1>1, <2>2
    <3>2. CountOp(c[i].route) \in Range(a)
      BY <1>2, <3>1
    <3>3. PICK j \in DOMAIN a : a[j] = CountOp(c[i].route)
      BY <3>2 DEF Range
    <3>4. j \in 1..(i - 1) /\ c[j] = a[j]
      BY <1>1, <2>2, <3>3
    <3> QED BY <3>3, <3>4
  <2>3. i \in 1..la \/ i \in (la + 1)..(la + lb)
    BY <1>1
  <2> QED BY <2>1, <2>2, <2>3
<1>3. ASSUME NEW o \in Range(a) \cup Range(b) PROVE o \in Range(c)
  <2>1. CASE o \in Range(a)
    <3>1. PICK i \in DOMAIN a : a[i] = o
      BY <2>1 DEF Range
    <3>2. i \in DOMAIN c /\ c[i] = o
      BY <1>1, <3>1
    <3> QED BY <3>2 DEF Range
  <2>2. CASE o \in Range(b)
    <3>1. PICK i \in DOMAIN b : b[i] = o
      BY <2>2 DEF Range
    <3>2. la + i \in DOMAIN c /\ c[la + i] = o
      BY <1>1, <3>1
    <3> QED BY <3>2 DEF Range
  <2> QED BY <2>1, <2>2
<1> QED BY <1>2, <1>3 DEF Counted, c

\* Packing the route that was counted leaves no run of it behind.
LEMMA CountedExpand ==
  ASSUME NEW p \in Seq(AllOps), p # <<>>, Counted(p), NEW x \in Range(Routes), Head(p) = CountOp(x),
         NEW Bs \in Seq(Seq(Nat))
  PROVE  Counted(Expand(Tail(p), x, Bs))
<1> DEFINE t == Tail(p)
           n == Len(t)
           f == [i \in DOMAIN t |-> IF t[i] = RunOp(x) THEN Forwards(x, Bs) ELSE <<t[i]>>]
           S == Seq(AllOps)
           Flat(k) == FlattenSeq(SubSeq(f, 1, k))
           Kept(k) == \A y \in Range(Routes) \ {x} :
                        (\E i \in 1..k : t[i] = CountOp(y)) => CountOp(y) \in Range(Flat(k))
           Good == {k \in Nat : k <= n => Counted(Flat(k)) /\ Kept(k)}
<1>1. /\ n \in Nat /\ DOMAIN t = 1..n /\ \A i \in 1..n : t[i] \in AllOps /\ t[i] = p[i + 1] /\ i + 1 \in DOMAIN p
      /\ p[1] = CountOp(x)
  OBVIOUS
<1>2. Forwards(x, Bs) \in S /\ \A i \in DOMAIN Forwards(x, Bs) : Forwards(x, Bs)[i].op = "forward"
  <2>1. <<>> \in Seq(Nat)
    OBVIOUS
  <2> QED BY <2>1, WorkForwards DEF Forwards
<1>3. Expand(t, x, Bs) = FlattenSeq(f)
  BY DEF Expand
<1> HIDE DEF n, t
<1>4. DOMAIN f = 1..n /\ \A i \in 1..n : f[i] = IF t[i] = RunOp(x) THEN Forwards(x, Bs) ELSE <<t[i]>>
  BY <1>1
<1>5. f \in Seq(S) /\ Len(f) = n
  <2>1. \A i \in 1..n : f[i] \in S
    BY <1>1, <1>2, <1>4
  <2>2. f = [i \in 1..n |-> f[i]]
    BY <1>4
  <2> HIDE DEF f, S
  <2>3. f \in [1..n -> S]
    BY <2>1, <2>2
  <2> QED BY <1>1, <2>3
<1> HIDE DEF f
<1>6. 0 \in Good
  <2>1. SubSeq(f, 1, 0) = <<>>
    OBVIOUS
  <2>2. Flat(0) = <<>>
    BY <2>1, FlattenNone
  <2>3. Counted(<<>>)
    BY DEF Counted
  <2> QED BY <2>2, <2>3
<1>7. ASSUME NEW k \in Nat, k \in Good
      PROVE  k + 1 \in Good
  <2> SUFFICES ASSUME k + 1 <= n PROVE Counted(Flat(k + 1)) /\ Kept(k + 1)
    OBVIOUS
  <2> DEFINE a == Flat(k)
             b == f[k + 1]
  <2>1. Counted(a) /\ Kept(k) /\ k < Len(f) /\ k + 1 \in 1..n
    BY <1>1, <1>5, <1>7
  <2>2. Flat(k + 1) = a \o b /\ a \in Seq(AllOps) /\ b \in Seq(AllOps)
    <3>1. SubSeq(f, 1, k) \in Seq(Seq(AllOps)) /\ b \in Seq(AllOps) /\ Flat(k + 1) = a \o b
      BY <1>5, <2>1, FlattenPrefix
    <3> QED BY <3>1, FlattenType
  <2>3. b = IF t[k + 1] = RunOp(x) THEN Forwards(x, Bs) ELSE <<t[k + 1]>>
    BY <1>4, <2>1
  <2>4. ASSUME NEW i \in DOMAIN b, b[i].op = "run" PROVE CountOp(b[i].route) \in Range(a)
    <3> DEFINE o == t[k + 1]
               y == o.route
    <3>1. o # RunOp(x) /\ b[i] = o
      BY <1>2, <2>3, <2>4
    <3>2. o \in AllOps /\ o = p[k + 2] /\ k + 2 \in DOMAIN p
      BY <1>1, <2>1
    <3>3. o.op = "run"
      BY <2>4, <3>1
    <3>4. o = RunOp(y) /\ y \in Range(Routes)
      BY <3>2, <3>3 DEF AllOps, CountOp, RunOp, StepOp, ForwardOp
    <3>5. y # x
      BY <3>1, <3>4
    <3>6. PICK j \in 1..(k + 2 - 1) : p[j] = CountOp(y)
      BY <3>2, <3>3 DEF Counted
    <3>7. j # 1
      BY <1>1, <3>5, <3>6 DEF CountOp
    <3>8. j - 1 \in 1..k /\ j - 1 \in 1..n /\ j - 1 + 1 = j
      BY <1>1, <2>1, <3>6, <3>7
    <3>9. t[j - 1] = CountOp(y)
      BY <1>1, <3>6, <3>8
    <3>10. CountOp(y) \in Range(a)
      BY <2>1, <3>4, <3>5, <3>8, <3>9
    <3> QED BY <3>1, <3>10
  <2> DEFINE c == Flat(k + 1)
  <2>5. Counted(c) /\ Range(a) \cup Range(b) \in SUBSET Range(c)
    <3> HIDE DEF a, b, c
    <3>1. Counted(a \o b) /\ Range(a) \cup Range(b) \in SUBSET Range(a \o b)
      BY <2>1, <2>2, <2>4, CountedConcat
    <3> QED BY <2>2, <3>1 DEF c
  <2>6. Kept(k + 1)
    <3>1. ASSUME NEW y \in Range(Routes) \ {x}, NEW i \in 1..(k + 1), t[i] = CountOp(y)
          PROVE  CountOp(y) \in Range(c)
      <4>1. CASE i \in 1..k
        <5>1. CountOp(y) \in Range(a)
          BY <2>1, <3>1, <4>1
        <5> QED BY <2>5, <5>1
      <4>2. CASE i = k + 1
        <5>1. CountOp(y) # RunOp(x)
          BY DEF CountOp, RunOp
        <5>2. b = <<CountOp(y)>>
          BY <2>3, <3>1, <4>2, <5>1
        <5>3. CountOp(y) \in Range(b)
          <6> DEFINE o == CountOp(y)
          <6> HIDE DEF o
          <6>1. o \in Range(<<o>>)
            BY DEF Range
          <6> QED BY <5>2, <6>1 DEF o
        <5> QED BY <2>5, <5>3
      <4> QED BY <4>1, <4>2
    <3> QED BY <3>1
  <2> QED BY <2>5, <2>6
<1>8. n \in Good
  <2> HIDE DEF Good
  <2> QED BY <1>1, <1>6, <1>7, SetInduction
<1>9. Counted(Flat(n))
  BY <1>1, <1>8
<1>10. SubSeq(f, 1, n) = f
  <2> HIDE DEF S
  <2> QED BY <1>5, WholeSeq
<1> QED BY <1>3, <1>9, <1>10 DEF t

\* Ranks with as many rows of each route run one program.
LEMMA SamePrograms ==
  ASSUME config \in Configs, NEW u, NEW v, LocalOk(u), LocalOk(v),
         \A x \in Range(Routes) : Len(u[x]) = Len(v[x]) /\ u[x] # <<>>
  PROVE  /\ LogProbProgram(u) = LogProbProgram(v) /\ UpdateProgram(u) = UpdateProgram(v)
         /\ config.dynamic => Counted(LogProbProgram(u)) /\ Counted(UpdateProgram(u))
<1> DEFINE routes == <<"clean", "masked">>
<1>1. "clean" \in Range(Routes) /\ "masked" \in Range(Routes)
  BY TwoRoutes
<1>2. v["clean"] # <<>> /\ v["masked"] # <<>> /\ u["clean"] # <<>> /\ u["masked"] # <<>>
  <2>1. ASSUME NEW x \in Range(Routes) PROVE v[x] # <<>>
    <3>1. u[x] \in Seq(Nat) /\ u[x] # <<>> /\ Len(u[x]) = Len(v[x])
      BY DEF LocalOk
    <3>2. Len(u[x]) # 0
      BY <3>1
    <3> QED BY <3>1, <3>2
  <2> QED BY <1>1, <2>1
<1>3. Present(u) = routes /\ Present(v) = routes
  <2>1. /\ Present(u) = OfClean(u, <<"clean">>) \o OfMasked(u, <<"masked">>)
        /\ Present(v) = OfClean(v, <<"clean">>) \o OfMasked(v, <<"masked">>)
    BY PresentIs
  <2>2. <<"clean">> \o <<"masked">> = routes
    BY <1>1, TwoJoined
  <2> QED BY <1>2, <2>1, <2>2 DEF OfClean, OfMasked
<1>4. \A x \in Range(Routes) : FixedForwards(u, x) = FixedForwards(v, x)
  BY DEF FixedForwards
<1>5. [k \in DOMAIN routes |-> FixedForwards(u, routes[k])] = [k \in DOMAIN routes |-> FixedForwards(v, routes[k])]
  BY <1>1, <1>4
<1>6. LogProbProgram(u) = LogProbProgram(v) /\ UpdateProgram(u) = UpdateProgram(v)
  BY <1>3, <1>5 DEF LogProbProgram, UpdateProgram
<1>7. ASSUME config.dynamic PROVE Counted(LogProbProgram(u)) /\ Counted(UpdateProgram(u))
  <2> DEFINE cc == CountOp("clean")
             cm == CountOp("masked")
             rc == RunOp("clean")
             rm == RunOp("masked")
             T  == {cc, cm, rc, rm, StepOp}
             c  == <<cc, cm>>
             r  == <<rc, rm>>
  <2>1. LogProbProgram(u) = FlattenSeq([k \in DOMAIN routes |-> <<CountOp(routes[k]), RunOp(routes[k])>>])
    BY <1>3, <1>7 DEF LogProbProgram
  <2>2. [k \in DOMAIN routes |-> <<CountOp(routes[k]), RunOp(routes[k])>>] = <<<<cc, rc>>, <<cm, rm>>>>
    OBVIOUS
  <2>3. UpdateProgram(u) = ([k \in DOMAIN routes |-> CountOp(routes[k])] \o [k \in DOMAIN routes |-> RunOp(routes[k])])
                           \o <<StepOp>>
    BY <1>3, <1>7 DEF UpdateProgram
  <2>4. [k \in DOMAIN routes |-> CountOp(routes[k])] = c /\ [k \in DOMAIN routes |-> RunOp(routes[k])] = r
    OBVIOUS
  <2>5. /\ cc.op = "count" /\ cm.op = "count" /\ rc.op = "run" /\ rm.op = "run" /\ StepOp.op = "step"
        /\ rc.route = "clean" /\ rm.route = "masked"
    BY DEF CountOp, RunOp, StepOp
  <2> HIDE DEF cc, cm, rc, rm
  <2>6. LogProbProgram(u) = <<cc, rc, cm, rm>>
    <3> DEFINE a == <<cc, rc>>
               b == <<cm, rm>>
    <3>1. a \in Seq(T) /\ b \in Seq(T)
      OBVIOUS
    <3>3. cc \in T /\ cm \in T /\ rc \in T /\ rm \in T
      OBVIOUS
    <3> HIDE DEF T
    <3>4. a \o b = <<cc, rc, cm, rm>>
      BY <3>3, FourJoined
    <3> HIDE DEF a, b
    <3>2. FlattenSeq(<<a, b>>) = a \o b
      BY <3>1, FlattenTwo
    <3> QED BY <2>1, <2>2, <3>2, <3>4 DEF a, b
  <2>7. UpdateProgram(u) = <<cc, cm, rc, rm, StepOp>>
    <3>1. cc \in T /\ cm \in T /\ rc \in T /\ rm \in T /\ StepOp \in T
      OBVIOUS
    <3> HIDE DEF T
    <3>2. <<cc, cm>> \o <<rc, rm>> = <<cc, cm, rc, rm>>
      BY <3>1, FourJoined
    <3>3. <<cc, cm, rc, rm>> \o <<StepOp>> = <<cc, cm, rc, rm, StepOp>>
      BY <3>1, FiveJoined
    <3> QED BY <2>3, <2>4, <3>2, <3>3
  <2>8. Counted(<<cc, rc, cm, rm>>)
    <3> DEFINE p == <<cc, rc, cm, rm>>
    <3>1. DOMAIN p = 1..4 /\ p[1] = cc /\ p[2] = rc /\ p[3] = cm /\ p[4] = rm
      OBVIOUS
    <3> HIDE DEF p
    <3>2. ASSUME NEW i \in DOMAIN p, p[i].op = "run" PROVE \E j \in 1..(i - 1) : p[j] = CountOp(p[i].route)
      <4>1. i = 1 \/ i = 2 \/ i = 3 \/ i = 4
        BY <3>1
      <4>2. i # 1 /\ i # 3
        BY <2>5, <3>1, <3>2
      <4>3. CASE i = 2
        <5>1. p[1] = CountOp(p[i].route) /\ 1 \in 1..(i - 1)
          BY <2>5, <3>1, <4>3 DEF cc
        <5> QED BY <5>1
      <4>4. CASE i = 4
        <5>1. p[3] = CountOp(p[i].route) /\ 3 \in 1..(i - 1)
          BY <2>5, <3>1, <4>4 DEF cm
        <5> QED BY <5>1
      <4> QED BY <4>1, <4>2, <4>3, <4>4
    <3> QED BY <3>2 DEF Counted, p
  <2>9. Counted(<<cc, cm, rc, rm, StepOp>>)
    <3> DEFINE p == <<cc, cm, rc, rm, StepOp>>
    <3>1. DOMAIN p = 1..5 /\ p[1] = cc /\ p[2] = cm /\ p[3] = rc /\ p[4] = rm /\ p[5] = StepOp
      OBVIOUS
    <3> HIDE DEF p
    <3>2. ASSUME NEW i \in DOMAIN p, p[i].op = "run" PROVE \E j \in 1..(i - 1) : p[j] = CountOp(p[i].route)
      <4>1. i = 1 \/ i = 2 \/ i = 3 \/ i = 4 \/ i = 5
        BY <3>1
      <4>2. i # 1 /\ i # 2 /\ i # 5
        BY <2>5, <3>1, <3>2
      <4>3. CASE i = 3
        <5>1. p[1] = CountOp(p[i].route) /\ 1 \in 1..(i - 1)
          BY <2>5, <3>1, <4>3 DEF cc
        <5> QED BY <5>1
      <4>4. CASE i = 4
        <5>1. p[2] = CountOp(p[i].route) /\ 2 \in 1..(i - 1)
          BY <2>5, <3>1, <4>4 DEF cm
        <5> QED BY <5>1
      <4> QED BY <4>1, <4>2, <4>3, <4>4
    <3> QED BY <3>2 DEF Counted, p
  <2> QED BY <2>6, <2>7, <2>8, <2>9
<1> QED BY <1>6, <1>7

-----------------------------------------------------------------------------
(* Ranks with as many rows of each route pass their collectives together.     *)

\* Every rank has as many rows of a route as the others, and some.
Even(b, c) ==
  \A x \in Range(Routes) : \E n \in Nat \ {0} : \A r \in 1..c.world : Len(OrdersOf(b, c, r, x)) = n

\* All programs name the same kinds of operations, in the same order.
OneShape == \A r, q \in 1..config.world : SameShape(prog[r], prog[q])

AllCounted == config.dynamic => \A r \in 1..config.world : Counted(prog[r])

\* If the routes divide evenly nothing was refused, shards are as large as each other on each
\* route from the balancer on, and in a call the ranks have the same operations before them.
WaitInv ==
  EvenQuota(config) =>
    /\ pc \in Idle \cup Calls
    /\ pc \notin {"generate", "balance"} => Even(batch, config)
    /\ pc \in Calls => OneShape /\ AllCounted

LEMMA EvenShards ==
  ASSUME RowsInv, ShardsNow, Even(batch, config), NEW r \in 1..config.world, NEW q \in 1..config.world,
         NEW x \in Range(Routes)
  PROVE  Len(shard[r][x]) = Len(shard[q][x]) /\ shard[r][x] # <<>>
<1>1. shard[r][x] = OrdersOf(batch, config, r, x) /\ shard[q][x] = OrdersOf(batch, config, q, x)
  BY DEF ShardsNow
<1>2. PICK n \in Nat \ {0} : \A p \in 1..config.world : Len(OrdersOf(batch, config, p, x)) = n
  BY DEF Even
<1>3. Len(shard[r][x]) = n /\ Len(shard[q][x]) = n
  BY <1>1, <1>2
<1>4. shard[r][x] # <<>>
  <2>1. Len(<<>>) = 0
    OBVIOUS
  <2> QED BY <1>3, <2>1
<1> QED BY <1>3, <1>4

LEMMA DispatchShape ==
  ASSUME RowsInv, Even(batch, config), DispatchLogProb \/ DispatchUpdate
  PROVE  OneShape' /\ AllCounted'
<1>1. /\ shard' = [r \in Ranks |-> [route \in Range(Routes) |-> RouteBatch(r, route)]]
      /\ config' = config
      /\ \/ \A r \in Ranks : prog'[r] = LogProbProgram(shard'[r])
         \/ \A r \in Ranks : prog'[r] = UpdateProgram(shard'[r])
  <2>1. CASE DispatchLogProb
    BY <2>1 DEF DispatchLogProb, Dispatch
  <2>2. CASE DispatchUpdate
    BY <2>2 DEF DispatchUpdate, Dispatch
  <2> QED BY <2>1, <2>2
<1>2. config \in Configs /\ BatchOk(batch, config) /\ Ranks = 1..config.world
  BY DEF RowsInv, Ranks
<1>3. shard' = [r \in 1..config.world |-> [x \in Range(Routes) |-> OrdersOf(batch, config, r, x)]]
  BY <1>1, <1>2 DEF RouteBatch, ActorShard, OrdersOf
<1>4. ASSUME NEW r \in 1..config.world PROVE LocalOk(shard'[r])
  <2>1. ASSUME NEW x \in Range(Routes) PROVE shard'[r][x] \in Seq(Nat)
    <3>1. shard'[r][x] = OrdersOf(batch, config, r, x)
      BY <1>3
    <3>2. OrdersOf(batch, config, r, x) \in Seq(1..Rows(config))
      BY <1>2, OrdersOfIs
    <3>3. 1..Rows(config) \in SUBSET Nat
      OBVIOUS
    <3> QED BY <3>1, <3>2, <3>3, SeqWider
  <2> QED BY <2>1 DEF LocalOk
<1>5. ASSUME NEW r \in 1..config.world, NEW q \in 1..config.world
      PROVE  prog'[r] = prog'[q] /\ (config.dynamic => Counted(prog'[r]))
  <2> DEFINE u == shard'[r]
             v == shard'[q]
  <2>1. ASSUME NEW x \in Range(Routes) PROVE Len(u[x]) = Len(v[x]) /\ u[x] # <<>>
    <3>1. PICK n \in Nat \ {0} : \A p \in 1..config.world : Len(OrdersOf(batch, config, p, x)) = n
      BY DEF Even
    <3>2. Len(u[x]) = n /\ Len(v[x]) = n
      BY <1>3, <3>1
    <3>3. Len(<<>>) = 0
      OBVIOUS
    <3> QED BY <3>2, <3>3
  <2>2. LocalOk(u) /\ LocalOk(v)
    BY <1>4
  <2>3. (prog'[r] = LogProbProgram(u) /\ prog'[q] = LogProbProgram(v))
        \/ (prog'[r] = UpdateProgram(u) /\ prog'[q] = UpdateProgram(v))
    BY <1>1, <1>2
  <2> HIDE DEF u, v
  <2>4. /\ LogProbProgram(u) = LogProbProgram(v) /\ UpdateProgram(u) = UpdateProgram(v)
        /\ config.dynamic => Counted(LogProbProgram(u)) /\ Counted(UpdateProgram(u))
    BY <1>2, <2>1, <2>2, SamePrograms
  <2> QED BY <2>3, <2>4
<1>6. \A p, q : p = q => SameShape(p, q)
  BY DEF SameShape, SameKind
<1>7. \A r, q \in 1..config.world : SameShape(prog'[r], prog'[q])
  BY <1>5, <1>6
<1> QED BY <1>1, <1>5, <1>7 DEF OneShape, AllCounted

\* Forwards and optimizer steps, one operation of every rank.
LEMMA TailsShape ==
  ASSUME RowsInv, CallInv, pc \in Calls, OneShape, AllCounted, Forward \/ OptimizerStep
  PROVE  OneShape' /\ AllCounted'
<1>1. /\ config' = config
      /\ \A r \in 1..config.world : /\ prog[r] # <<>> /\ prog'[r] = Tail(prog[r])
                                    /\ Head(prog[r]).op # "count"
  BY DEF Forward, OptimizerStep, AllAt, Ranks
<1>2. \A r \in 1..config.world : prog[r] \in Seq(AllOps)
  BY <1>1, NextOp
<1>3. ASSUME NEW r \in 1..config.world, NEW q \in 1..config.world
      PROVE  SameShape(Tail(prog[r]), Tail(prog[q]))
  BY <1>1, <1>2, ShapeNext DEF OneShape
<1>4. ASSUME NEW r \in 1..config.world, config.dynamic
      PROVE  Counted(Tail(prog[r]))
  BY <1>1, <1>2, <1>4, CountedNext DEF AllCounted
<1>5. \A r, q \in 1..config.world : SameShape(prog'[r], prog'[q])
  BY <1>1, <1>3
<1>6. \A r \in 1..config.world : config.dynamic => Counted(prog'[r])
  BY <1>1, <1>4
<1> QED BY <1>1, <1>5, <1>6 DEF OneShape, AllCounted

\* Ranks at a count are at that of one route, and each can be cut into the agreed number.
LEMMA AgreeShape ==
  ASSUME RowsInv, CallInv, pc \in Calls, Even(batch, config), OneShape, AllCounted, AgreeOnCount
  PROVE  OneShape' /\ AllCounted' /\ pc' = pc /\ config' = config /\ batch' = batch
<1> DEFINE k == config.world
           ls(r) == LensOf(shard[r][Head(prog[r]).route])
<1>0. AllAt("count") /\ Ranks = 1..k /\ 1 \in 1..k /\ ShardsNow
  BY ConfigFacts DEF AgreeOnCount, Ranks, RowsInv, CallInv
<1>1. Agreement \in Nat \ {0} /\ config.dynamic
  BY <1>0, AgreementIs
<1>2. \A r \in 1..k : prog[r] # <<>> /\ prog[r] \in Seq(AllOps) /\ Tail(prog[r]) \in Seq(AllOps)
  BY <1>0, NextOp DEF AllAt
<1>3. PICK x : x = Head(prog[1]).route
  OBVIOUS
<1>4. ASSUME NEW r \in 1..k
      PROVE  Head(prog[r]) = CountOp(x) /\ x \in Range(Routes) /\ Head(prog[r]).route = x
  <2>1. SameKind(Head(prog[r]), Head(prog[1]))
    BY <1>0, <1>2, ShapeNext DEF OneShape
  <2>2. /\ Head(prog[r]) = CountOp(Head(prog[r]).route) /\ Head(prog[1]) = CountOp(Head(prog[1]).route)
        /\ Head(prog[1]).route \in Range(Routes)
    BY <1>0, AgreementIs
  <2>3. Head(prog[1]).op = "count" /\ Head(prog[1]).op # "step"
    BY <1>0 DEF AllAt
  <2> QED BY <1>3, <2>1, <2>2, <2>3 DEF SameKind
<1>5. ASSUME NEW r \in 1..k
      PROVE  ls(r) \in Seq(Nat \ {0}) /\ ls(r) = LensOf(shard[r][x]) /\ Len(ls(r)) = Len(shard[1][x]) /\ Len(ls(r)) >= 1
  <2>1. LensOf(shard[r][x]) \in Seq(Nat \ {0}) /\ Len(LensOf(shard[r][x])) = Len(shard[r][x])
    BY <1>0, <1>4, LocalLens DEF Calls
  <2>2. Len(shard[r][x]) = Len(shard[1][x]) /\ shard[r][x] # <<>> /\ shard[r][x] \in Seq(Nat)
    BY <1>0, <1>4, EvenShards, ShardFacts
  <2>3. Len(shard[r][x]) >= 1
    BY <2>2
  <2> QED BY <1>4, <2>1, <2>2, <2>3
<1>6. PICK q \in 1..k : Agreement = ProposedCount(ls(q), config.maxTokens)
  BY <1>0, AgreementIs
<1>7. \A r \in 1..k : Agreement <= Len(ls(r))
  <2> DEFINE l == ls(q)
  <2>1. l \in Seq(Nat \ {0}) /\ Len(l) >= 1 /\ config.maxTokens \in Nat \ {0}
    BY <1>5, ConfigFacts DEF RowsInv
  <2>2. Len(l) = Len(shard[1][x])
    BY <1>5
  <2>3. Agreement = ProposedCount(l, config.maxTokens)
    BY <1>6
  <2> HIDE DEF l
  <2>4. Agreement <= Len(l)
    BY <2>1, <2>3, ProposedIs
  <2> QED BY <1>5, <2>2, <2>4
<1>8. /\ UNCHANGED <<config, pc, batch>>
      /\ \A r \in 1..k : prog'[r] = Expand(Tail(prog[r]), Head(prog[r]).route, MicroBatches(ls(r), Agreement))
  <2> HIDE DEF k
  <2>1. \A r \in Ranks : Agreement <= Len(LensOf(shard[r][Head(prog[r]).route]))
    BY <1>0, <1>7
  <2> QED BY <1>0, <2>1 DEF AgreeOnCount, Agreement
<1> HIDE DEF k
<1>9. ASSUME NEW r \in 1..k
      PROVE  MicroBatches(ls(r), Agreement) \in Seq(Seq(Nat)) /\ Len(MicroBatches(ls(r), Agreement)) = Agreement
  <2> DEFINE l == ls(r)
             Bs == MicroBatches(l, Agreement)
             n == Len(l)
  <2>1. l \in Seq(Nat \ {0}) /\ Agreement <= Len(l)
    BY <1>5, <1>7
  <2> HIDE DEF l
  <2>2. l \in Seq(Nat)
    <3>1. Nat \ {0} \in SUBSET Nat
      OBVIOUS
    <3> QED BY <2>1, <3>1, SeqWider
  <2>3. Bs \in Seq(Seq(1..n)) /\ Len(Bs) = Agreement
    BY <1>1, <2>1, <2>2, MicroBatchesAre
  <2> HIDE DEF n, Bs
  <2>4. Bs \in Seq(Seq(Nat))
    <3>1. 1..n \in SUBSET Nat
      OBVIOUS
    <3>2. \A z \in Seq(1..n) : z \in Seq(Nat)
      BY <3>1, SeqWider
    <3> DEFINE Q == Seq(1..n)
               R == Seq(Nat)
    <3>3. Q \in SUBSET R /\ Bs \in Seq(Q)
      BY <2>3, <3>2
    <3> HIDE DEF Q, R
    <3>4. Bs \in Seq(R)
      BY <3>3, SeqWider
    <3> QED BY <3>4 DEF R
  <2> QED BY <2>3, <2>4 DEF Bs, l
<1> DEFINE Bs(r) == MicroBatches(ls(r), Agreement)
<1> HIDE DEF ls, Bs
<1>10. \A r \in 1..k : prog'[r] = Expand(Tail(prog[r]), x, Bs(r)) /\ Bs(r) \in Seq(Seq(Nat)) /\ Len(Bs(r)) = Agreement
  BY <1>4, <1>8, <1>9 DEF Bs
<1>11. ASSUME NEW r \in 1..k, NEW q_1 \in 1..k PROVE SameShape(prog'[r], prog'[q_1])
  <2>1. SameShape(Tail(prog[r]), Tail(prog[q_1]))
    BY <1>2, ShapeNext DEF OneShape, k
  <2>2. SameShape(Expand(Tail(prog[r]), x, Bs(r)), Expand(Tail(prog[q_1]), x, Bs(q_1)))
    BY <1>2, <1>4, <1>10, <2>1, ShapeExpand
  <2> QED BY <1>10, <2>2
<1>12. ASSUME NEW r \in 1..k PROVE Counted(prog'[r])
  <2>1. Counted(prog[r])
    BY <1>1 DEF AllCounted, k
  <2>2. Counted(Expand(Tail(prog[r]), x, Bs(r)))
    BY <1>2, <1>4, <1>10, <2>1, CountedExpand
  <2> QED BY <1>10, <2>2
<1> QED BY <1>8, <1>11, <1>12 DEF OneShape, AllCounted, k

-----------------------------------------------------------------------------
(* What the balancer deals each rank.                                         *)

DealtAre(c, sizes) ==
  /\ sizes \in [Range(Routes) -> Nat \ {0}]
  /\ \A x \in Range(Routes), r \in 1..c.world : /\ Len(RoutePartition(x)[r]) = sizes[x]
                                                /\ Lists(RoutePartition(x)[r], Range(RoutePartition(x)[r]))
                                                /\ Range(RoutePartition(x)[r]) \in SUBSET RouteSet(batch, x)

LEMMA DealtSizes ==
  ASSUME config \in Configs, BatchOk(batch, config), lens \in [1..Rows(config) -> config.lens],
         \A k \in DOMAIN Routes : QuotaDivides(Routes[k])
  PROVE  \E sizes : DealtAre(config, sizes)
<1>1. \A x \in Range(Routes) : QuotaDivides(x)
  BY DEF Range
<1>2. ASSUME NEW x \in Range(Routes)
      PROVE  \E n \in Nat \ {0} : \A r \in 1..config.world :
               /\ Len(RoutePartition(x)[r]) = n
               /\ Lists(RoutePartition(x)[r], Range(RoutePartition(x)[r]))
               /\ Range(RoutePartition(x)[r]) \in SUBSET RouteSet(batch, x)
  <2> DEFINE f == RoutePartition(x)
             R == RouteSet(batch, x)
             k == config.world
  <2>1. PartitionsOf(f, k, R) /\ DealtLevel(f, k, x)
    BY <1>1, RoutePartitionIs
  <2>2. Cardinality(R) \in Nat \ {0}
    BY RouteCount
  <2> HIDE DEF f, R, k
  <2>3. PICK n \in Nat : \A r \in 1..k : Len(f[r]) = n
    BY <2>1 DEF DealtLevel
  <2>4. R # {}
    BY <2>2, FS_EmptySet
  <2>5. PICK i \in R, p \in 1..k : i \in Range(f[p])
    BY <2>1, <2>4 DEF PartitionsOf
  <2>6. f[p] \in Seq(R)
    BY <2>1 DEF PartitionsOf
  <2>7. n # 0
    <3> DEFINE s == f[p]
    <3>1. s \in Seq(R) /\ i \in Range(s) /\ Len(s) = n
      BY <2>3, <2>5, <2>6
    <3> HIDE DEF s
    <3>2. DOMAIN s # {} /\ DOMAIN s = 1..Len(s)
      BY <3>1 DEF Range
    <3> QED BY <3>1, <3>2
  <2>8. ASSUME NEW r \in 1..k
        PROVE  Lists(f[r], Range(f[r])) /\ Range(f[r]) \in SUBSET R
    <3>1. Lists(f[r], Range(f[r])) /\ f[r] \in Seq(R)
      BY <2>1 DEF PartitionsOf
    <3>2. \A j \in DOMAIN f[r] : f[r][j] \in R
      BY <3>1, SeqElements
    <3> QED BY <3>1, <3>2 DEF Range
  <2> QED BY <2>3, <2>7, <2>8 DEF f, R, k
<1> DEFINE Is(x, n) == \A r \in 1..config.world :
                         /\ Len(RoutePartition(x)[r]) = n
                         /\ Lists(RoutePartition(x)[r], Range(RoutePartition(x)[r]))
                         /\ Range(RoutePartition(x)[r]) \in SUBSET RouteSet(batch, x)
           sizes == [x \in Range(Routes) |-> CHOOSE n \in Nat \ {0} : Is(x, n)]
<1>3. \A x \in Range(Routes) : \E n \in Nat \ {0} : Is(x, n)
  BY <1>2
<1> HIDE DEF Is
<1>4. \A x \in Range(Routes) : sizes[x] \in Nat \ {0} /\ Is(x, sizes[x])
  BY <1>3
<1>5. sizes \in [Range(Routes) -> Nat \ {0}]
  BY <1>4
<1> HIDE DEF sizes
<1>6. DealtAre(config, sizes)
  BY <1>4, <1>5 DEF DealtAre, Is
<1> QED BY <1>6

\* Every rank is dealt as many rows as its shard of the batch holds.
LEMMA DealQuota ==
  ASSUME config \in Configs, BatchOk(batch, config), lens \in [1..Rows(config) -> config.lens],
         \A k \in DOMAIN Routes : QuotaDivides(Routes[k])
  PROVE  /\ \A r \in 1..config.world : Len(Deal[r]) = Quota(config)
         /\ PiecesJoin(FlattenSeq(Deal), Deal, config.world, Quota(config))
<1> DEFINE n == Rows(config)
           k == config.world
           D == Deal
           A(r) == Range(RoutePartition("clean")[r])
           B(r) == Range(RoutePartition("masked")[r])
<1>0. k \in Nat \ {0} /\ n \in Nat /\ "clean" \in Range(Routes) /\ "masked" \in Range(Routes)
  BY ConfigFacts, TwoRoutes
<1>1. /\ D \in Seq(Seq(1..n)) /\ DOMAIN D = 1..k /\ Lists(FlattenSeq(D), 1..n)
      /\ \A r \in 1..k : PartitionOfRanks[r] = A(r) \cup B(r) /\ Lists(D[r], PartitionOfRanks[r])
  BY DealIs
<1>2. PICK sizes : DealtAre(config, sizes)
  BY DealtSizes
<1> DEFINE sc == sizes["clean"]
           sm == sizes["masked"]
           q  == sc + sm
<1>3. sc \in Nat \ {0} /\ sm \in Nat \ {0}
  BY <1>0, <1>2 DEF DealtAre
<1>4. RouteSet(batch, "clean") \cap RouteSet(batch, "masked") = {}
  BY BothRoutesAre
<1>5. ASSUME NEW r \in 1..k PROVE Len(D[r]) = q
  <2>1. /\ Lists(RoutePartition("clean")[r], A(r)) /\ Len(RoutePartition("clean")[r]) = sc
        /\ Lists(RoutePartition("masked")[r], B(r)) /\ Len(RoutePartition("masked")[r]) = sm
        /\ A(r) \in SUBSET RouteSet(batch, "clean") /\ B(r) \in SUBSET RouteSet(batch, "masked")
    BY <1>0, <1>2 DEF DealtAre
  <2>2. Lists(D[r], A(r) \cup B(r))
    BY <1>1
  <2> HIDE DEF A, B, D, sc, sm, k
  <2>3. IsFiniteSet(A(r)) /\ Cardinality(A(r)) = sc /\ IsFiniteSet(B(r)) /\ Cardinality(B(r)) = sm
    BY <2>1, ListsCard
  <2>4. A(r) \cap B(r) = {}
    BY <1>4, <2>1
  <2>5. Cardinality(A(r) \cup B(r)) = Cardinality(A(r)) + Cardinality(B(r)) - Cardinality(A(r) \cap B(r))
    BY <2>3, FS_Union
  <2>6. Cardinality(A(r) \cap B(r)) = 0
    BY <2>4, FS_EmptySet
  <2>7. Cardinality(A(r) \cup B(r)) = Len(D[r])
    BY <2>2, ListsCard
  <2> QED BY <1>3, <2>3, <2>5, <2>6, <2>7
<1>6. q \in Nat \ {0}
  BY <1>3
<1> HIDE DEF D, n, q, k
<1>7. Len(D) = k /\ k \in Nat
  <2> DEFINE Q == Seq(1..n)
  <2>1. D \in Seq(Q)
    BY <1>1
  <2> HIDE DEF Q
  <2>2. Len(D) \in Nat /\ DOMAIN D = 1..Len(D)
    BY <2>1, SeqElements
  <2> QED BY <1>0, <1>1, <2>2
<1>8. PiecesJoin(FlattenSeq(D), D, k, q)
  <2>1. \A r \in DOMAIN D : Len(D[r]) = q
    BY <1>1, <1>5
  <2> QED BY <1>1, <1>6, <1>7, <2>1, EqualPieces
<1>9. n = k * q
  <2>1. Len(FlattenSeq(D)) = Cardinality(1..n)
    BY <1>1, ListsCard
  <2>2. Cardinality(1..n) = n
    BY <1>0, FS_Interval
  <2> QED BY <1>8, <2>1, <2>2 DEF PiecesJoin
<1>10. q = Quota(config)
  <2>1. (k * q) \div k = q
    BY <1>0, <1>6, ExactDiv
  <2> QED BY <1>9, <2>1 DEF Quota, n, k
<1> QED BY <1>5, <1>8, <1>10 DEF D, k

LEMMA DealtOrders ==
  ASSUME config \in Configs, BatchOk(batch, config), lens \in [1..Rows(config) -> config.lens],
         \A k \in DOMAIN Routes : QuotaDivides(Routes[k]), NEW r \in 1..config.world, NEW x \in Range(Routes)
  PROVE  OrderSet(Select(batch, FlattenSeq(Deal)), config, r, x)
           = {batch[j].out.order : j \in Range(RoutePartition(x)[r])}
<1> DEFINE n == Rows(config)
           q == Quota(config)
           F == FlattenSeq(Deal)
           b == Select(batch, F)
           rows == Chunk(b, config.world, r)
           d == Deal[r]
           A == Range(RoutePartition("clean")[r])
           B == Range(RoutePartition("masked")[r])
<1>1. /\ Lists(F, 1..n) /\ n \in Nat /\ PartitionOfRanks[r] = A \cup B /\ Lists(d, PartitionOfRanks[r])
  BY DealIs, ConfigFacts
<1>2. Len(d) = q /\ \A i \in 1..q : F[Place(q, r, i)] = d[i]
  BY DealQuota DEF PiecesJoin
<1>3. BatchOk(b, config)
  BY <1>1, PermutedBatchOk
<1>4. PICK sizes : DealtAre(config, sizes)
  BY DealtSizes
<1>5. /\ A \in SUBSET RouteSet(batch, "clean") /\ B \in SUBSET RouteSet(batch, "masked")
      /\ x \in {"clean", "masked"} /\ "clean" # "masked"
  BY <1>4, TwoRoutes DEF DealtAre
<1>6. DOMAIN F = 1..n
  <2>1. 1 \in Int /\ n \in Int /\ n \in Nat
    BY <1>1
  <2> HIDE DEF n, F
  <2>2. Cardinality(1..n) = n
    BY <2>1, FS_Interval
  <2>3. Len(F) = Cardinality(1..n) /\ DOMAIN F = 1..Len(F)
    BY <1>1, ListsCard
  <2> QED BY <2>2, <2>3
<1>b. \A p \in 1..n : b[p] = batch[F[p]]
  BY <1>6 DEF Select
<1> HIDE DEF b, F
<1>7. /\ DOMAIN rows = 1..q /\ \A i \in 1..q : rows[i] = b[Place(q, r, i)] /\ Place(q, r, i) \in 1..n
  BY <1>3, ActorShardIs
<1>8. \A i \in 1..q : rows[i] = batch[d[i]]
  BY <1>2, <1>7, <1>b
<1>9. Range(d) = A \cup B /\ DOMAIN d = 1..q
  BY <1>1, <1>2, ListsRange, ListsCard
<1>10. \A j \in A \cup B : batch[j].out.route = x <=> j \in Range(RoutePartition(x)[r])
  <2>1. \A j \in A : batch[j].out.route = "clean"
    BY <1>5 DEF RouteSet
  <2>2. \A j \in B : batch[j].out.route = "masked"
    BY <1>5 DEF RouteSet
  <2> HIDE DEF A, B
  <2>3. \A j \in A \cup B : /\ batch[j].out.route = "clean" <=> j \in A
                            /\ batch[j].out.route = "masked" <=> j \in B
    BY <1>5, <2>1, <2>2
  <2>4. CASE x = "clean"
    <3>1. Range(RoutePartition(x)[r]) = A
      BY <2>4 DEF A
    <3> QED BY <2>3, <2>4, <3>1
  <2>5. CASE x = "masked"
    <3>1. Range(RoutePartition(x)[r]) = B
      BY <2>5 DEF B
    <3> QED BY <2>3, <2>5, <3>1
  <2> QED BY <1>5, <2>4, <2>5
<1>11. Range(RoutePartition(x)[r]) \in SUBSET (A \cup B)
  <2>1. CASE x = "clean"
    BY <2>1
  <2>2. CASE x = "masked"
    BY <2>2
  <2> QED BY <1>5, <2>1, <2>2
<1> HIDE DEF rows, d, A, B, q
<1>12. OrderSet(b, config, r, x) = {rows[i].out.order : i \in {j \in 1..q : rows[j].out.route = x}}
  BY <1>7 DEF OrderSet, RouteSet, rows
<1> DEFINE L == {rows[i].out.order : i \in {j \in 1..q : rows[j].out.route = x}}
           P == Range(RoutePartition(x)[r])
           R == {batch[j].out.order : j \in P}
<1> HIDE DEF P
<1>13. ASSUME NEW o \in L PROVE o \in R
  <2>1. PICK i \in 1..q : rows[i].out.route = x /\ o = rows[i].out.order
    BY <1>13
  <2>2. d[i] \in A \cup B
    BY <1>9 DEF Range
  <2>3. rows[i] = batch[d[i]]
    BY <1>8
  <2>4. d[i] \in P
    BY <1>10, <2>1, <2>2, <2>3 DEF P
  <2> QED BY <2>1, <2>3, <2>4
<1>14. ASSUME NEW o \in R PROVE o \in L
  <2>1. PICK j \in P : o = batch[j].out.order
    BY <1>14
  <2>2. j \in A \cup B
    BY <1>11 DEF P
  <2>3. batch[j].out.route = x
    BY <1>10, <2>2 DEF P
  <2>4. PICK i \in 1..q : d[i] = j
    BY <1>9, <2>2 DEF Range
  <2>5. rows[i] = batch[j]
    BY <1>8, <2>4
  <2> QED BY <2>1, <2>3, <2>5
<1>15. L = R
  BY <1>13, <1>14
<1> QED BY <1>12, <1>15 DEF P, b, F

\* Dealing makes the shards even.
LEMMA EvenBalance ==
  ASSUME config \in Configs, BatchOk(batch, config), lens \in [1..Rows(config) -> config.lens],
         \A k \in DOMAIN Routes : QuotaDivides(Routes[k])
  PROVE  Even(Select(batch, FlattenSeq(Deal)), config)
<1> DEFINE n == Rows(config)
           b == Select(batch, FlattenSeq(Deal))
           o == Orders(batch)
<1>1. PICK sizes : DealtAre(config, sizes)
  BY DealtSizes
<1>2. BatchOk(b, config)
  BY DealIs, PermutedBatchOk
<1>3. Lists(o, 1..n) /\ DOMAIN o = 1..n /\ \A i \in 1..n : o[i] = batch[i].out.order
  BY DEF BatchOk, BatchShape, Orders
<1>4. ASSUME NEW x \in Range(Routes), NEW r \in 1..config.world
      PROVE  Len(OrdersOf(b, config, r, x)) = sizes[x]
  <2> DEFINE p == RoutePartition(x)[r]
             S == OrderSet(b, config, r, x)
  <2>1. Len(p) = sizes[x] /\ Lists(p, Range(p)) /\ Range(p) \in SUBSET RouteSet(batch, x)
    BY <1>1 DEF DealtAre
  <2>2. S = {batch[j].out.order : j \in Range(p)}
    BY DealtOrders
  <2>3. Lists(OrdersOf(b, config, r, x), S)
    BY <1>2, OrdersOfIs
  <2> HIDE DEF p, S, o, b, n
  <2>4. Range(p) \in SUBSET (1..n)
    <3>1. DOMAIN batch = 1..n
      BY DEF BatchOk, BatchShape, n
    <3> QED BY <2>1, <3>1 DEF RouteSet
  <2>5. S = ElementsAt(o, Range(p))
    <3>1. \A j \in Range(p) : o[j] = batch[j].out.order
      BY <1>3, <2>4
    <3> QED BY <2>2, <3>1 DEF ElementsAt
  <2>6. Into(o, Range(p), 1..n) /\ OneToOne(o, Range(p))
    <3>1. o \in Seq(1..n)
      BY <1>3 DEF Lists
    <3>2. \A j \in 1..n : o[j] \in 1..n
      BY <1>3, <3>1, SeqElements
    <3>3. \A i, j \in 1..n : o[i] = o[j] => i = j
      BY <1>3 DEF Lists
    <3> QED BY <2>4, <3>2, <3>3 DEF Into, OneToOne
  <2>7. Lists(Select(o, p), S) /\ Len(Select(o, p)) = Len(p)
    BY <2>1, <2>5, <2>6, SelectLists
  <2>8. Len(OrdersOf(b, config, r, x)) = Cardinality(S) /\ Len(Select(o, p)) = Cardinality(S)
    BY <2>3, <2>7, ListsCard
  <2> QED BY <2>1, <2>7, <2>8
<1> HIDE DEF b
<1>5. \A x \in Range(Routes) : sizes[x] \in Nat \ {0}
  BY <1>1 DEF DealtAre
<1> QED BY <1>4, <1>5 DEF Even, b

-----------------------------------------------------------------------------
(* Shards of the round-robin rows, with as many masked rows as clean ones.    *)

\* A clean row, then a masked one, h times.
TakeTurns(rows, h) ==
  /\ DOMAIN rows = 1..(2 * h)
  /\ \A o \in 1..h : rows[2 * o - 1].out.route = "clean" /\ rows[2 * o].out.route = "masked"

LEMMA InitialTurns ==
  ASSUME NEW c \in Configs, c.clean = c.masked
  PROVE  TakeTurns(BuildDualRouteBatch(c), c.prompts * c.clean) /\ Rows(c) = 2 * (c.prompts * c.clean)
<1> DEFINE a == c.prompts * c.clean
           b == BuildDualRouteBatch(c)
           idx == RoundRobinIndices(a, a)
           f == [o \in 1..a |-> <<o>> \o <<a + o>>]
<1>1. a \in Nat \ {0} /\ c.prompts * c.masked = a /\ Rows(c) = a + a
  BY ConfigFacts DEF Rows
<1>2. /\ DOMAIN b = 1..(a + a)
      /\ \A i \in 1..(a + a) : /\ b[i].out.route \in {"clean", "masked"}
                               /\ b[i].out.route = "clean" <=> idx[i] <= a
  BY <1>1, InitialBatch DEF BatchShape
<1> HIDE DEF a, b
<1>3. idx = FlattenSeq(f)
  <2>1. idx = FlattenSeq([o \in 1..a |-> (IF o <= a THEN <<o>> ELSE <<>>) \o (IF o <= a THEN <<a + o>> ELSE <<>>)])
    BY <1>1 DEF RoundRobinIndices
  <2>2. [o \in 1..a |-> (IF o <= a THEN <<o>> ELSE <<>>) \o (IF o <= a THEN <<a + o>> ELSE <<>>)] = f
    BY <1>1
  <2> QED BY <2>1, <2>2
<1>4. ASSUME NEW o \in 1..a
      PROVE  f[o] \in Seq(Nat) /\ Len(f[o]) = 2 /\ f[o][1] = o /\ f[o][2] = a + o
  <2>1. o \in Nat /\ a + o \in Nat
    BY <1>1
  <2> DEFINE y == a + o
  <2> HIDE DEF y
  <2>2. <<o>> \o <<y>> = <<o, y>>
    BY <2>1, TwoJoined DEF y
  <2>3. <<o, y>> \in Seq(Nat) /\ Len(<<o, y>>) = 2 /\ <<o, y>>[1] = o /\ <<o, y>>[2] = y
    BY <2>1 DEF y
  <2>4. f[o] = <<o>> \o <<y>>
    BY DEF y
  <2> HIDE DEF f
  <2> QED BY <2>2, <2>3, <2>4 DEF y
<1>5. DOMAIN f = 1..a /\ f = [o \in 1..a |-> f[o]]
  OBVIOUS
<1> HIDE DEF f
<1>6. f \in Seq(Seq(Nat)) /\ Len(f) = a
  <2> DEFINE Q == Seq(Nat)
  <2>1. \A o \in 1..a : f[o] \in Q
    BY <1>4
  <2> HIDE DEF Q
  <2>2. f \in [1..a -> Q]
    BY <1>5, <2>1
  <2>3. f \in Seq(Q) /\ Len(f) = a
    BY <1>1, <2>2
  <2> QED BY <2>3 DEF Q
<1>7. PiecesJoin(FlattenSeq(f), f, a, 2)
  <2>1. \A o \in DOMAIN f : Len(f[o]) = 2
    BY <1>4, <1>5
  <2>2. 2 \in Nat \ {0}
    OBVIOUS
  <2>3. PiecesJoin(FlattenSeq(f), f, Len(f), 2)
    BY <1>6, <2>1, <2>2, EqualPieces
  <2> QED BY <1>6, <2>3
<1> HIDE DEF idx
<1>8. ASSUME NEW o \in 1..a
      PROVE  b[2 * o - 1].out.route = "clean" /\ b[2 * o].out.route = "masked"
  <2>1. /\ Place(2, o, 1) = 2 * o - 1 /\ Place(2, o, 2) = 2 * o
        /\ 2 * o - 1 \in 1..(a + a) /\ 2 * o \in 1..(a + a)
    BY <1>1 DEF Place
  <2>2. idx[2 * o - 1] = o /\ idx[2 * o] = a + o
    BY <1>3, <1>4, <1>7, <2>1, SMTT(30) DEF PiecesJoin
  <2>3. o <= a /\ ~(a + o <= a)
    BY <1>1
  <2> QED BY <1>2, <2>1, <2>2, <2>3
<1>9. a + a = 2 * a
  BY <1>1
<1> QED BY <1>1, <1>2, <1>8, <1>9 DEF TakeTurns, a, b

LEMMA ChunkTurns ==
  ASSUME NEW T, NEW b \in Seq(T), NEW k \in Nat \ {0}, NEW h \in Nat \ {0}, TakeTurns(b, k * h), NEW r \in 1..k
  PROVE  TakeTurns(Chunk(b, k, r), h)
<1> DEFINE c == Chunk(b, k, r)
           size == 2 * h
           n == k * h
<1>1. n \in Nat \ {0} /\ size \in Nat \ {0} /\ 2 * n = k * size /\ r - 1 \in Nat
  OBVIOUS
<1>2. Len(b) = 2 * n
  <2>1. DOMAIN b = 1..(2 * n) /\ Len(b) \in Nat /\ DOMAIN b = 1..Len(b)
    BY SeqElements DEF TakeTurns
  <2> HIDE DEF n
  <2> QED BY <1>1, <2>1
<1>3. /\ DOMAIN c = 1..size /\ \A i \in 1..size : c[i] = b[Place(size, r, i)]
  <2>1. Divides(k, size, Len(b))
    BY <1>1, <1>2 DEF Divides
  <2> HIDE DEF size
  <2> QED BY <1>1, <2>1, ChunkIs
<1>4. ASSUME NEW j \in 1..h
      PROVE  c[2 * j - 1].out.route = "clean" /\ c[2 * j].out.route = "masked"
  <2> DEFINE o == Place(h, r, j)
             z == h * (r - 1)
  <2>1. o \in 1..n
    BY ChunkPlaces
  <2>2. 2 * j - 1 \in 1..size /\ 2 * j \in 1..size
    OBVIOUS
  <2>3. z \in Nat /\ o = z + j /\ size * (r - 1) = 2 * z
    BY <1>1 DEF Place
  <2>4. Place(size, r, 2 * j - 1) = 2 * o - 1 /\ Place(size, r, 2 * j) = 2 * o
    <3> HIDE DEF z, o, size
    <3>1. Place(size, r, 2 * j - 1) = 2 * z + (2 * j - 1) /\ Place(size, r, 2 * j) = 2 * z + 2 * j
      BY <2>3 DEF Place
    <3> QED BY <2>3, <3>1
  <2>5. b[2 * o - 1].out.route = "clean" /\ b[2 * o].out.route = "masked"
    BY <2>1 DEF TakeTurns
  <2> HIDE DEF o, size, c
  <2> QED BY <1>3, <2>2, <2>4, <2>5
<1> QED BY <1>3, <1>4 DEF TakeTurns

LEMMA TurnsCount ==
  ASSUME NEW rows, NEW h \in Nat, TakeTurns(rows, h), NEW x \in Range(Routes)
  PROVE  Cardinality(RouteSet(rows, x)) = h
<1> DEFINE back == IF x = "clean" THEN 1 ELSE 0
           S == RouteSet(rows, x)
           g == [j \in 1..h |-> 2 * j - back]
<1>1. /\ x \in {"clean", "masked"} /\ "clean" # "masked" /\ DOMAIN rows = 1..(2 * h)
      /\ \A o \in 1..h : rows[2 * o - 1].out.route = "clean" /\ rows[2 * o].out.route = "masked"
  BY TwoRoutes DEF TakeTurns
<1>2. ASSUME NEW j \in 1..h PROVE g[j] \in S
  <2>1. 2 * j \in 1..(2 * h) /\ 2 * j - 1 \in 1..(2 * h)
    OBVIOUS
  <2>2. CASE x = "clean"
    <3>1. g[j] = 2 * j - 1
      BY <2>2
    <3> QED BY <1>1, <2>1, <2>2, <3>1 DEF RouteSet
  <2>3. CASE x = "masked"
    <3>1. g[j] = 2 * j
      BY <1>1, <2>3
    <3> QED BY <1>1, <2>1, <2>3, <3>1 DEF RouteSet
  <2> QED BY <1>1, <2>2, <2>3
<1>3. ASSUME NEW i \in S PROVE \E j \in 1..h : g[j] = i
  <2>1. i \in 1..(2 * h) /\ rows[i].out.route = x
    BY <1>1 DEF RouteSet
  <2>2. (\E j \in 1..h : i = 2 * j) \/ \E j \in 1..h : i = 2 * j - 1
    <3>0. i \in Int /\ 2 \in Nat \ {0} /\ 2 - 1 = 1
      BY <2>1
    <3>1. i = 2 * (i \div 2) + (i % 2) /\ i % 2 \in 0..1 /\ i \div 2 \in Int
      <4>1. i = 2 * (i \div 2) + (i % 2) /\ i % 2 \in 0..(2 - 1) /\ i \div 2 \in Int
        BY <3>0, DivFacts
      <4> QED BY <3>0, <4>1
    <3> DEFINE d == i \div 2
    <3> HIDE DEF d
    <3>2. CASE i % 2 = 0
      <4>1. d \in 1..h /\ i = 2 * d
        BY <2>1, <3>1, <3>2 DEF d
      <4> QED BY <4>1
    <3>3. CASE i % 2 = 1
      <4>1. d + 1 \in 1..h /\ i = 2 * (d + 1) - 1
        BY <2>1, <3>1, <3>3 DEF d
      <4> QED BY <4>1
    <3> QED BY <3>1, <3>2, <3>3
  <2>3. CASE x = "clean"
    <3>1. PICK j \in 1..h : i = 2 * j - 1
      BY <1>1, <2>1, <2>2, <2>3
    <3> QED BY <2>3, <3>1
  <2>4. CASE x = "masked"
    <3>1. PICK j \in 1..h : i = 2 * j
      BY <1>1, <2>1, <2>2, <2>4
    <3> QED BY <1>1, <2>4, <3>1
  <2> QED BY <1>1, <2>3, <2>4
<1>4. \A i, j \in 1..h : g[i] = g[j] => i = j
  OBVIOUS
<1>5. DOMAIN g = 1..h /\ g = [j \in 1..h |-> g[j]]
  OBVIOUS
<1> HIDE DEF g, S
<1>6. Lists(g, S)
  <2>1. g \in [1..h -> S]
    BY <1>2, <1>5
  <2>2. g \in Seq(S)
    BY <2>1
  <2> QED BY <1>3, <1>4, <1>5, <2>2 DEF Lists
<1>7. Len(g) = h
  BY <1>5
<1> QED BY <1>6, <1>7, ListsCard DEF S

LEMMA ExactShares ==
  ASSUME NEW a \in Nat \ {0}, NEW k \in Nat \ {0}, a % k = 0
  PROVE  \E s \in Nat \ {0} : a = k * s
<1> DEFINE s == a \div k
<1>1. a \in Int /\ k \in Nat \ {0}
  OBVIOUS
<1>2. a = k * (a \div k) + (a % k) /\ a \div k \in Int
  BY <1>1, DivFacts
<1>3. a = k * s /\ s \in Int
  BY <1>1, <1>2
<1> HIDE DEF s
<1>4. CASE s = 0
  <2>1. k * 0 = 0
    OBVIOUS
  <2> QED BY <1>3, <1>4, <2>1
<1>5. CASE s < 0
  <2>1. k * s + k <= k * 0 /\ k * 0 = 0
    BY <1>3, <1>5, MulMono
  <2> QED BY <1>3, <2>1
<1>6. CASE s > 0
  BY <1>3, <1>6
<1> QED BY <1>3, <1>4, <1>5, <1>6

LEMMA QuotaOfTurns ==
  ASSUME NEW c \in Configs, EvenQuota(c), c.clean = c.masked
  PROVE  \E s \in Nat \ {0} : c.prompts * c.clean = c.world * s
<1> DEFINE a == c.prompts * c.clean
<1>1. a \in Nat \ {0} /\ c.world \in Nat \ {0} /\ a % c.world = 0
  BY ConfigFacts DEF EvenQuota
<1> HIDE DEF a
<1>2. \E s \in Nat \ {0} : a = c.world * s
  BY <1>1, ExactShares, ZenonT(60)
<1> QED BY <1>2 DEF a

\* The shards of the actor.
LEMMA EvenTurns ==
  ASSUME NEW c \in Configs, EvenQuota(c), c.clean = c.masked
  PROVE  Even(BuildDualRouteBatch(c), c)
<1> DEFINE b == BuildDualRouteBatch(c)
           k == c.world
           T == {b[i] : i \in 1..Rows(c)}
<1>1. PICK s \in Nat \ {0} : c.prompts * c.clean = k * s
  BY QuotaOfTurns
<1>2. TakeTurns(b, k * s) /\ k \in Nat \ {0} /\ BatchOk(b, c)
  BY <1>1, InitialTurns, InitialBatchOk, ConfigFacts
<1>3. b \in Seq(T)
  BY <1>2 DEF BatchOk, BatchShape
<1> HIDE DEF b, T
<1>4. ASSUME NEW x \in Range(Routes), NEW r \in 1..k
      PROVE  Len(OrdersOf(b, c, r, x)) = s
  <2>1. TakeTurns(Chunk(b, k, r), s)
    <3> HIDE DEF k
    <3> QED BY <1>1, <1>2, <1>3, ChunkTurns
  <2> DEFINE rows == Chunk(b, k, r)
  <2> HIDE DEF rows
  <2>2. Cardinality(RouteSet(rows, x)) = s
    BY <2>1, TurnsCount DEF rows
  <2>3. Len(OrdersOf(b, c, r, x)) = Cardinality(RouteSet(rows, x))
    BY <1>2, OrdersOfIs DEF rows
  <2> QED BY <2>2, <2>3
<1> QED BY <1>1, <1>4 DEF Even, b

LEMMA TurnsHaveBoth ==
  ASSUME NEW rows, NEW h \in Nat \ {0}, TakeTurns(rows, h)
  PROVE  HasBothRoutes(rows)
<1>1. ASSUME NEW x \in Range(Routes) PROVE RowsOfRoute(rows, x) # <<>>
  <2>1. Cardinality(RouteSet(rows, x)) = h
    BY TurnsCount
  <2>2. DOMAIN rows = 1..(2 * h) /\ 2 * h \in Nat
    BY DEF TakeTurns
  <2>3. Len(RowsOfRoute(rows, x)) = h
    BY <2>1, <2>2, RouteListed
  <2>4. Len(<<>>) = 0
    OBVIOUS
  <2> QED BY <2>3, <2>4
<1>2. \A k \in DOMAIN Routes : Routes[k] \in Range(Routes)
  BY DEF Range
<1> QED BY <1>1, <1>2 DEF HasBothRoutes

\* The shards of the rollout.
LEMMA RolloutRanks ==
  ASSUME config \in Configs, NEW r \in 1..config.world
  PROVE  RolloutRank(r) \in 1..(config.world \div config.tp)
<1> DEFINE d == config.tp
           m == config.world \div config.tp
           z == r - 1
           q == z \div d
           e == z % d
<1>1. d \in Nat \ {0} /\ m \in Nat \ {0} /\ config.world = d * m
  BY ConfigFacts, WorldDivides
<1>2. z \in Int /\ z >= 0 /\ z < d * m
  BY <1>1
<1>7. RolloutRank(r) = q + 1
  BY DEF RolloutRank
<1> HIDE DEF d, m, z
<1>3. z = d * q + e /\ e \in 0..(d - 1) /\ q \in Int
  <2>1. z = d * (z \div d) + (z % d) /\ z % d \in 0..(d - 1) /\ z \div d \in Int
    BY <1>1, <1>2, DivFacts
  <2> QED BY <2>1
<1> HIDE DEF q, e
<1>4. d * q \in Int /\ d * m \in Int
  BY <1>1, <1>3
<1>5. q >= 0
  <2>1. CASE q < 0
    <3>1. d * q + d <= d * 0 /\ d * 0 = 0
      BY <1>1, <1>3, <2>1, MulMono
    <3> QED BY <1>1, <1>2, <1>3, <1>4, <3>1
  <2> QED BY <1>3, <2>1
<1>6. q < m
  <2>1. CASE q = m
    BY <1>1, <1>2, <1>3, <1>4, <2>1
  <2>2. CASE m < q
    <3>1. d * m + d <= d * q
      BY <1>1, <1>3, <2>2, MulMono
    <3> QED BY <1>1, <1>2, <1>3, <1>4, <3>1
  <2> QED BY <1>1, <1>3, <2>1, <2>2
<1> QED BY <1>1, <1>3, <1>5, <1>6, <1>7 DEF m

LEMMA RolloutAccepted ==
  ASSUME RowsInv, pc = "generate", EvenQuota(config), NEW r \in 1..config.world
  PROVE  HasBothRoutes(RolloutShard(r))
<1> DEFINE m == config.world \div config.tp
           p == RolloutRank(r)
           n == Rows(config)
           T == {batch[i] : i \in 1..n}
<1>1. config \in Configs /\ BatchOk(batch, config) /\ batch = BuildDualRouteBatch(config)
  BY DEF RowsInv
<1>2. /\ m \in Nat \ {0} /\ config.world = config.tp * m /\ p \in 1..m /\ config.tp \in Nat \ {0}
      /\ n \in Nat \ {0}
  BY <1>1, WorldDivides, RolloutRanks, ConfigFacts
<1>3. batch \in Seq(T) /\ Len(batch) = n /\ DOMAIN batch = 1..n
  BY <1>1 DEF BatchOk, BatchShape
<1>4. RolloutShard(r) = Chunk(batch, m, p)
  BY DEF RolloutShard
<1>5. config.clean = config.masked \/ config.tp = config.world
  BY DEF EvenQuota
<1>6. CASE config.clean = config.masked
  <2>1. PICK s \in Nat \ {0} : config.prompts * config.clean = config.world * s
    BY <1>1, <1>6, QuotaOfTurns
  <2> DEFINE h == config.tp * s
  <2>2. h \in Nat \ {0} /\ config.world * s = m * h
    BY <1>2, <2>1
  <2>3. TakeTurns(batch, m * h)
    BY <1>1, <1>6, <2>1, <2>2, InitialTurns
  <2> HIDE DEF m, p, T, h, n
  <2>4. TakeTurns(Chunk(batch, m, p), h)
    BY <1>2, <1>3, <2>2, <2>3, ChunkTurns
  <2> QED BY <1>4, <2>2, <2>4, TurnsHaveBoth
<1>7. CASE config.tp = config.world
  <2>1. m = 1 /\ p = 1
    <3> DEFINE d == config.tp
    <3>1. d = d * m /\ d \in Nat \ {0} /\ m \in Nat \ {0} /\ p \in 1..m
      BY <1>2, <1>7
    <3> HIDE DEF d, m, p
    <3>2. CASE 1 < m
      <4>1. d * 1 + d <= d * m
        BY <3>1, <3>2, MulMono
      <4> QED BY <3>1, <4>1
    <3> QED BY <3>1, <3>2
  <2> DEFINE rows == Chunk(batch, m, p)
  <2>2. Divides(1, n, Len(batch)) /\ 1 \in Nat \ {0} /\ 1 \in 1..1
    BY <1>2, <1>3 DEF Divides
  <2> HIDE DEF m, p, T, n
  <2>3. DOMAIN rows = 1..n /\ \A i \in 1..n : rows[i] = batch[Place(n, 1, i)]
    BY <1>2, <1>3, <2>1, <2>2, ChunkIs
  <2>4. \A i \in 1..n : Place(n, 1, i) = i
    BY <1>2 DEF Place
  <2> HIDE DEF rows
  <2>5. ASSUME NEW x \in Range(Routes) PROVE RowsOfRoute(rows, x) # <<>>
    <3>1. RouteSet(rows, x) = RouteSet(batch, x)
      BY <1>3, <2>3, <2>4 DEF RouteSet
    <3>2. Cardinality(RouteSet(rows, x)) \in Nat \ {0}
      BY <1>1, <3>1, RouteCount
    <3>3. Len(RowsOfRoute(rows, x)) = Cardinality(RouteSet(rows, x))
      BY <1>2, <2>3, RouteListed
    <3>4. Len(<<>>) = 0
      OBVIOUS
    <3> QED BY <3>2, <3>3, <3>4
  <2>6. \A k \in DOMAIN Routes : Routes[k] \in Range(Routes)
    BY DEF Range
  <2> QED BY <1>4, <2>5, <2>6 DEF HasBothRoutes, rows
<1> QED BY <1>5, <1>6, <1>7

-----------------------------------------------------------------------------
(* No step refuses, and the shards stay even.                                 *)

LEMMA WaitGenerate ==
  ASSUME RowsInv, EvenQuota(config), GenerateDual
  PROVE  config' = config /\ pc' \in {"balance", "log_prob"} /\ (pc' = "log_prob" => Even(batch', config))
<1>1. \A r \in Ranks : HasBothRoutes(RolloutShard(r))
  BY RolloutAccepted DEF GenerateDual, Ranks
<1>2. config' = config /\ pc' = IF config.balance THEN "balance" ELSE "log_prob"
  BY <1>1 DEF GenerateDual
<1>3. batch' = batch /\ batch = BuildDualRouteBatch(config) /\ config \in Configs
  BY <1>2, GenerateKeeps DEF GenerateDual, RowsInv
<1>4. pc' = "log_prob" => config.clean = config.masked
  BY <1>2 DEF EvenQuota
<1> QED BY <1>2, <1>3, <1>4, EvenTurns

LEMMA WaitBalance ==
  ASSUME RowsInv, EvenQuota(config), BalanceDualRouteBatch
  PROVE  config' = config /\ pc' = "log_prob" /\ Even(batch', config)
<1>1. config \in Configs /\ BatchOk(batch, config) /\ lens \in [1..Rows(config) -> config.lens]
  BY DEF RowsInv, BalanceDualRouteBatch
<1>2. ASSUME NEW k \in DOMAIN Routes PROVE QuotaDivides(Routes[k])
  <2>1. DOMAIN batch = 1..Rows(config) /\ Rows(config) \in Nat
    BY <1>1, ConfigFacts DEF BatchOk, BatchShape
  <2>2. Len(RowsOfRoute(batch, Routes[k])) = Cardinality(RouteSet(batch, Routes[k]))
    BY <2>1, RouteListed
  <2>3. Routes[k] = "clean" \/ Routes[k] = "masked"
    BY TwoRoutes
  <2>4. \/ Cardinality(RouteSet(batch, Routes[k])) = config.prompts * config.clean
        \/ Cardinality(RouteSet(batch, Routes[k])) = config.prompts * config.masked
    BY <1>1, <2>3 DEF BatchOk
  <2> QED BY <2>2, <2>4 DEF QuotaDivides, EvenQuota
<1>3. config' = config /\ pc' = "log_prob" /\ batch' = Select(batch, FlattenSeq(Deal))
  BY <1>2 DEF BalanceDualRouteBatch, Deal
<1> QED BY <1>1, <1>2, <1>3, EvenBalance

LEMMA EvenSame ==
  ASSUME NEW c \in Configs, NEW b, BatchOk(b, c), NEW v, SameRows(v, b), Even(b, c)
  PROVE  Even(v, c)
<1>1. BatchOk(v, c) /\ DOMAIN b = 1..Rows(c)
  BY SameRowsOk DEF BatchOk, BatchShape
<1>2. ASSUME NEW r \in 1..c.world, NEW x \in Range(Routes)
      PROVE  Len(OrdersOf(v, c, r, x)) = Len(OrdersOf(b, c, r, x))
  <2> DEFINE s == Chunk(v, c.world, r)
             t == Chunk(b, c.world, r)
             q == Quota(c)
  <2>1. DOMAIN s = 1..q /\ \A i \in 1..q : s[i] = v[Place(q, r, i)]
    BY <1>1, ActorShardIs
  <2>2. DOMAIN t = 1..q /\ \A i \in 1..q : t[i] = b[Place(q, r, i)] /\ Place(q, r, i) \in 1..Rows(c)
    BY ActorShardIs
  <2>3. Len(OrdersOf(v, c, r, x)) = Cardinality(RouteSet(s, x))
    BY <1>1, OrdersOfIs
  <2>4. Len(OrdersOf(b, c, r, x)) = Cardinality(RouteSet(t, x))
    BY OrdersOfIs
  <2> HIDE DEF s, t, q
  <2>5. \A i \in 1..q : s[i].out = t[i].out
    BY <1>1, <2>1, <2>2 DEF SameRows
  <2>6. RouteSet(s, x) = RouteSet(t, x)
    BY <2>1, <2>2, <2>5 DEF RouteSet
  <2> QED BY <2>3, <2>4, <2>6
<1> QED BY <1>2 DEF Even

LEMMA WaitReduce ==
  ASSUME RowsInv, CallInv, ScoreInv, pc \in Idle \cup Calls, Reduce
  PROVE  UNCHANGED <<config, pc, batch>> /\ pc \notin Calls
<1>1. pc = "run_refresh" /\ Lists(FlattenSeq(pending), CleanOrders)
  BY ReducedLists DEF Reduce
<1>2. FlattenSeq(pending) # <<>>
  <2>1. PICK o : o \in CleanOrders
    BY CleanRows
  <2>2. \E i \in DOMAIN FlattenSeq(pending) : FlattenSeq(pending)[i] = o
    BY <1>1, <2>1 DEF Lists
  <2>3. DOMAIN <<>> = {}
    OBVIOUS
  <2> QED BY <2>2, <2>3
<1> QED BY <1>1, <1>2 DEF Reduce, Reduced, Calls

LEMMA WaitInvInit == Init => WaitInv
BY DEF Init, WaitInv, Idle, Calls

LEMMA WaitInvNext == RowsInv /\ CallInv /\ ScoreInv /\ WaitInv /\ [Next]_vars => WaitInv'
<1> SUFFICES ASSUME RowsInv, CallInv, ScoreInv, WaitInv, [Next]_vars, EvenQuota(config')
             PROVE  /\ pc' \in Idle \cup Calls
                    /\ pc' \notin {"generate", "balance"} => Even(batch', config')
                    /\ pc' \in Calls => OneShape' /\ AllCounted'
  BY DEF WaitInv
<1>0. config' = config => /\ pc \in Idle \cup Calls
                          /\ pc \notin {"generate", "balance"} => Even(batch, config)
                          /\ pc \in Calls => OneShape /\ AllCounted
  BY DEF WaitInv
<1>1. CASE GenerateDual
  <2>1. config' = config
    BY <1>1 DEF GenerateDual, Fail
  <2> QED BY <1>1, <2>1, WaitGenerate DEF Idle, Calls
<1>2. CASE BalanceDualRouteBatch
  <2>1. config' = config
    BY <1>2 DEF BalanceDualRouteBatch, Fail
  <2> QED BY <1>2, <2>1, WaitBalance DEF Idle, Calls
<1>3. CASE DispatchLogProb \/ DispatchUpdate
  <2>1. /\ config' = config /\ batch' = batch /\ pc \in {"log_prob", "update"}
        /\ pc' \in {"run_log_prob", "run_update"}
    <3>1. CASE DispatchLogProb
      BY <3>1 DEF DispatchLogProb, Dispatch
    <3>2. CASE DispatchUpdate
      BY <3>2 DEF DispatchUpdate, Dispatch
    <3> QED BY <1>3, <3>1, <3>2
  <2>2. Even(batch, config)
    BY <1>0, <2>1
  <2>3. OneShape' /\ AllCounted'
    BY <1>3, <2>2, DispatchShape
  <2> QED BY <2>1, <2>2, <2>3 DEF Calls
<1>4. CASE AgreeOnCount
  <2>1. config' = config /\ pc \notin Idle
    BY <1>4, InCall DEF AgreeOnCount, Fail
  <2>2. pc \in Calls /\ Even(batch, config) /\ OneShape /\ AllCounted
    BY <1>0, <2>1 DEF Idle
  <2>3. OneShape' /\ AllCounted' /\ pc' = pc /\ config' = config /\ batch' = batch
    BY <1>4, <2>2, AgreeShape
  <2> QED BY <2>2, <2>3
<1>5. CASE Forward \/ OptimizerStep
  <2>1. UNCHANGED <<config, pc, batch>> /\ pc \notin Idle
    BY <1>5, InCall DEF Forward, OptimizerStep
  <2>2. pc \in Calls /\ Even(batch, config) /\ OneShape /\ AllCounted
    BY <1>0, <2>1 DEF Idle
  <2>3. OneShape' /\ AllCounted'
    BY <1>5, <2>2, TailsShape
  <2> QED BY <2>1, <2>2, <2>3
<1>6. CASE CollectLogProb
  <2>1. config' = config /\ pc = "run_log_prob" /\ pc' = "update"
    BY <1>6 DEF CollectLogProb
  <2>2. Even(batch, config) /\ config \in Configs /\ BatchOk(batch, config) /\ SameRows(batch', batch)
    BY <1>0, <1>6, <2>1, CollectKeeps DEF RowsInv
  <2>3. Even(batch', config)
    BY <2>2, EvenSame
  <2> QED BY <2>1, <2>3 DEF Idle, Calls
<1>7. CASE DispatchRefresh
  BY <1>0, <1>7 DEF DispatchRefresh, Idle, Calls
<1>8. CASE Reduce
  <2>1. config' = config
    BY <1>8 DEF Reduce, Fail
  <2>2. UNCHANGED <<config, pc, batch>> /\ pc \notin Calls
    BY <1>0, <1>8, <2>1, WaitReduce
  <2> QED BY <1>0, <2>2
<1>9. CASE EndRefresh
  BY <1>0, <1>9 DEF EndRefresh, Idle, Calls
<1>10. CASE UNCHANGED vars
  <2>1. UNCHANGED <<config, pc, batch, prog>>
    BY <1>10 DEF vars
  <2> QED BY <1>0, <2>1 DEF OneShape, AllCounted
<1> QED
  BY <1>1, <1>2, <1>3, <1>4, <1>5, <1>6, <1>7, <1>8, <1>9, <1>10 DEF Next, Step, Stop

-----------------------------------------------------------------------------
\* The head of a program is a collective the ranks can complete.
LEMMA HeadIsCollective ==
  ASSUME RowsInv, CallInv, pc \in Calls, AllCounted, NEW r \in 1..config.world, prog[r] # <<>>
  PROVE  Head(prog[r]).op \in {"count", "forward", "step"}
<1> DEFINE h == Head(prog[r])
<1>1. h \in OpsOf(shard[r], config.dynamic) /\ h \in AllOps /\ prog[r] \in Seq(AllOps)
  BY NextOp
<1>2. h.op # "run"
  <2>1. CASE config.dynamic
    <3>1. Counted(prog[r])
      BY <2>1 DEF AllCounted
    <3> QED BY <1>1, <3>1, CountedNext
  <2>2. CASE ~config.dynamic
    BY <1>1, <2>2 DEF OpsOf
  <2> QED BY <2>1, <2>2
<1>3. h.op \in {"count", "run", "step", "forward"}
  BY <1>1 DEF AllOps, CountOp, RunOp, StepOp, ForwardOp
<1> QED BY <1>2, <1>3

LEMMA NobodyWaits ==
  ASSUME RowsInv, CallInv, ScoreInv, WaitInv, EvenQuota(config)
  PROVE  pc # "failed" /\ ~Hung
<1>1. /\ Ranks = 1..config.world /\ 1 \in Ranks /\ config \in Configs /\ pc \in Idle \cup Calls
      /\ pc # "failed"
  BY ConfigFacts DEF RowsInv, WaitInv, Ranks, Idle, Calls
<1>2. CASE pc \in {"generate", "balance", "log_prob", "update", "done"}
  BY <1>1, <1>2 DEF CallInv, Hung, AllReturned
<1>3. CASE pc \in Calls
  <2>1. OneShape /\ AllCounted
    BY <1>3 DEF WaitInv
  <2>2. CASE prog[1] = <<>>
    <3>1. ASSUME NEW r \in Ranks PROVE prog[r] = <<>>
      <4>1. SUFFICES ASSUME prog[r] # <<>> PROVE FALSE
        OBVIOUS
      <4>2. prog[r] \in Seq(AllOps) /\ prog[1] \in Seq(AllOps) /\ SameShape(prog[r], prog[1])
        <5>1. prog[1] \in Seq(AllOps)
          BY <2>2
        <5> QED BY <1>1, <1>3, <2>1, <4>1, <5>1, NextOp DEF OneShape
      <4> QED BY <2>2, <4>1, <4>2, ShapeNext
    <3> QED BY <1>1, <3>1 DEF Hung, AllReturned
  <2>3. CASE prog[1] # <<>>
    <3>1. Head(prog[1]).op \in {"count", "forward", "step"} /\ prog[1] \in Seq(AllOps)
      BY <1>1, <1>3, <2>1, <2>3, HeadIsCollective, NextOp
    <3>2. ASSUME NEW r \in Ranks PROVE prog[r] # <<>> /\ Head(prog[r]).op = Head(prog[1]).op
      <4>1. SameShape(prog[1], prog[r])
        BY <1>1, <2>1 DEF OneShape
      <4>2. prog[r] \in Seq(AllOps)
        <5>1. CASE prog[r] = <<>>
          BY <5>1
        <5>2. CASE prog[r] # <<>>
          BY <1>1, <1>3, <5>2, NextOp
        <5> QED BY <5>1, <5>2
      <4> QED BY <2>3, <3>1, <4>1, <4>2, ShapeNext DEF SameKind
    <3>3. AllAt("count") \/ AllAt("forward") \/ AllAt("step")
      BY <3>1, <3>2 DEF AllAt
    <3> QED BY <1>1, <3>3 DEF Hung
  <2> QED BY <2>2, <2>3
<1>4. CASE pc = "run_refresh"
  <2>1. CASE Scored
    BY <1>1, <2>1 DEF Scored, Hung, AllReturned
  <2>2. CASE ToReduce
    <3>1. Even(batch, config) /\ BatchOk(batch, config) /\ "clean" \in Range(Routes)
      BY <1>4, TwoRoutes DEF WaitInv, RowsInv
    <3>2. ASSUME NEW r \in Ranks PROVE prog[r] # <<>> /\ Head(prog[r]).op = "reduce"
      <4>1. Len(OrdersOf(batch, config, r, "clean")) \in Nat \ {0}
        BY <1>1, <3>1 DEF Even
      <4>2. Lists(OrdersOf(batch, config, r, "clean"), OrderSet(batch, config, r, "clean"))
        BY <1>1, <3>1, OrdersOfIs
      <4>3. Lists(pending[r], OrderSet(batch, config, r, "clean")) /\ (pending[r] # <<>> => prog[r] # <<>>)
        BY <1>1, <2>2 DEF ToReduce
      <4>4. Len(pending[r]) = Len(OrdersOf(batch, config, r, "clean"))
        BY <4>2, <4>3, ListsCard
      <4>5. Len(<<>>) = 0
        OBVIOUS
      <4>6. prog[r] # <<>>
        BY <4>1, <4>3, <4>4, <4>5
      <4>7. prog[r] = <<ReduceOp>>
        BY <1>1, <1>4, <4>6 DEF CallInv
      <4>8. Head(<<ReduceOp>>) = ReduceOp
        OBVIOUS
      <4> QED BY <4>6, <4>7, <4>8 DEF ReduceOp
    <3>3. AllAt("reduce")
      BY <3>2 DEF AllAt
    <3> QED BY <1>1, <3>3 DEF Hung
  <2> QED BY <1>4, <2>1, <2>2 DEF ScoreInv
<1> QED BY <1>1, <1>2, <1>3, <1>4 DEF Idle

\* Whatever the configuration, a step whose routes divide evenly over the ranks refuses
\* nothing (generate_dual finds both routes in a shard, the balancer its quota, rearranging a
\* micro-batch its rows) and leaves no rank waiting at a collective the others do not enter.
THEOREM NoRankLeftWaitingHolds == Spec => []NoRankLeftWaiting
<1>1. Init => WaitInv
  BY WaitInvInit
<1>2. RowsInv /\ CallInv /\ ScoreInv /\ WaitInv /\ [Next]_vars => WaitInv'
  BY WaitInvNext
<1>3. RowsInv /\ CallInv /\ ScoreInv /\ WaitInv => NoRankLeftWaiting
  BY NobodyWaits DEF NoRankLeftWaiting
<1> QED BY <1>1, <1>2, <1>3, RowsInvHolds, CallInvHolds, ScoreInvHolds, PTL DEF Spec

-----------------------------------------------------------------------------
(* The loads of the ranks after balancing.                                    *)

WorkOf(b, l) == [i \in DOMAIN b |-> Workload(l[b[i].out.order])]

\* The work of each generated row, by its rollout order.
WorkTable(l, n) == [z \in 1..n |-> Workload(l[z])]

\* What rank r has of route x, and the work of all rows of the route, in the batch's order.
LoadOf(b, c, l, r, x) ==
  LET o == OrdersOf(b, c, r, x) IN Total([i \in DOMAIN o |-> Workload(l[o[i]])])

WorkOfRoute(b, l, x) == Select(WorkOf(b, l), RowsOfRoute(b, x))

\* What EvenLoad says of a batch, for each pair of ranks.
LoadsEven(b, c, l) ==
  \A x \in Range(Routes) : \A r, q \in 1..c.world :
    LoadOf(b, c, l, r, x) - LoadOf(b, c, l, q, x) <= WidestGroup(WorkOfRoute(b, l, x), c.world)

LoadInv == pc = "log_prob" /\ config.balance => LoadsEven(batch, config, lens)

LEMMA WorkTableIs ==
  ASSUME NEW c \in Configs, NEW l \in [1..Rows(c) -> c.lens]
  PROVE  NatOn(WorkTable(l, Rows(c)), 1..Rows(c))
<1>1. ASSUME NEW z \in 1..Rows(c) PROVE WorkTable(l, Rows(c))[z] \in Nat
  <2>1. l[z] \in Nat
    BY ConfigFacts
  <2>2. WorkTable(l, Rows(c))[z] = Workload(l[z])
    BY DEF WorkTable
  <2> QED BY <2>1, <2>2, WorkloadNat
<1> QED BY <1>1 DEF NatOn

LEMMA LoadIs ==
  ASSUME NEW c \in Configs, NEW b, BatchOk(b, c), NEW l \in [1..Rows(c) -> c.lens],
         NEW r \in 1..c.world, NEW x
  PROVE  LoadOf(b, c, l, r, x) = Sum(WorkTable(l, Rows(c)), OrderSet(b, c, r, x))
<1> DEFINE n == Rows(c)
           o == OrdersOf(b, c, r, x)
           O == OrderSet(b, c, r, x)
           W == WorkTable(l, n)
           u == [i \in DOMAIN o |-> Workload(l[o[i]])]
<1>1. o \in Seq(1..n) /\ Lists(o, O)
  BY OrdersOfIs
<1>2. NatOn(W, 1..n) /\ \A z \in 1..n : W[z] = Workload(l[z])
  BY WorkTableIs DEF WorkTable
<1>3. LoadOf(b, c, l, r, x) = Total(u)
  BY DEF LoadOf
<1> HIDE DEF o, O, n, W
<1>4. DOMAIN o = 1..Len(o) /\ Len(o) \in Nat /\ (\A i \in DOMAIN o : o[i] \in 1..n) /\ IsFiniteSet(DOMAIN o)
  <2>1. DOMAIN o = 1..Len(o) /\ Len(o) \in Nat /\ \A i \in DOMAIN o : o[i] \in 1..n
    BY <1>1, SeqElements
  <2>2. Len(o) \in Int /\ 1 \in Int
    BY <2>1
  <2>3. IsFiniteSet(1..Len(o))
    BY <2>2, FS_Interval
  <2> QED BY <2>1, <2>3
<1>5. \A i \in DOMAIN o : u[i] = W[o[i]] /\ W[o[i]] \in Nat /\ W[o[i]] \in Int
  BY <1>2, <1>4 DEF NatOn
<1>6. DOMAIN u = DOMAIN o
  OBVIOUS
<1> HIDE DEF u
<1>7. Total(u) = Sum(u, DOMAIN o)
  BY <1>6, TotalIsSum
<1>8. OneToOne(o, DOMAIN o) /\ IntOn(u, DOMAIN o)
  <2>1. \A i, j \in DOMAIN o : o[i] = o[j] => i = j
    BY <1>1 DEF Lists
  <2> QED BY <1>5, <2>1 DEF OneToOne, IntOn
<1>9. Sum(u, DOMAIN o) = Sum(W, ElementsAt(o, DOMAIN o))
  <2> DEFINE A == DOMAIN o
  <2>1. IsFiniteSet(A) /\ OneToOne(o, A) /\ IntOn(u, A) /\ \A i \in A : u[i] = W[o[i]]
    BY <1>4, <1>5, <1>8
  <2> HIDE DEF A
  <2>2. Sum(u, A) = Sum(W, ElementsAt(o, A))
    BY <2>1, SumImage
  <2> QED BY <2>2 DEF A
<1>10. ElementsAt(o, DOMAIN o) = O
  <2>1. \A i \in DOMAIN o : o[i] \in O
    BY <1>1, SeqElements DEF Lists
  <2>2. \A z \in O : \E i \in DOMAIN o : o[i] = z
    BY <1>1 DEF Lists
  <2> QED BY <2>1, <2>2 DEF ElementsAt
<1> QED BY <1>3, <1>7, <1>9, <1>10 DEF O, W, n

\* Weights read off a listing of a route's rows.
ReadsOff(w, s, O, W, m) ==
  Weights(w, m) /\ Len(w) = m /\ Lists(s, O) /\ Len(s) = m /\ Agree(w, [i \in 1..m |-> W[s[i]]], 1..m)

RouteOrders(b, x) == {b[j].out.order : j \in RouteSet(b, x)}

LEMMA WorkOfRouteIs ==
  ASSUME NEW c \in Configs, NEW b, BatchOk(b, c), NEW l \in [1..Rows(c) -> c.lens], NEW x \in Range(Routes)
  PROVE  LET m == Cardinality(RouteSet(b, x))
         IN  /\ m \in Nat \ {0} /\ m = Len(RowsOfRoute(b, x))
             /\ ReadsOff(WorkOfRoute(b, l, x), Select(Orders(b), RowsOfRoute(b, x)), RouteOrders(b, x),
                         WorkTable(l, Rows(c)), m)
<1> DEFINE n == Rows(c)
           m == Cardinality(RouteSet(b, x))
           idx == RowsOfRoute(b, x)
           R == RouteSet(b, x)
           o == Orders(b)
           s == Select(o, idx)
           w == WorkOfRoute(b, l, x)
           W == WorkTable(l, n)
<1>1. n \in Nat /\ DOMAIN b = 1..n /\ Lists(o, 1..n) /\ DOMAIN o = 1..n /\ \A i \in 1..n : o[i] = b[i].out.order
  BY ConfigFacts DEF BatchOk, BatchShape, Orders
<1>2. /\ R \in SUBSET (1..n) /\ Lists(idx, R) /\ DOMAIN idx = 1..m /\ Len(idx) = m
      /\ \A i \in 1..m : idx[i] \in R
  BY <1>1, RouteListed
<1>3. m \in Nat \ {0}
  BY RouteCount
<1>4. NatOn(W, 1..n) /\ \A z \in 1..n : W[z] = Workload(l[z])
  BY WorkTableIs DEF WorkTable
<1>5. RouteOrders(b, x) = {b[j].out.order : j \in R}
  BY DEF RouteOrders
<1>6. w = [i \in DOMAIN idx |-> WorkOf(b, l)[idx[i]]]
  BY DEF WorkOfRoute, Select
<1>7. \A i \in 1..n : WorkOf(b, l)[i] = Workload(l[b[i].out.order])
  BY <1>1 DEF WorkOf
<1> HIDE DEF n, m, idx, R, o, w, W
<1>8. \A i \in 1..n : o[i] \in 1..n
  BY <1>1, SeqElements DEF Lists
<1>9. Into(o, R, 1..n) /\ OneToOne(o, R)
  BY <1>1, <1>2, <1>8 DEF Into, OneToOne, Lists
<1>10. ElementsAt(o, R) = RouteOrders(b, x)
  BY <1>1, <1>2, <1>5 DEF ElementsAt
<1>11. /\ Lists(s, RouteOrders(b, x)) /\ Len(s) = m
       /\ \A i \in 1..m : s[i] = o[idx[i]]
  BY <1>2, <1>9, <1>10, SelectLists
<1> HIDE DEF s
<1>12. ASSUME NEW i \in 1..m PROVE w[i] = W[s[i]] /\ w[i] \in Nat
  <2>1. idx[i] \in 1..n
    BY <1>2
  <2>2. s[i] = o[idx[i]] /\ o[idx[i]] = b[idx[i]].out.order /\ o[idx[i]] \in 1..n
    BY <1>1, <1>8, <1>11, <2>1
  <2>3. w[i] = Workload(l[b[idx[i]].out.order])
    BY <1>2, <1>6, <1>7, <2>1
  <2>4. W[s[i]] = Workload(l[s[i]]) /\ W[s[i]] \in Nat
    BY <1>4, <2>2 DEF NatOn
  <2> QED BY <2>2, <2>3, <2>4
<1>13. Weights(w, m) /\ Len(w) = m
  <2>1. DOMAIN w = 1..m /\ w = [i \in 1..m |-> w[i]]
    BY <1>2, <1>6
  <2>2. w \in [1..m -> Nat]
    BY <1>12, <2>1
  <2>3. Len(w) = m
    BY <1>3, <2>2
  <2> QED BY <1>3, <1>12, <2>1, <2>3 DEF Weights, NatOn
<1>14. Agree(w, [i \in 1..m |-> W[s[i]]], 1..m)
  BY <1>12 DEF Agree
<1>15. ReadsOff(w, s, RouteOrders(b, x), W, m)
  BY <1>11, <1>13, <1>14 DEF ReadsOff
<1> QED BY <1>2, <1>3, <1>15 DEF m, w, s, W, n, o, idx

LEMMA ReadsAlike ==
  ASSUME NEW v, NEW s, NEW w, NEW p, NEW O, NEW W, NEW m, ReadsOff(v, s, O, W, m), ReadsOff(w, p, O, W, m)
  PROVE  Weights(v, m) /\ Weights(w, m) /\ Len(v) = m /\ Len(w) = m /\ Alike(v, w, m)
<1>1. /\ Lists(s, O) /\ Len(s) = m /\ Agree(v, [i \in 1..m |-> W[s[i]]], 1..m)
      /\ Lists(p, O) /\ Len(p) = m /\ Agree(w, [i \in 1..m |-> W[p[i]]], 1..m)
  BY DEF ReadsOff
<1>2. Alike(v, w, m)
  BY <1>1, ListingsAlike
<1> QED BY <1>2 DEF ReadsOff

LEMMA SameRouteOrders ==
  ASSUME NEW c \in Configs, NEW b, BatchOk(b, c), NEW F, Lists(F, 1..Rows(c)), NEW x
  PROVE  RouteOrders(Select(b, F), x) = RouteOrders(b, x)
<1> DEFINE n == Rows(c)
           v == Select(b, F)
<1>1. n \in Nat /\ DOMAIN b = 1..n
  BY ConfigFacts DEF BatchOk, BatchShape
<1>2. /\ DOMAIN F = 1..n /\ \A i \in 1..n : F[i] \in 1..n
      /\ \A j \in 1..n : \E i \in 1..n : F[i] = j
  <2>1. DOMAIN F = 1..n
    <3>1. DOMAIN F = 1..Len(F) /\ Len(F) = Cardinality(1..n)
      BY ListsCard
    <3>2. n \in Int /\ 1 \in Int
      BY <1>1
    <3>3. Cardinality(1..n) = IF 1 > n THEN 0 ELSE n - 1 + 1
      BY <3>2, FS_Interval
    <3> HIDE DEF n
    <3>4. Cardinality(1..n) = n
      BY <1>1, <3>3
    <3> QED BY <3>1, <3>4
  <2>2. \A i \in DOMAIN F : F[i] \in 1..n
    BY SeqElements DEF Lists
  <2> HIDE DEF n
  <2> QED BY <2>1, <2>2 DEF Lists, n
<1>3. DOMAIN v = 1..n /\ \A i \in 1..n : v[i] = b[F[i]]
  BY <1>2 DEF Select
<1> HIDE DEF v, n
<1>4. \A i \in 1..n : i \in RouteSet(v, x) <=> F[i] \in RouteSet(b, x)
  BY <1>1, <1>2, <1>3 DEF RouteSet
<1>5. RouteSet(v, x) \in SUBSET (1..n) /\ RouteSet(b, x) \in SUBSET (1..n)
  BY <1>1, <1>3 DEF RouteSet
<1>6. ASSUME NEW z \in RouteOrders(v, x) PROVE z \in RouteOrders(b, x)
  <2>1. PICK i \in RouteSet(v, x) : z = v[i].out.order
    BY DEF RouteOrders
  <2>2. F[i] \in RouteSet(b, x) /\ v[i] = b[F[i]]
    BY <1>3, <1>4, <1>5, <2>1
  <2> QED BY <2>1, <2>2 DEF RouteOrders
<1>7. ASSUME NEW z \in RouteOrders(b, x) PROVE z \in RouteOrders(v, x)
  <2>1. PICK j \in RouteSet(b, x) : z = b[j].out.order
    BY DEF RouteOrders
  <2>2. PICK i \in 1..n : F[i] = j
    BY <1>2, <1>5, <2>1
  <2>3. i \in RouteSet(v, x) /\ v[i] = b[j]
    BY <1>3, <1>4, <2>1, <2>2
  <2> QED BY <2>1, <2>3 DEF RouteOrders
<1>8. RouteOrders(v, x) = RouteOrders(b, x)
  BY <1>6, <1>7
<1> QED BY <1>8 DEF v

LEMMA DealtLoad ==
  ASSUME config \in Configs, BatchOk(batch, config), lens \in [1..Rows(config) -> config.lens],
         \A k \in DOMAIN Routes : QuotaDivides(Routes[k]), NEW r \in 1..config.world, NEW x \in Range(Routes)
  PROVE  LoadOf(Select(batch, FlattenSeq(Deal)), config, lens, r, x)
           = Sum(RowWork, Range(RoutePartition(x)[r]))
<1> DEFINE n == Rows(config)
           b == Select(batch, FlattenSeq(Deal))
           W == WorkTable(lens, n)
           o == Orders(batch)
           v == RowWork
           P == Range(RoutePartition(x)[r])
<1>1. BatchOk(b, config)
  BY DealIs, PermutedBatchOk
<1>2. LoadOf(b, config, lens, r, x) = Sum(W, OrderSet(b, config, r, x))
  <2> HIDE DEF b
  <2> QED BY <1>1, LoadIs
<1>3. OrderSet(b, config, r, x) = {batch[j].out.order : j \in P}
  BY DealtOrders
<1>4. Lists(o, 1..n) /\ DOMAIN o = 1..n /\ \A i \in 1..n : o[i] = batch[i].out.order
  BY DEF BatchOk, BatchShape, Orders
<1>5. PICK sizes : DealtAre(config, sizes)
  BY DealtSizes
<1>6. P \in SUBSET RouteSet(batch, x) /\ RouteSet(batch, x) \in SUBSET (1..n)
  <2>1. DOMAIN batch = 1..n
    BY DEF BatchOk, BatchShape
  <2> QED BY <1>5, <2>1 DEF DealtAre, RouteSet
<1>7. IsFiniteSet(P)
  <2>1. n \in Int /\ 1 \in Int
    BY ConfigFacts
  <2>2. IsFiniteSet(1..n)
    BY <2>1, FS_Interval
  <2>3. P \in SUBSET (1..n)
    BY <1>6
  <2> HIDE DEF P, n
  <2> QED BY <2>2, <2>3, FS_Subset
<1>8. NatOn(v, 1..n) /\ \A i \in 1..n : batch[i].out.order \in 1..n /\ v[i] = Workload(lens[batch[i].out.order])
  BY RowWorkIs
<1>9. \A z \in 1..n : W[z] = Workload(lens[z])
  BY DEF WorkTable
<1> HIDE DEF n, b, W, o, v, P
<1>10. /\ OneToOne(o, P) /\ IntOn(v, P)
       /\ \A i \in P : v[i] = W[o[i]]
  <2>1. \A i \in P : i \in 1..n
    BY <1>6
  <2>2. \A i \in P : v[i] \in Nat
    BY <1>8, <2>1 DEF NatOn
  <2>3. \A i \in P : v[i] \in Int
    BY <2>2
  <2>4. \A i \in P : v[i] = W[o[i]]
    BY <1>4, <1>8, <1>9, <2>1
  <2> QED BY <1>4, <2>1, <2>3, <2>4 DEF OneToOne, IntOn, Lists
<1>11. Sum(v, P) = Sum(W, ElementsAt(o, P))
  BY <1>7, <1>10, SumImage
<1>12. ElementsAt(o, P) = {batch[j].out.order : j \in P}
  BY <1>4, <1>6 DEF ElementsAt
<1> QED BY <1>2, <1>3, <1>11, <1>12 DEF b, v, P

LEMMA DealtLoads ==
  ASSUME config \in Configs, BatchOk(batch, config), lens \in [1..Rows(config) -> config.lens],
         \A k \in DOMAIN Routes : QuotaDivides(Routes[k])
  PROVE  LoadsEven(Select(batch, FlattenSeq(Deal)), config, lens)
<1> DEFINE n == Rows(config)
           k == config.world
           b == Select(batch, FlattenSeq(Deal))
           W == WorkTable(lens, n)
<1>1. Lists(FlattenSeq(Deal), 1..n) /\ BatchOk(b, config) /\ k \in Nat \ {0}
  BY DealIs, PermutedBatchOk, ConfigFacts
<1>2. ASSUME NEW x \in Range(Routes)
      PROVE  \A r, q \in 1..k : LoadOf(b, config, lens, r, x) - LoadOf(b, config, lens, q, x)
                                  <= WidestGroup(WorkOfRoute(b, lens, x), k)
  <2> DEFINE m == Cardinality(RouteSet(batch, x))
             v == WorkOfRoute(b, lens, x)
             w == WorkOfRoute(batch, lens, x)
             s == Select(Orders(b), RowsOfRoute(b, x))
             p == Select(Orders(batch), RowsOfRoute(batch, x))
             O == RouteOrders(batch, x)
             d == WidestGroup(v, k)
             f == RoutePartition(x)
  <2>1. QuotaDivides(x)
    BY TwoRoutes
  <2>2. m \in Nat \ {0} /\ m = Len(RowsOfRoute(batch, x)) /\ ReadsOff(w, p, O, W, m)
    BY WorkOfRouteIs
  <2>3. ReadsOff(v, s, O, W, m)
    <3>1. Cardinality(RouteSet(b, x)) = m
      <4>1. x = "clean" \/ x = "masked"
        BY TwoRoutes
      <4> HIDE DEF b
      <4> QED BY <1>1, <4>1 DEF BatchOk
    <3>2. RouteOrders(b, x) = O
      BY <1>1, SameRouteOrders
    <3> HIDE DEF b, m, O
    <3> QED BY <1>1, <3>1, <3>2, WorkOfRouteIs
  <2>4. w = RouteWork(x)
    BY DEF WorkOfRoute, RouteWork, RowWork, WorkOf
  <2> HIDE DEF b, W, s, p, O, v, w
  <2>5. Weights(v, m) /\ Weights(w, m) /\ Len(v) = m /\ Len(w) = m /\ Alike(v, w, m)
    BY <2>2, <2>3, ReadsAlike
  <2>6. PICK q \in Nat \ {0} : m = k * q
    <3>1. m % k = 0
      BY <2>1, <2>2 DEF QuotaDivides
    <3> HIDE DEF m, k
    <3> QED BY <1>1, <2>2, <3>1, ExactShares
  <2>7. d \in Nat /\ Within(InitialStates(w, k, TRUE), k, d)
    <3> HIDE DEF m, k
    <3> QED BY <1>1, <2>5, <2>6, WidestOfAlike
  <2>8. DealtLevel(f, k, x)
    BY <2>1, RoutePartitionIs
  <2>9. \A r \in 1..k : LoadOf(b, config, lens, r, x) = Sum(RowWork, Range(f[r]))
    BY DealtLoad DEF b
  <2> HIDE DEF d, f, k
  <2>10. \A r, q_1 \in 1..k : Sum(RowWork, Range(f[r])) - Sum(RowWork, Range(f[q_1])) <= d
    <3>1. d \in Int
      BY <2>7
    <3>2. Within(InitialStates(RouteWork(x), k, TRUE), k, d)
      <4> DEFINE u == RouteWork(x)
      <4>1. w = u
        BY <2>4
      <4> HIDE DEF u
      <4>2. Within(InitialStates(u, k, TRUE), k, d)
        BY <2>7, <4>1
      <4> QED BY <4>2 DEF u
    <3> QED BY <2>8, <3>1, <3>2 DEF DealtLevel
  <2>11. \A r, q_1 \in 1..k : LoadOf(b, config, lens, r, x) - LoadOf(b, config, lens, q_1, x) <= d
    BY <2>9, <2>10
  <2> QED BY <2>11 DEF d, v
<1> QED BY <1>2 DEF LoadsEven

LEMMA LoadInvNext == RowsInv /\ CallInv /\ ScoreInv /\ LoadInv /\ [Next]_vars => LoadInv'
<1> SUFFICES ASSUME RowsInv, CallInv, ScoreInv, LoadInv, [Next]_vars, pc' = "log_prob", config'.balance
             PROVE  LoadsEven(batch', config', lens')
  BY DEF LoadInv
<1>1. CASE GenerateDual
  <2>1. config' = config /\ (pc' = "failed" \/ pc' = IF config.balance THEN "balance" ELSE "log_prob")
    BY <1>1 DEF GenerateDual, Fail
  <2> QED BY <2>1
<1>2. CASE BalanceDualRouteBatch
  <2>1. \A k \in DOMAIN Routes : QuotaDivides(Routes[k])
    BY <1>2 DEF BalanceDualRouteBatch, Fail
  <2>2. batch' = Select(batch, FlattenSeq(Deal)) /\ config' = config /\ lens' = lens
    BY <1>2, <2>1 DEF BalanceDualRouteBatch, Deal
  <2>3. config \in Configs /\ BatchOk(batch, config) /\ lens \in [1..Rows(config) -> config.lens]
    BY <1>2 DEF RowsInv, BalanceDualRouteBatch
  <2>4. LoadsEven(Select(batch, FlattenSeq(Deal)), config, lens)
    BY <2>1, <2>3, DealtLoads
  <2> QED BY <2>2, <2>4
<1>3. CASE DispatchLogProb \/ DispatchUpdate
  BY <1>3 DEF DispatchLogProb, DispatchUpdate, Dispatch
<1>4. CASE AgreeOnCount
  <2>1. pc \notin Idle /\ (pc' = pc \/ pc' = "failed")
    BY <1>4, InCall DEF AgreeOnCount, Fail
  <2> QED BY <2>1 DEF Idle
<1>5. CASE Forward \/ OptimizerStep
  <2>1. pc \notin Idle /\ pc' = pc
    BY <1>5, InCall DEF Forward, OptimizerStep
  <2> QED BY <2>1 DEF Idle
<1>6. CASE CollectLogProb
  BY <1>6 DEF CollectLogProb
<1>7. CASE DispatchRefresh
  BY <1>7 DEF DispatchRefresh
<1>8. CASE Reduce
  <2>1. (pc \in Idle => pc = "run_refresh") /\ (pc' = pc \/ pc' = "failed")
    BY <1>8, ReducedLists DEF Reduce, Fail
  <2> QED BY <2>1 DEF Idle
<1>9. CASE EndRefresh
  BY <1>9 DEF EndRefresh
<1>10. CASE UNCHANGED vars
  BY <1>10 DEF vars, LoadInv
<1> QED
  BY <1>1, <1>2, <1>3, <1>4, <1>5, <1>6, <1>7, <1>8, <1>9, <1>10 DEF Next, Step, Stop

LEMMA LoadThen == LoadInv => EvenLoad
<1> SUFFICES ASSUME LoadInv, pc = "log_prob", config.balance, NEW k \in DOMAIN Routes
             PROVE  LET work  == Select(RowWork, RowsOfRoute(batch, Routes[k]))
                        loads == {RankLoad(r, Routes[k]) : r \in Ranks}
                        bound == WidestGroup(work, config.world)
                    IN  \A a, b \in loads : a - b <= bound
  BY DEF EvenLoad
<1> DEFINE x == Routes[k]
           work == Select(RowWork, RowsOfRoute(batch, x))
<1>1. x \in Range(Routes) /\ Ranks = 1..config.world
  BY DEF Range, Ranks
<1>2. work = WorkOfRoute(batch, lens, x)
  BY DEF WorkOfRoute, WorkOf, RowWork
<1>3. ASSUME NEW r \in 1..config.world PROVE RankLoad(r, x) = LoadOf(batch, config, lens, r, x)
  <2> DEFINE o == OrdersOf(batch, config, r, x)
             l == LensOf(o)
  <2>1. RouteBatch(r, x) = o
    BY DEF RouteBatch, ActorShard, OrdersOf
  <2> HIDE DEF o
  <2>2. RankLoad(r, x) = Total([i \in DOMAIN l |-> Workload(l[i])])
    BY <2>1 DEF RankLoad
  <2>3. [i \in DOMAIN l |-> Workload(l[i])] = [i \in DOMAIN o |-> Workload(lens[o[i]])]
    BY DEF LensOf
  <2>4. LoadOf(batch, config, lens, r, x) = Total([i \in DOMAIN o |-> Workload(lens[o[i]])])
    BY DEF LoadOf, o
  <2> QED BY <2>2, <2>3, <2>4
<1>4. \A r, q \in 1..config.world :
        LoadOf(batch, config, lens, r, x) - LoadOf(batch, config, lens, q, x)
          <= WidestGroup(WorkOfRoute(batch, lens, x), config.world)
  BY <1>1 DEF LoadInv, LoadsEven
<1> HIDE DEF x, work
<1>5. \A r, q \in 1..config.world : RankLoad(r, x) - RankLoad(q, x) <= WidestGroup(work, config.world)
  BY <1>2, <1>3, <1>4
<1>6. \A a, b \in {RankLoad(r, x) : r \in Ranks} : a - b <= WidestGroup(work, config.world)
  BY <1>1, <1>5
<1> QED BY <1>6 DEF x, work

\* For every number of ranks and whatever the lengths of the rows, the loads that
\* balance_dual_route_batch leaves the ranks with differ, on each route, by no more than the
\* widest group of neighbours in weight that the differencing method starts from.
THEOREM EvenLoadHolds == Spec => []EvenLoad
<1>1. Init => LoadInv
  BY DEF Init, LoadInv
<1>2. RowsInv /\ CallInv /\ ScoreInv /\ LoadInv /\ [Next]_vars => LoadInv'
  BY LoadInvNext
<1> QED BY <1>1, <1>2, LoadThen, RowsInvHolds, CallInvHolds, ScoreInvHolds, PTL DEF Spec

=============================================================================

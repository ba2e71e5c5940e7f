------------------------ MODULE SeqlenBalance_proofs ------------------------
(* Proofs about SeqlenBalance, for rows of any number and any weights: what   *)
(* the differencing partition and the micro-batches built on it are, with the *)
(* lemmas on listings, joined sequences, sums and sorting that they and the   *)
(* proofs about RouteSharding rest on.                                        *)
EXTENDS SeqlenBalance, FiniteSetTheorems, SequenceTheorems, WellFoundedInduction, TLAPS

\* Induction over the naturals, about a set.
LEMMA SetInduction ==
  ASSUME NEW S, 0 \in S, \A n \in Nat : n \in S => n + 1 \in S
  PROVE  \A n \in Nat : n \in S
<1> DEFINE R == OpToRel(<, Nat)
<1>1. IsWellFoundedOn(R, Nat)
  BY NatLessThanWellFounded, Zenon
<1>2. \A n \in Nat : <<n, n + 1>> \in R
  BY DEF OpToRel
<1> HIDE DEF R
<1> SUFFICES ASSUME Nat \ S # {} PROVE FALSE
  OBVIOUS
<1>3. PICK m \in Nat \ S : \A k \in Nat \ S : ~(<<k, m>> \in R)
  BY <1>1, WFMin
<1>4. m # 0 /\ m - 1 \in Nat
  OBVIOUS
<1>5. m - 1 \notin S
  BY <1>4
<1>6. <<m - 1, m>> \in R
  BY <1>2, <1>4
<1> QED BY <1>3, <1>4, <1>5, <1>6

-----------------------------------------------------------------------------
(* Flattening: the prefixes f[1], f[1] \o f[2], ... of a sequence of          *)
(* sequences.                                                                 *)

FlatPrefixes(g, f, n) ==
  g = [i \in 1..n |-> IF i = 1 THEN f[1] ELSE g[i - 1] \o f[i]]

LEMMA FlattenIsPrefix ==
  ASSUME NEW f, Len(f) # 0
  PROVE  FlattenSeq(f) = (CHOOSE g : FlatPrefixes(g, f, Len(f)))[Len(f)]
BY DEF FlattenSeq, FlatPrefixes

LEMMA PrefixesExist ==
  ASSUME NEW f, NEW n \in Nat
  PROVE  \E g : FlatPrefixes(g, f, n)
<1> DEFINE Good == {k \in Nat : \E g : FlatPrefixes(g, f, k)}
<1>1. 0 \in Good
  <2>1. \E g : g = [i \in 1..0 |-> f[1]]
    OBVIOUS
  <2>2. PICK g : g = [i \in 1..0 |-> f[1]]
    BY <2>1
  <2>3. FlatPrefixes(g, f, 0)
    BY <2>2 DEF FlatPrefixes
  <2> QED BY <2>3
<1>2. ASSUME NEW k \in Nat, k \in Good
      PROVE  k + 1 \in Good
  <2>1. PICK g : FlatPrefixes(g, f, k)
    BY <1>2
  <2> DEFINE last == IF k = 0 THEN f[1] ELSE g[k] \o f[k + 1]
             more == [i \in 1..(k + 1) |-> IF i = k + 1 THEN last ELSE g[i]]
  <2>2. \A i \in 1..k : g[i] = IF i = 1 THEN f[1] ELSE g[i - 1] \o f[i]
    BY <2>1 DEF FlatPrefixes
  <2>3. ASSUME NEW i \in 1..(k + 1)
        PROVE  more[i] = IF i = 1 THEN f[1] ELSE more[i - 1] \o f[i]
    <3>1. CASE i = k + 1
      <4>1. more[i] = last
        BY <3>1
      <4>2. i # 1 => more[i - 1] = g[k] /\ k # 0
        BY <3>1
      <4> HIDE DEF more
      <4> QED BY <3>1, <4>1, <4>2
    <3>2. CASE i # k + 1
      <4>1. i \in 1..k /\ more[i] = g[i]
        BY <3>2
      <4>2. i # 1 => i - 1 \in 1..(k + 1) /\ i - 1 # k + 1 /\ more[i - 1] = g[i - 1]
        BY <3>2
      <4> HIDE DEF more
      <4> QED BY <2>2, <4>1, <4>2
    <3> QED BY <3>1, <3>2
  <2>4. FlatPrefixes(more, f, k + 1)
    <3>1. more = [i \in 1..(k + 1) |-> more[i]]
      OBVIOUS
    <3> HIDE DEF more
    <3> QED BY <2>3, <3>1 DEF FlatPrefixes
  <2> QED BY <2>4
<1>3. n \in Good
  <2> HIDE DEF Good
  <2> QED BY <1>1, <1>2, SetInduction
<1> QED BY <1>3

Extends(g, f, i) == g[i] = IF i = 1 THEN f[1] ELSE g[i - 1] \o f[i]

LEMMA PrefixElements ==
  ASSUME NEW f, NEW n \in Nat, NEW g, FlatPrefixes(g, f, n)
  PROVE  \A i \in 1..n : Extends(g, f, i)
BY DEF FlatPrefixes, Extends

LEMMA PrefixesType ==
  ASSUME NEW S, NEW f \in Seq(Seq(S)), NEW g, FlatPrefixes(g, f, Len(f))
  PROVE  \A i \in 1..Len(f) : g[i] \in Seq(S)
<1> DEFINE Good == {k \in Nat : k + 1 \in 1..Len(f) => g[k + 1] \in Seq(S)}
<1>0. Len(f) \in Nat /\ \A i \in 1..Len(f) : f[i] \in Seq(S)
  OBVIOUS
<1>e. \A i \in 1..Len(f) : Extends(g, f, i)
  BY <1>0, PrefixElements
<1>1. 0 \in Good
  <2>1. 1 \in 1..Len(f) => g[1] = f[1]
    BY <1>e DEF Extends
  <2> QED BY <1>0, <2>1
<1>2. ASSUME NEW k \in Nat, k \in Good
      PROVE  k + 1 \in Good
  <2>1. SUFFICES ASSUME k + 2 \in 1..Len(f) PROVE g[k + 2] \in Seq(S)
    BY <1>0
  <2>2. k + 1 \in 1..Len(f) /\ (k + 1) + 1 = k + 2
    BY <1>0, <2>1
  <2>e. Extends(g, f, k + 2)
    BY <1>e, <2>1
  <2>n. k + 2 # 1 /\ (k + 2) - 1 = k + 1
    OBVIOUS
  <2>3. g[k + 2] = g[k + 1] \o f[k + 2]
    BY <2>e, <2>n DEF Extends
  <2>4. g[k + 1] \in Seq(S) /\ f[k + 2] \in Seq(S)
    BY <1>0, <1>2, <2>1, <2>2
  <2> HIDE DEF Good
  <2> QED BY <2>3, <2>4
<1>3. \A k \in Nat : k \in Good
  <2> HIDE DEF Good
  <2> QED BY <1>1, <1>2, SetInduction
<1>4. ASSUME NEW i \in 1..Len(f)
      PROVE  g[i] \in Seq(S)
  <2>1. i - 1 \in Nat /\ (i - 1) + 1 = i
    BY <1>0
  <2>2. i - 1 \in Good
    BY <1>3, <2>1
  <2> QED BY <2>1, <2>2
<1> QED BY <1>4

\* Flattening one more sequence appends it.
LEMMA FlattenAppend ==
  ASSUME NEW S, NEW f \in Seq(Seq(S)), NEW x \in Seq(S)
  PROVE  /\ FlattenSeq(f) \in Seq(S)
         /\ FlattenSeq(Append(f, x)) = FlattenSeq(f) \o x
<1> DEFINE l == Len(f)
           F == Append(f, x)
           g == CHOOSE g : FlatPrefixes(g, f, l)
           G == CHOOSE G : FlatPrefixes(G, F, l + 1)
<1>1. l \in Nat /\ \A i \in 1..l : f[i] \in Seq(S)
  OBVIOUS
<1>2. /\ F \in Seq(Seq(S)) /\ Len(F) = l + 1 /\ F[l + 1] = x
      /\ \A i \in 1..l : F[i] = f[i]
  OBVIOUS
<1>3. FlattenSeq(F) = G[l + 1] /\ (l # 0 => FlattenSeq(f) = g[l])
  <2>1. Len(F) # 0
    BY <1>1, <1>2
  <2> HIDE DEF F
  <2> QED BY <1>2, <2>1, FlattenIsPrefix
<1> HIDE DEF F, l
<1>4. FlatPrefixes(g, f, l) /\ FlatPrefixes(G, F, l + 1)
  <2>1. l + 1 \in Nat
    BY <1>1
  <2> QED BY <1>1, <2>1, PrefixesExist
<1> HIDE DEF g, G
<1>e. (\A i \in 1..l : Extends(g, f, i)) /\ (\A i \in 1..(l + 1) : Extends(G, F, i))
  <2>1. l + 1 \in Nat
    BY <1>1
  <2> QED BY <1>1, <1>4, <2>1, PrefixElements
<1>5. \A i \in 1..l : G[i] = g[i]
  <2> DEFINE Good == {k \in Nat : k + 1 \in 1..l => G[k + 1] = g[k + 1]}
  <2>1. 0 \in Good
    <3>1. 1 \in 1..l => G[1] = F[1] /\ g[1] = f[1] /\ F[1] = f[1]
      BY <1>1, <1>2, <1>e DEF Extends
    <3> QED BY <1>1, <3>1
  <2>2. ASSUME NEW k \in Nat, k \in Good
        PROVE  k + 1 \in Good
    <3>1. SUFFICES ASSUME k + 2 \in 1..l PROVE G[k + 2] = g[k + 2]
      BY <1>1
    <3>2. k + 1 \in 1..l /\ (k + 1) + 1 = k + 2 /\ k + 1 \in 1..(l + 1) /\ k + 2 \in 1..(l + 1)
      BY <1>1, <3>1
    <3>3. Extends(G, F, k + 2) /\ Extends(g, f, k + 2)
      BY <1>e, <3>1, <3>2
    <3>n. k + 2 # 1 /\ (k + 2) - 1 = k + 1
      OBVIOUS
    <3>4. G[k + 2] = G[k + 1] \o F[k + 2]
      BY <3>n, <3>3 DEF Extends
    <3>5. g[k + 2] = g[k + 1] \o f[k + 2]
      BY <3>n, <3>3 DEF Extends
    <3>6. G[k + 1] = g[k + 1] /\ F[k + 2] = f[k + 2]
      BY <1>2, <2>2, <3>1, <3>2
    <3> QED BY <3>4, <3>5, <3>6
  <2>3. \A k \in Nat : k \in Good
    <3> HIDE DEF Good
    <3> QED BY <2>1, <2>2, SetInduction
  <2>4. ASSUME NEW i \in 1..l
        PROVE  G[i] = g[i]
    <3>1. i - 1 \in Nat /\ (i - 1) + 1 = i
      BY <1>1
    <3>2. i - 1 \in Good
      BY <2>3, <3>1
    <3> QED BY <3>1, <3>2
  <2> QED BY <2>4
<1>6. CASE l = 0
  <2>1. f = <<>> /\ FlattenSeq(f) = <<>>
    BY <1>6 DEF FlattenSeq, l
  <2>2. G[l + 1] = x
    <3>1. Extends(G, F, l + 1) /\ l + 1 = 1
      BY <1>6, <1>e
    <3> QED BY <1>2, <3>1 DEF Extends
  <2>3. <<>> \in Seq(S) /\ <<>> \o x = x
    OBVIOUS
  <2> QED BY <1>3, <2>1, <2>2, <2>3 DEF F
<1>7. CASE l # 0
  <2>1. l \in 1..l /\ l \in 1..(l + 1) /\ l + 1 \in 1..(l + 1) /\ l + 1 \in Nat
    BY <1>1, <1>7
  <2>e. Extends(G, F, l + 1) /\ l + 1 # 1 /\ (l + 1) - 1 = l
    BY <1>1, <1>7, <1>e, <2>1
  <2>2. G[l + 1] = G[l] \o F[l + 1]
    BY <2>e DEF Extends
  <2>3. g[l] \in Seq(S)
    BY <1>4, <2>1, PrefixesType DEF l
  <2> QED BY <1>2, <1>3, <1>5, <1>7, <2>1, <2>2, <2>3 DEF F
<1> QED BY <1>6, <1>7

LEMMA FlattenType ==
  ASSUME NEW S, NEW f \in Seq(Seq(S))
  PROVE  FlattenSeq(f) \in Seq(S)
<1>1. <<>> \in Seq(S)
  OBVIOUS
<1> QED BY <1>1, FlattenAppend

LEMMA OneMore ==
  ASSUME NEW S, NEW f \in Seq(S), NEW k \in Nat, k < Len(f)
  PROVE  /\ SubSeq(f, 1, k) \in Seq(S) /\ SubSeq(f, 1, k + 1) \in Seq(S)
         /\ SubSeq(f, 1, k + 1) = Append(SubSeq(f, 1, k), f[k + 1])
OBVIOUS

LEMMA WholeSeq ==
  ASSUME NEW S, NEW f \in Seq(S)
  PROVE  SubSeq(f, 1, Len(f)) = f
OBVIOUS

-----------------------------------------------------------------------------
(* Listings: a sequence that has every element of a set once.                 *)

Lists(s, S) ==
  /\ s \in Seq(S)
  /\ \A x \in S : \E i \in DOMAIN s : s[i] = x
  /\ \A i, j \in DOMAIN s : s[i] = s[j] => i = j

LEMMA ListsCard ==
  ASSUME NEW S, NEW s, Lists(s, S)
  PROVE  IsFiniteSet(S) /\ Cardinality(S) = Len(s) /\ Len(s) \in Nat /\ DOMAIN s = 1..Len(s)
<1>1. Len(s) \in Nat /\ DOMAIN s = 1..Len(s) /\ s \in [1..Len(s) -> S]
  BY DEF Lists
<1>2. s \in Bijection(1..Len(s), S)
  BY <1>1 DEF Lists, Bijection, Injection, Surjection, IsInjective
<1>3. IsFiniteSet(S) /\ Cardinality(S) = Len(s)
  <2>1. ExistsBijection(1..Len(s), S)
    BY <1>2 DEF ExistsBijection
  <2> QED BY <1>1, <2>1, FS_CountingElements, FS_NatBijection
<1> QED BY <1>1, <1>3

StrictOrder(R, S) ==
  /\ \A x \in S : <<x, x>> \notin R
  /\ \A x, y, z \in S : <<x, y>> \in R /\ <<y, z>> \in R => <<x, z>> \in R
  /\ \A x, y \in S : x # y => <<x, y>> \in R \/ <<y, x>> \in R

Ahead(R, S, x) == {y \in S : <<y, x>> \in R}

LEMMA Initial == \A n \in Nat : IsFiniteSet(0..(n - 1)) /\ Cardinality(0..(n - 1)) = n
BY FS_Interval

\* The number of elements ahead of one is its place.
LEMMA Places ==
  ASSUME NEW S, IsFiniteSet(S), NEW R, StrictOrder(R, S)
  PROVE  LET m == Cardinality(S)
             place == [x \in S |-> Cardinality(Ahead(R, S, x))]
         IN  /\ m \in Nat
             /\ place \in Bijection(S, 0..(m - 1))
             /\ \A x, y \in S : <<x, y>> \in R => place[x] < place[y]
<1> DEFINE m == Cardinality(S)
           place == [x \in S |-> Cardinality(Ahead(R, S, x))]
<1>1. m \in Nat
  BY FS_CardinalityType
<1>2. ASSUME NEW x \in S
      PROVE  IsFiniteSet(Ahead(R, S, x)) /\ place[x] \in 0..(m - 1)
  <2>1. IsFiniteSet(S \ {x}) /\ Cardinality(S \ {x}) = m - 1
    BY FS_RemoveElement
  <2>2. Ahead(R, S, x) \in SUBSET (S \ {x})
    BY DEF Ahead, StrictOrder
  <2>3. /\ IsFiniteSet(Ahead(R, S, x)) /\ Cardinality(Ahead(R, S, x)) \in Nat
        /\ Cardinality(Ahead(R, S, x)) <= m - 1
    BY <2>1, <2>2, FS_Subset, FS_CardinalityType
  <2> QED BY <1>1, <2>3
<1>3. ASSUME NEW x \in S, NEW y \in S, <<x, y>> \in R
      PROVE  place[x] < place[y]
  <2>1. x \in Ahead(R, S, y) /\ Ahead(R, S, x) \in SUBSET (Ahead(R, S, y) \ {x})
    BY <1>3 DEF Ahead, StrictOrder
  <2>2. /\ IsFiniteSet(Ahead(R, S, y) \ {x})
        /\ Cardinality(Ahead(R, S, y) \ {x}) = Cardinality(Ahead(R, S, y)) - 1
    BY <1>2, <2>1, FS_RemoveElement
  <2>3. Cardinality(Ahead(R, S, x)) <= Cardinality(Ahead(R, S, y)) - 1
    BY <2>1, <2>2, FS_Subset
  <2> QED BY <1>2, <2>3
<1>4. place \in Injection(S, 0..(m - 1))
  <2>1. place \in [S -> 0..(m - 1)]
    BY <1>2
  <2>2. ASSUME NEW x \in S, NEW y \in S, place[x] = place[y]
        PROVE  x = y
    <3>1. <<x, y>> \notin R /\ <<y, x>> \notin R
      BY <1>2, <1>3, <2>2
    <3> QED BY <3>1 DEF StrictOrder
  <2> HIDE DEF place
  <2> QED BY <2>1, <2>2 DEF Injection, IsInjective
<1>5. IsFiniteSet(0..(m - 1)) /\ Cardinality(0..(m - 1)) = m
  BY <1>1, Initial
<1>6. place \in Surjection(S, 0..(m - 1))
  <2> HIDE DEF place
  <2> QED BY <1>4, <1>5, FS_Injection
<1>7. place \in Bijection(S, 0..(m - 1))
  BY <1>4, <1>6 DEF Bijection
<1> QED BY <1>1, <1>3, <1>7

LEMMA PlaceTaken ==
  ASSUME NEW S, IsFiniteSet(S), NEW R, StrictOrder(R, S), NEW n \in 1..Cardinality(S)
  PROVE  \E x \in S : Cardinality(Ahead(R, S, x)) = n - 1
<1> DEFINE place == [x \in S |-> Cardinality(Ahead(R, S, x))]
<1>1. Cardinality(S) \in Nat /\ place \in Bijection(S, 0..(Cardinality(S) - 1))
  BY Places
<1>2. n - 1 \in 0..(Cardinality(S) - 1)
  BY <1>1
<1>3. \E x \in S : place[x] = n - 1
  <2> HIDE DEF place
  <2> QED BY <1>1, <1>2 DEF Bijection, Surjection
<1> QED BY <1>3

\* What lists the elements by their places lists them in order.
LEMMA InPlace ==
  ASSUME NEW S, IsFiniteSet(S), NEW R, StrictOrder(R, S),
         NEW f \in [1..Cardinality(S) -> S],
         \A n \in 1..Cardinality(S) : Cardinality(Ahead(R, S, f[n])) = n - 1
  PROVE  /\ Lists(f, S) /\ Len(f) = Cardinality(S) /\ DOMAIN f = 1..Cardinality(S)
         /\ \A i, j \in DOMAIN f : i < j => <<f[i], f[j]>> \in R
<1> DEFINE m == Cardinality(S)
           place == [x \in S |-> Cardinality(Ahead(R, S, x))]
<1>1. /\ m \in Nat /\ place \in Bijection(S, 0..(m - 1))
      /\ \A x, y \in S : <<x, y>> \in R => place[x] < place[y]
  BY Places
<1>2. f \in Seq(S) /\ Len(f) = m /\ DOMAIN f = 1..m
  BY <1>1
<1>3. \A n \in 1..m : place[f[n]] = n - 1
  OBVIOUS
<1>4. /\ place \in [S -> 0..(m - 1)]
      /\ \A x, y \in S : place[x] = place[y] => x = y
  BY <1>1 DEF Bijection, Injection, IsInjective
<1> HIDE DEF place, m
<1>5. \A i, j \in 1..m : f[i] = f[j] => i = j
  BY <1>1, <1>2, <1>3
<1>6. ASSUME NEW x \in S
      PROVE  \E i \in 1..m : f[i] = x
  <2>1. place[x] + 1 \in 1..m /\ (place[x] + 1) - 1 = place[x]
    BY <1>1, <1>4
  <2>2. place[f[place[x] + 1]] = place[x] /\ f[place[x] + 1] \in S
    BY <1>2, <1>3, <2>1
  <2> QED BY <1>4, <2>1, <2>2
<1>7. ASSUME NEW i \in 1..m, NEW j \in 1..m, i < j
      PROVE  <<f[i], f[j]>> \in R
  <2>1. f[i] \in S /\ f[j] \in S /\ place[f[i]] = i - 1 /\ place[f[j]] = j - 1
    BY <1>2, <1>3
  <2>2. i \in Int /\ j \in Int
    BY <1>1
  <2>3. f[i] # f[j] /\ ~(<<f[j], f[i]>> \in R)
    BY <1>1, <1>7, <2>1, <2>2
  <2> QED BY <2>1, <2>3 DEF StrictOrder
<1> QED BY <1>2, <1>5, <1>6, <1>7 DEF Lists, m

\* Positions in ascending order.
LEMMA AscendingLists ==
  ASSUME NEW S \in SUBSET Int, IsFiniteSet(S)
  PROVE  /\ Lists(Ascending(S), S) /\ Len(Ascending(S)) = Cardinality(S)
         /\ DOMAIN Ascending(S) = 1..Cardinality(S)
         /\ \A i, j \in DOMAIN Ascending(S) : i < j => Ascending(S)[i] < Ascending(S)[j]
         /\ \A n \in DOMAIN Ascending(S) : Cardinality({y \in S : y < Ascending(S)[n]}) = n - 1
<1> DEFINE R == {p \in S \X S : p[1] < p[2]}
           f == Ascending(S)
<1>1. \A x, y \in S : <<x, y>> \in R <=> x < y
  OBVIOUS
<1> HIDE DEF R
<1>2. StrictOrder(R, S)
  BY <1>1 DEF StrictOrder
<1>3. \A x \in S : {y \in S : y < x} = Ahead(R, S, x)
  BY <1>1 DEF Ahead
<1>4. f = [n \in 1..Cardinality(S) |-> CHOOSE x \in S : Cardinality({y \in S : y < x}) = n - 1]
  BY DEF Ascending, SortedBy
<1>5. ASSUME NEW n \in 1..Cardinality(S)
      PROVE  f[n] \in S /\ Cardinality({y \in S : y < f[n]}) = n - 1
  <2>1. \E x \in S : Cardinality(Ahead(R, S, x)) = n - 1
    BY <1>2, PlaceTaken
  <2>2. \E x \in S : Cardinality({y \in S : y < x}) = n - 1
    BY <1>3, <2>1
  <2>3. f[n] = CHOOSE x \in S : Cardinality({y \in S : y < x}) = n - 1
    BY <1>4
  <2> HIDE DEF f
  <2> QED BY <2>2, <2>3
<1>6. f \in [1..Cardinality(S) -> S]
  BY <1>4, <1>5
<1> HIDE DEF f
<1>7. \A n \in 1..Cardinality(S) : Cardinality(Ahead(R, S, f[n])) = n - 1
  BY <1>3, <1>5
<1>8. /\ Lists(f, S) /\ Len(f) = Cardinality(S) /\ DOMAIN f = 1..Cardinality(S)
      /\ \A i, j \in DOMAIN f : i < j => <<f[i], f[j]>> \in R
  BY <1>2, <1>6, <1>7, InPlace
<1> QED BY <1>1, <1>5, <1>6, <1>8 DEF f

WeighsLess(w, i, j) == w[i] < w[j] \/ (w[i] = w[j] /\ i < j)

\* Positions by weight.
LEMMA ByWeightLists ==
  ASSUME NEW S \in SUBSET Int, IsFiniteSet(S), NEW w, \A i \in S : w[i] \in Int
  PROVE  LET f == ByWeight(w, S)
         IN  /\ Lists(f, S) /\ Len(f) = Cardinality(S) /\ DOMAIN f = 1..Cardinality(S)
             /\ \A i, j \in DOMAIN f : i < j => WeighsLess(w, f[i], f[j])
             /\ \A n \in DOMAIN f : Cardinality({y \in S : WeighsLess(w, y, f[n])}) = n - 1
<1> DEFINE R == {p \in S \X S : WeighsLess(w, p[1], p[2])}
           f == ByWeight(w, S)
<1>1. \A x, y \in S : <<x, y>> \in R <=> WeighsLess(w, x, y)
  OBVIOUS
<1> HIDE DEF R
<1>2. StrictOrder(R, S)
  BY <1>1 DEF StrictOrder, WeighsLess
<1>3. \A x \in S : {y \in S : WeighsLess(w, y, x)} = Ahead(R, S, x)
  BY <1>1 DEF Ahead
<1>4. f = [n \in 1..Cardinality(S) |->
             CHOOSE x \in S : Cardinality({y \in S : WeighsLess(w, y, x)}) = n - 1]
  BY DEF ByWeight, SortedBy, WeighsLess
<1>5. ASSUME NEW n \in 1..Cardinality(S)
      PROVE  f[n] \in S /\ Cardinality({y \in S : WeighsLess(w, y, f[n])}) = n - 1
  <2>1. \E x \in S : Cardinality(Ahead(R, S, x)) = n - 1
    BY <1>2, PlaceTaken
  <2>2. \E x \in S : Cardinality({y \in S : WeighsLess(w, y, x)}) = n - 1
    BY <1>3, <2>1
  <2>3. f[n] = CHOOSE x \in S : Cardinality({y \in S : WeighsLess(w, y, x)}) = n - 1
    BY <1>4
  <2> HIDE DEF f
  <2> QED BY <2>2, <2>3
<1>6. f \in [1..Cardinality(S) -> S]
  BY <1>4, <1>5
<1> HIDE DEF f
<1>7. \A n \in 1..Cardinality(S) : Cardinality(Ahead(R, S, f[n])) = n - 1
  BY <1>3, <1>5
<1>8. /\ Lists(f, S) /\ Len(f) = Cardinality(S) /\ DOMAIN f = 1..Cardinality(S)
      /\ \A i, j \in DOMAIN f : i < j => <<f[i], f[j]>> \in R
  BY <1>2, <1>6, <1>7, InPlace
<1> QED BY <1>1, <1>5, <1>6, <1>8 DEF f

\* Taking the elements at listed positions lists those elements.
ElementsAt(s, I) == {s[i] : i \in I}

Into(s, I, T)    == \A i \in I : s[i] \in T

OneToOne(s, I)   == \A i, j \in I : s[i] = s[j] => i = j

LEMMA SelectLists ==
  ASSUME NEW I, NEW idx, Lists(idx, I), NEW T, NEW s, Into(s, I, T), OneToOne(s, I)
  PROVE  /\ Lists(Select(s, idx), ElementsAt(s, I)) /\ Select(s, idx) \in Seq(T)
         /\ DOMAIN Select(s, idx) = DOMAIN idx /\ Len(Select(s, idx)) = Len(idx)
         /\ \A i \in DOMAIN idx : idx[i] \in I /\ Select(s, idx)[i] = s[idx[i]]
<1> DEFINE f == Select(s, idx)
<1>1. idx \in Seq(I) /\ DOMAIN idx = 1..Len(idx) /\ Len(idx) \in Nat
  BY DEF Lists
<1>2. f = [i \in 1..Len(idx) |-> s[idx[i]]]
  BY <1>1 DEF Select
<1>3. \A i \in 1..Len(idx) : idx[i] \in I /\ f[i] = s[idx[i]]
  BY <1>1, <1>2
<1>4. f \in [1..Len(idx) -> ElementsAt(s, I)] /\ f \in [1..Len(idx) -> T]
  BY <1>2, <1>3 DEF ElementsAt, Into
<1> HIDE DEF f
<1>5. f \in Seq(ElementsAt(s, I)) /\ f \in Seq(T) /\ Len(f) = Len(idx) /\ DOMAIN f = 1..Len(idx)
  BY <1>1, <1>4
<1>6. \A x \in ElementsAt(s, I) : \E i \in 1..Len(idx) : f[i] = x
  BY <1>1, <1>3 DEF ElementsAt, Lists
<1>7. \A i, j \in 1..Len(idx) : f[i] = f[j] => i = j
  BY <1>1, <1>3 DEF Lists, OneToOne
<1> QED BY <1>1, <1>3, <1>5, <1>6, <1>7 DEF Lists, f

LEMMA ConcatAssoc ==
  ASSUME NEW S, NEW a \in Seq(S), NEW b \in Seq(S), NEW c \in Seq(S)
  PROVE  (a \o b) \o c = a \o (b \o c)
OBVIOUS

LEMMA ConcatFacts ==
  ASSUME NEW S, NEW a \in Seq(S), NEW b \in Seq(S)
  PROVE  /\ a \o b \in Seq(S) /\ Len(a \o b) = Len(a) + Len(b) /\ Len(a) \in Nat /\ Len(b) \in Nat
         /\ DOMAIN (a \o b) = 1..(Len(a) + Len(b)) /\ DOMAIN a = 1..Len(a) /\ DOMAIN b = 1..Len(b)
         /\ \A i \in 1..Len(a) : (a \o b)[i] = a[i]
         /\ \A i \in 1..Len(b) : (a \o b)[Len(a) + i] = b[i]
         /\ \A i \in (Len(a) + 1)..(Len(a) + Len(b)) :
              i - Len(a) \in 1..Len(b) /\ (a \o b)[i] = b[i - Len(a)]
<1>1. a \o b \in Seq(S) /\ Len(a \o b) = Len(a) + Len(b) /\ Len(a) \in Nat /\ Len(b) \in Nat
  OBVIOUS
<1>2. \A i \in 1..Len(a) : (a \o b)[i] = a[i]
  OBVIOUS
<1>3. \A i \in (Len(a) + 1)..(Len(a) + Len(b)) :
              i - Len(a) \in 1..Len(b) /\ (a \o b)[i] = b[i - Len(a)]
  OBVIOUS
<1>4. \A i \in 1..Len(b) : Len(a) + i \in (Len(a) + 1)..(Len(a) + Len(b)) /\ (Len(a) + i) - Len(a) = i
  BY <1>1
<1> QED BY <1>1, <1>2, <1>3, <1>4

\* Listings of disjoint sets, one behind the other.
LEMMA ListsConcat ==
  ASSUME NEW A, NEW B, NEW a, NEW b, Lists(a, A), Lists(b, B), A \cap B = {}
  PROVE  Lists(a \o b, A \cup B)
<1> DEFINE S == A \cup B
           l == Len(a)
           n == Len(b)
           c == a \o b
<1>1. a \in Seq(A) /\ b \in Seq(B) /\ a \in Seq(S) /\ b \in Seq(S)
  <2>1. a \in Seq(A) /\ b \in Seq(B)
    BY DEF Lists
  <2> QED BY <2>1
<1>2. /\ c \in Seq(S) /\ l \in Nat /\ n \in Nat
      /\ DOMAIN c = 1..(l + n) /\ DOMAIN a = 1..l /\ DOMAIN b = 1..n
      /\ \A i \in 1..l : c[i] = a[i]
      /\ \A i \in 1..n : c[l + i] = b[i]
      /\ \A i \in (l + 1)..(l + n) : i - l \in 1..n /\ c[i] = b[i - l]
  BY <1>1, ConcatFacts
<1> HIDE DEF c, l, n
<1>3. (\A i \in 1..l : a[i] \in A) /\ (\A i \in 1..n : b[i] \in B)
  BY <1>1, <1>2
<1>4. \A i \in 1..(l + n) : (i \in 1..l /\ c[i] = a[i] /\ c[i] \in A)
                            \/ (i \in (l + 1)..(l + n) /\ i - l \in 1..n /\ c[i] = b[i - l] /\ c[i] \in B)
  <2>1. \A i \in 1..(l + n) : i \in 1..l \/ i \in (l + 1)..(l + n)
    BY <1>2
  <2> QED BY <1>2, <1>3, <2>1
<1>5. \A x \in S : \E i \in 1..(l + n) : c[i] = x
  <2>1. ASSUME NEW x \in A PROVE \E i \in 1..(l + n) : c[i] = x
    <3>1. PICK i \in 1..l : a[i] = x
      BY <1>2 DEF Lists
    <3>2. i \in 1..(l + n)
      BY <1>2
    <3> QED BY <1>2, <3>1, <3>2
  <2>2. ASSUME NEW x \in B PROVE \E i \in 1..(l + n) : c[i] = x
    <3>1. PICK i \in 1..n : b[i] = x
      BY <1>2 DEF Lists
    <3>2. l + i \in 1..(l + n)
      BY <1>2
    <3> QED BY <1>2, <3>1, <3>2
  <2> QED BY <2>1, <2>2
<1>6. ASSUME NEW i \in 1..(l + n), NEW j \in 1..(l + n), c[i] = c[j]
      PROVE  i = j
  <2>1. CASE i \in 1..l /\ c[i] = a[i] /\ c[i] \in A
    <3>1. j \in 1..l /\ c[j] = a[j]
      BY <1>4, <1>6, <2>1
    <3> QED BY <1>2, <1>6, <2>1, <3>1 DEF Lists
  <2>2. CASE i - l \in 1..n /\ c[i] = b[i - l] /\ c[i] \in B
    <3>1. j - l \in 1..n /\ c[j] = b[j - l]
      BY <1>4, <1>6, <2>2
    <3>2. i - l = j - l
      BY <1>2, <1>6, <2>2, <3>1 DEF Lists
    <3>3. i \in Int /\ j \in Int /\ l \in Int
      BY <1>2
    <3> QED BY <3>2, <3>3
  <2> QED BY <1>4, <2>1, <2>2
<1> QED BY <1>2, <1>5, <1>6 DEF Lists, c

LEMMA FlattenNone == FlattenSeq(<<>>) = <<>>
BY DEF FlattenSeq

LEMMA FlattenPrefix ==
  ASSUME NEW S, NEW f \in Seq(Seq(S)), NEW k \in Nat, k < Len(f)
  PROVE  /\ SubSeq(f, 1, k) \in Seq(Seq(S)) /\ f[k + 1] \in Seq(S)
         /\ FlattenSeq(SubSeq(f, 1, k + 1)) = FlattenSeq(SubSeq(f, 1, k)) \o f[k + 1]
<1>1. SubSeq(f, 1, k + 1) = Append(SubSeq(f, 1, k), f[k + 1]) /\ SubSeq(f, 1, k) \in Seq(Seq(S))
  BY OneMore
<1>2. f[k + 1] \in Seq(S)
  OBVIOUS
<1> QED BY <1>1, <1>2, FlattenAppend

\* Listings of disjoint sets.
ListsEach(f, P) ==
  /\ \A i \in DOMAIN f : Lists(f[i], P[i])
  /\ \A i, j \in DOMAIN f : i # j => P[i] \cap P[j] = {}

\* Flattening listings of disjoint sets lists their union.
LEMMA FlattenLists ==
  ASSUME NEW T, NEW f \in Seq(Seq(T)), NEW P, ListsEach(f, P)
  PROVE  Lists(FlattenSeq(f), UNION {P[i] : i \in DOMAIN f})
<1> DEFINE Flat(k) == FlattenSeq(SubSeq(f, 1, k))
           Of(k)   == UNION {P[i] : i \in 1..k}
           Good    == {k \in Nat : k <= Len(f) => Lists(Flat(k), Of(k))}
<1>1. Len(f) \in Nat /\ DOMAIN f = 1..Len(f)
  OBVIOUS
<1>2. 0 \in Good
  <2>1. SubSeq(f, 1, 0) = <<>>
    OBVIOUS
  <2>2. Flat(0) = <<>>
    BY <2>1, FlattenNone
  <2>3. Of(0) = {}
    OBVIOUS
  <2>4. Lists(<<>>, {})
    BY DEF Lists
  <2> QED BY <2>2, <2>3, <2>4
<1>3. ASSUME NEW k \in Nat, k \in Good
      PROVE  k + 1 \in Good
  <2> SUFFICES ASSUME k + 1 <= Len(f) PROVE Lists(Flat(k + 1), Of(k + 1))
    OBVIOUS
  <2>1. Lists(Flat(k), Of(k)) /\ k < Len(f) /\ k + 1 \in DOMAIN f
    BY <1>1, <1>3
  <2>2. Flat(k + 1) = Flat(k) \o f[k + 1]
    BY <2>1, FlattenPrefix
  <2>3. Of(k + 1) = Of(k) \cup P[k + 1]
    <3>1. \A i \in 1..(k + 1) : i \in 1..k \/ i = k + 1
      OBVIOUS
    <3>2. 1..k \subseteq 1..(k + 1) /\ k + 1 \in 1..(k + 1)
      OBVIOUS
    <3> QED BY <3>1, <3>2
  <2>4. Of(k) \cap P[k + 1] = {}
    <3>1. \A i \in 1..k : i \in DOMAIN f /\ i # k + 1
      BY <1>1, <2>1
    <3>2. \A i \in 1..k : P[i] \cap P[k + 1] = {}
      BY <2>1, <3>1 DEF ListsEach
    <3> QED BY <3>2
  <2>5. Lists(f[k + 1], P[k + 1])
    BY <2>1 DEF ListsEach
  <2>6. Lists(Flat(k) \o f[k + 1], Of(k) \cup P[k + 1])
    <3> DEFINE a == Flat(k)
               A == Of(k)
               b == f[k + 1]
               B == P[k + 1]
    <3>1. Lists(a, A) /\ Lists(b, B) /\ A \cap B = {}
      BY <2>1, <2>4, <2>5
    <3> HIDE DEF a, b, A, B
    <3>2. Lists(a \o b, A \cup B)
      BY <3>1, ListsConcat
    <3> QED BY <3>2 DEF a, b, A, B
  <2> HIDE DEF Flat, Of
  <2> QED BY <2>2, <2>3, <2>6
<1>4. Len(f) \in Good
  <2> HIDE DEF Good
  <2> QED BY <1>1, <1>2, <1>3, SetInduction
<1>5. Lists(Flat(Len(f)), Of(Len(f)))
  BY <1>1, <1>4
<1> QED BY <1>1, <1>5, WholeSeq

\* Flattening two sequences of sequences, one behind the other.
LEMMA FlattenConcat ==
  ASSUME NEW S, NEW f \in Seq(Seq(S)), NEW g \in Seq(Seq(S))
  PROVE  FlattenSeq(f \o g) = FlattenSeq(f) \o FlattenSeq(g)
<1> DEFINE Flat(k) == FlattenSeq(SubSeq(g, 1, k))
           Both(k) == FlattenSeq(f \o SubSeq(g, 1, k))
           Good == {k \in Nat : k <= Len(g) => Both(k) = FlattenSeq(f) \o Flat(k)}
<1>1. FlattenSeq(f) \in Seq(S)
  BY FlattenType
<1>2. 0 \in Good
  <2>1. SubSeq(g, 1, 0) = <<>> /\ f \o <<>> = f
    OBVIOUS
  <2>2. FlattenSeq(f) \o <<>> = FlattenSeq(f)
    BY <1>1
  <2> QED BY <2>1, <2>2, FlattenNone
<1>3. ASSUME NEW k \in Nat, k \in Good
      PROVE  k + 1 \in Good
  <2> SUFFICES ASSUME k + 1 <= Len(g) PROVE Both(k + 1) = FlattenSeq(f) \o Flat(k + 1)
    OBVIOUS
  <2>1. Both(k) = FlattenSeq(f) \o Flat(k) /\ k < Len(g)
    BY <1>3
  <2>2. SubSeq(g, 1, k) \in Seq(Seq(S)) /\ g[k + 1] \in Seq(S)
        /\ Flat(k + 1) = Flat(k) \o g[k + 1]
    BY <2>1, FlattenPrefix
  <2>3. SubSeq(g, 1, k + 1) = Append(SubSeq(g, 1, k), g[k + 1])
    BY <2>1, OneMore
  <2> DEFINE h == SubSeq(g, 1, k)
             y == g[k + 1]
  <2>4. h \in Seq(Seq(S)) /\ y \in Seq(S) /\ SubSeq(g, 1, k + 1) = Append(h, y)
    BY <2>2, <2>3
  <2> HIDE DEF h, y
  <2>5. f \o Append(h, y) = Append(f \o h, y) /\ f \o h \in Seq(Seq(S))
    BY <2>4, SMTT(30)
  <2>6. Both(k + 1) = FlattenSeq(f \o h) \o y
    BY <2>4, <2>5, FlattenAppend
  <2>7. Flat(k) \in Seq(S)
    BY <2>4, FlattenType DEF h
  <2>8. Both(k + 1) = (FlattenSeq(f) \o Flat(k)) \o y
    BY <2>1, <2>6 DEF h
  <2> HIDE DEF Flat, Both
  <2>9. (FlattenSeq(f) \o Flat(k)) \o y = FlattenSeq(f) \o (Flat(k) \o y)
    BY <1>1, <2>4, <2>7
  <2> QED BY <2>2, <2>8, <2>9 DEF y
<1>4. Len(g) \in Good
  <2>1. Len(g) \in Nat
    OBVIOUS
  <2> HIDE DEF Good
  <2> QED BY <1>2, <1>3, <2>1, SetInduction
<1>5. Both(Len(g)) = FlattenSeq(f) \o Flat(Len(g))
  BY <1>4
<1> QED BY <1>5, WholeSeq

LEMMA FlattenOne ==
  ASSUME NEW S, NEW x \in Seq(S)
  PROVE  FlattenSeq(<<x>>) = x
<1>1. <<x>> = Append(<<>>, x) /\ <<>> \in Seq(Seq(S)) /\ <<>> \o x = x
  OBVIOUS
<1> QED BY <1>1, FlattenAppend, FlattenNone

LEMMA FlattenTwo ==
  ASSUME NEW S, NEW x \in Seq(S), NEW y \in Seq(S)
  PROVE  FlattenSeq(<<x, y>>) = x \o y
<1> DEFINE f == <<x>>
<1>1. <<x, y>> = Append(f, y) /\ f \in Seq(Seq(S))
  OBVIOUS
<1>2. FlattenSeq(f) = x
  BY FlattenOne
<1> HIDE DEF f
<1> QED BY <1>1, <1>2, FlattenAppend

\* One element of each.
LEMMA FlattenSingles ==
  ASSUME NEW S, NEW s \in Seq(S), NEW f, f = [i \in DOMAIN s |-> <<s[i]>>]
  PROVE  FlattenSeq(f) = s
<1> DEFINE Good == {k \in Nat : k <= Len(s) => FlattenSeq(SubSeq(f, 1, k)) = SubSeq(s, 1, k)}
<1>1. DOMAIN s = 1..Len(s) /\ Len(s) \in Nat /\ \A i \in 1..Len(s) : s[i] \in S /\ <<s[i]>> \in Seq(S)
  OBVIOUS
<1>2. f \in Seq(Seq(S)) /\ Len(f) = Len(s) /\ \A i \in 1..Len(s) : f[i] = <<s[i]>>
  <2>1. f = [i \in 1..Len(s) |-> <<s[i]>>]
    BY <1>1
  <2>2. f \in [1..Len(s) -> Seq(S)]
    BY <1>1, <2>1
  <2> QED BY <1>1, <2>1, <2>2
<1>3. 0 \in Good
  <2>1. SubSeq(f, 1, 0) = <<>> /\ SubSeq(s, 1, 0) = <<>>
    BY <1>2
  <2> QED BY <2>1, FlattenNone
<1>4. ASSUME NEW k \in Nat, k \in Good
      PROVE  k + 1 \in Good
  <2> SUFFICES ASSUME k + 1 <= Len(s)
               PROVE  FlattenSeq(SubSeq(f, 1, k + 1)) = SubSeq(s, 1, k + 1)
    OBVIOUS
  <2>1. k < Len(s) /\ k < Len(f) /\ f[k + 1] = <<s[k + 1]>> /\ s[k + 1] \in S
    BY <1>1, <1>2
  <2>p. FlattenSeq(SubSeq(f, 1, k)) = SubSeq(s, 1, k)
    BY <1>1, <1>4, <2>1
  <2>q. FlattenSeq(SubSeq(f, 1, k + 1)) = FlattenSeq(SubSeq(f, 1, k)) \o f[k + 1]
    BY <1>2, <2>1, FlattenPrefix
  <2>2. FlattenSeq(SubSeq(f, 1, k + 1)) = SubSeq(s, 1, k) \o <<s[k + 1]>>
    BY <2>1, <2>p, <2>q
  <2>3. SubSeq(s, 1, k + 1) = Append(SubSeq(s, 1, k), s[k + 1]) /\ SubSeq(s, 1, k) \in Seq(S)
    BY <2>1, OneMore
  <2>4. SubSeq(s, 1, k) \o <<s[k + 1]>> = Append(SubSeq(s, 1, k), s[k + 1])
    BY <2>1, <2>3
  <2> QED BY <2>2, <2>3, <2>4
<1>5. Len(s) \in Good
  <2> HIDE DEF Good
  <2> QED BY <1>1, <1>3, <1>4, SetInduction
<1>6. FlattenSeq(SubSeq(f, 1, Len(f))) = SubSeq(s, 1, Len(s))
  BY <1>1, <1>2, <1>5
<1>7. SubSeq(f, 1, Len(f)) = f /\ SubSeq(s, 1, Len(s)) = s
  BY <1>2, WholeSeq
<1> QED BY <1>6, <1>7

-----------------------------------------------------------------------------
(* Division.                                                                  *)

LEMMA DivFacts ==
  ASSUME NEW n \in Int, NEW d \in Nat \ {0}
  PROVE  n = d * (n \div d) + (n % d) /\ n % d \in 0..(d - 1) /\ n \div d \in Int
OBVIOUS

LEMMA MulMono ==
  ASSUME NEW a \in Int, NEW b \in Int, NEW d \in Nat \ {0}, a < b
  PROVE  d * a + d <= d * b
OBVIOUS

LEMMA DivUnique ==
  ASSUME NEW n \in Int, NEW d \in Nat \ {0}, NEW q \in Int, NEW b \in 0..(d - 1), n = d * q + b
  PROVE  n \div d = q /\ n % d = b
<1> DEFINE p == n \div d
           c == n % d
<1>2. p \in Int /\ c \in 0..(d - 1) /\ d * p + c = d * q + b
  BY DivFacts
<1> HIDE DEF p, c
<1>3. ~(p < q)
  <2> SUFFICES ASSUME p < q PROVE FALSE
    OBVIOUS
  <2>1. d * p + d <= d * q
    BY <1>2, MulMono
  <2> QED BY <1>2, <2>1
<1>4. ~(q < p)
  <2> SUFFICES ASSUME q < p PROVE FALSE
    OBVIOUS
  <2>1. d * q + d <= d * p
    BY <1>2, MulMono
  <2> QED BY <1>2, <2>1
<1>5. p = q
  BY <1>2, <1>3, <1>4
<1>6. c = b
  BY <1>2, <1>5
<1> QED BY <1>5, <1>6 DEF p, c

\* How the quotient grows by one step of the dividend.
LEMMA NextDiv ==
  ASSUME NEW n \in Nat, NEW d \in Nat \ {0}
  PROVE  /\ n \div d \in Nat /\ n % d \in Nat
         /\ (n + 1) \div d = n \div d + (IF (n + 1) % d = 0 THEN 1 ELSE 0)
<1> DEFINE q == n \div d
           b == n % d
<1>1. q \in Int /\ b \in 0..(d - 1) /\ n = d * q + b
  BY DivFacts
<1> HIDE DEF q, b
<1>0. q >= 0
  <2> SUFFICES ASSUME q < 0 PROVE FALSE
    BY <1>1
  <2>1. d * q + d <= d * 0
    BY <1>1, MulMono
  <2> QED BY <1>1, <2>1
<1>2. CASE b = d - 1
  <2>1. d * (q + 1) = d * q + d
    BY <1>1
  <2>2. n + 1 = d * (q + 1) + 0 /\ 0 \in 0..(d - 1) /\ q + 1 \in Int /\ n + 1 \in Int
    BY <1>1, <1>2, <2>1
  <2>3. (n + 1) \div d = q + 1 /\ (n + 1) % d = 0
    BY <2>2, DivUnique
  <2> QED BY <1>0, <1>1, <2>3 DEF q, b
<1>3. CASE b # d - 1
  <2>2. n + 1 = d * q + (b + 1) /\ b + 1 \in 0..(d - 1) /\ n + 1 \in Int
    BY <1>1, <1>3
  <2>3. (n + 1) \div d = q /\ (n + 1) % d = b + 1
    BY <1>1, <2>2, DivUnique
  <2>4. b + 1 # 0
    BY <1>1
  <2> QED BY <1>0, <1>1, <2>3, <2>4 DEF q, b
<1> QED BY <1>2, <1>3

LEMMA ExactDiv ==
  ASSUME NEW d \in Nat \ {0}, NEW q \in Nat
  PROVE  (d * q) \div d = q /\ (d * q) % d = 0 /\ (q * d) \div d = q /\ (q * d) % d = 0
<1>1. d * q \in Int /\ d * q = d * q + 0 /\ q * d = d * q /\ 0 \in 0..(d - 1)
  OBVIOUS
<1>2. (d * q) \div d = q /\ (d * q) % d = 0
  BY <1>1, DivUnique
<1> QED BY <1>1, <1>2

-----------------------------------------------------------------------------
(* Orders of positions.                                                       *)

\* The positions themselves are the only ascending listing of 1..n.
LEMMA AscendingIsIdentity ==
  ASSUME NEW n \in Nat, NEW f, Lists(f, 1..n), \A i, j \in DOMAIN f : i < j => f[i] < f[j]
  PROVE  DOMAIN f = 1..n /\ Len(f) = n /\ \A i \in 1..n : f[i] = i
<1>1. DOMAIN f = 1..n /\ Len(f) = n
  <2>1. Cardinality(1..n) = Len(f) /\ DOMAIN f = 1..Len(f)
    BY ListsCard
  <2>2. Cardinality(1..n) = n
    BY FS_Interval
  <2> QED BY <2>1, <2>2
<1>2. \A i \in 1..n : f[i] \in 1..n
  <2>1. f \in Seq(1..n)
    BY DEF Lists
  <2> QED BY <1>1, <2>1
<1> DEFINE Low  == {k \in Nat : k + 1 \in 1..n => f[k + 1] >= k + 1}
           High == {k \in Nat : n - k \in 1..n => f[n - k] <= n - k}
<1>3. \A k \in Nat : k \in Low
  <2>1. 0 \in Low
    BY <1>2
  <2>2. ASSUME NEW k \in Nat, k \in Low
        PROVE  k + 1 \in Low
    <3> SUFFICES ASSUME k + 2 \in 1..n PROVE f[k + 2] >= k + 2
      BY DEF Low
    <3>1. k + 1 \in 1..n /\ k + 1 < k + 2
      OBVIOUS
    <3>2. f[k + 1] < f[k + 2] /\ f[k + 1] >= k + 1
      BY <1>1, <2>2, <3>1
    <3>3. f[k + 1] \in Int /\ f[k + 2] \in Int
      BY <1>2, <3>1
    <3> QED BY <3>2, <3>3
  <2> HIDE DEF Low
  <2> QED BY <2>1, <2>2, SetInduction
<1>4. \A k \in Nat : k \in High
  <2>1. 0 \in High
    BY <1>2
  <2>2. ASSUME NEW k \in Nat, k \in High
        PROVE  k + 1 \in High
    <3> SUFFICES ASSUME n - (k + 1) \in 1..n PROVE f[n - (k + 1)] <= n - (k + 1)
      BY DEF High
    <3>1. n - k \in 1..n /\ n - (k + 1) < n - k
      OBVIOUS
    <3>2. f[n - (k + 1)] < f[n - k] /\ f[n - k] <= n - k
      BY <1>1, <2>2, <3>1
    <3>3. f[n - (k + 1)] \in Int /\ f[n - k] \in Int
      BY <1>2, <3>1
    <3> QED BY <3>2, <3>3
  <2> HIDE DEF High
  <2> QED BY <2>1, <2>2, SetInduction
<1>5. ASSUME NEW i \in 1..n
      PROVE  f[i] = i
  <2>0. i - 1 \in Nat /\ n - i \in Nat /\ (i - 1) + 1 = i /\ n - (n - i) = i
    OBVIOUS
  <2>1. i - 1 \in Low /\ n - i \in High
    BY <1>3, <1>4, <2>0
  <2>2. f[i] >= i /\ f[i] <= i /\ f[i] \in Int
    BY <1>2, <2>0, <2>1
  <2> QED BY <2>2
<1> QED BY <1>1, <1>5

-----------------------------------------------------------------------------
(* Slices and selections.                                                     *)

LEMMA SelectConcat ==
  ASSUME NEW I, NEW a \in Seq(I), NEW b \in Seq(I), NEW T, NEW s, Into(s, I, T)
  PROVE  /\ Select(s, a) \in Seq(T) /\ Select(s, b) \in Seq(T)
         /\ Select(s, a \o b) = Select(s, a) \o Select(s, b)
<1> DEFINE c  == a \o b
           sa == Select(s, a)
           sb == Select(s, b)
           sc == Select(s, c)
<1>1. /\ c \in Seq(I) /\ Len(a) \in Nat /\ Len(b) \in Nat
      /\ DOMAIN c = 1..(Len(a) + Len(b)) /\ DOMAIN a = 1..Len(a) /\ DOMAIN b = 1..Len(b)
      /\ \A i \in 1..Len(a) : c[i] = a[i]
      /\ \A i \in (Len(a) + 1)..(Len(a) + Len(b)) : i - Len(a) \in 1..Len(b) /\ c[i] = b[i - Len(a)]
  BY ConcatFacts
<1> HIDE DEF c
<1>2. sa = [i \in 1..Len(a) |-> s[a[i]]] /\ sb = [i \in 1..Len(b) |-> s[b[i]]]
      /\ sc = [i \in 1..(Len(a) + Len(b)) |-> s[c[i]]]
  BY <1>1 DEF Select
<1>3. (\A i \in 1..Len(a) : s[a[i]] \in T) /\ (\A i \in 1..Len(b) : s[b[i]] \in T)
      /\ (\A i \in 1..(Len(a) + Len(b)) : s[c[i]] \in T)
  BY <1>1 DEF Into
<1>4. sa \in Seq(T) /\ sb \in Seq(T) /\ sc \in Seq(T)
      /\ Len(sa) = Len(a) /\ Len(sb) = Len(b) /\ Len(sc) = Len(a) + Len(b)
  BY <1>1, <1>2, <1>3
<1>5. (\A i \in 1..Len(a) : sa[i] = s[a[i]]) /\ (\A i \in 1..Len(b) : sb[i] = s[b[i]])
      /\ (\A i \in 1..(Len(a) + Len(b)) : sc[i] = s[c[i]])
  BY <1>2
<1> HIDE DEF sa, sb, sc
<1> DEFINE d == sa \o sb
<1>6. /\ d \in Seq(T) /\ Len(d) = Len(a) + Len(b)
      /\ DOMAIN d = 1..(Len(a) + Len(b))
      /\ \A i \in 1..Len(a) : d[i] = sa[i]
      /\ \A i \in (Len(a) + 1)..(Len(a) + Len(b)) : d[i] = sb[i - Len(a)]
  <2>0. sa \in Seq(T) /\ sb \in Seq(T)
    BY <1>4
  <2>1. /\ d \in Seq(T) /\ Len(d) = Len(sa) + Len(sb)
        /\ DOMAIN d = 1..(Len(sa) + Len(sb))
        /\ \A i \in 1..Len(sa) : d[i] = sa[i]
        /\ \A i \in (Len(sa) + 1)..(Len(sa) + Len(sb)) : d[i] = sb[i - Len(sa)]
    BY <2>0, ConcatFacts
  <2> HIDE DEF d
  <2> QED BY <1>4, <2>1
<1> HIDE DEF d
<1>7. \A i \in 1..(Len(a) + Len(b)) : d[i] = sc[i]
  <2>1. ASSUME NEW i \in 1..Len(a) PROVE d[i] = sc[i]
    <3>1. i \in 1..(Len(a) + Len(b))
      BY <1>1
    <3> QED BY <1>1, <1>5, <1>6, <3>1
  <2>2. ASSUME NEW i \in (Len(a) + 1)..(Len(a) + Len(b)) PROVE d[i] = sc[i]
    <3>1. i \in 1..(Len(a) + Len(b)) /\ i - Len(a) \in 1..Len(b)
      BY <1>1
    <3>2. c[i] = b[i - Len(a)] /\ d[i] = sb[i - Len(a)]
      BY <1>1, <1>6
    <3> QED BY <1>5, <3>1, <3>2
  <2>3. \A i \in 1..(Len(a) + Len(b)) : i \in 1..Len(a) \/ i \in (Len(a) + 1)..(Len(a) + Len(b))
    BY <1>1
  <2> QED BY <2>1, <2>2, <2>3
<1>8. d = sc
  <2>1. d \in Seq(T) /\ Len(d) = Len(sc) /\ Len(d) = Len(a) + Len(b)
    BY <1>4, <1>6
  <2> QED BY <1>4, <1>7, <2>1
<1> QED BY <1>4, <1>8 DEF c, d, sa, sb, sc

LEMMA SlicePoint ==
  ASSUME NEW T, NEW s \in Seq(T), NEW a \in Nat, NEW b \in Nat, a <= b, b <= Len(s)
  PROVE  LET c == SubSeq(s, a + 1, b)
         IN  c \in Seq(T) /\ Len(c) = b - a /\ DOMAIN c = 1..(b - a)
             /\ \A i \in 1..(b - a) : a + i \in 1..Len(s) /\ c[i] = s[a + i]
OBVIOUS

LEMMA SliceJoin ==
  ASSUME NEW T, NEW s \in Seq(T), NEW a \in Nat, NEW b \in Nat, a <= b, b <= Len(s)
  PROVE  SubSeq(s, 1, a) \o SubSeq(s, a + 1, b) = SubSeq(s, 1, b)
OBVIOUS

-----------------------------------------------------------------------------
(* Places of a subset in a listing.                                           *)

LEMMA SingleLists == \A x : Lists(<<x>>, {x}) /\ Lists(<<>>, {})
BY DEF Lists

\* Where a listing takes the elements of a subset.
PlacesOf(A, idx) == {i \in DOMAIN idx : idx[i] \in A}

LEMMA PlacesOfSubset ==
  ASSUME NEW S, NEW idx, Lists(idx, S), NEW A \in SUBSET S
  PROVE  Cardinality(PlacesOf(A, idx)) = Cardinality(A)
<1> DEFINE B == {i \in DOMAIN idx : idx[i] \in A}
           h == [i \in B |-> idx[i]]
<1>1. IsFiniteSet(S) /\ DOMAIN idx = 1..Len(idx) /\ Len(idx) \in Nat
  BY ListsCard
<1>2. IsFiniteSet(A)
  BY <1>1, FS_Subset
<1>3. h \in [B -> A]
  OBVIOUS
<1>4. \A i, j \in B : h[i] = h[j] => i = j
  BY DEF Lists
<1>5. \A x \in A : \E i \in B : h[i] = x
  BY DEF Lists
<1> HIDE DEF h, B
<1>6. h \in Bijection(B, A)
  BY <1>3, <1>4, <1>5 DEF Bijection, Injection, Surjection, IsInjective
<1>7. IsFiniteSet(B)
  <2>1. IsFiniteSet(1..Len(idx)) /\ B \in SUBSET (1..Len(idx))
    BY <1>1, FS_Interval DEF B
  <2> QED BY <2>1, FS_Subset
<1>8. Cardinality(B) = Cardinality(A)
  <2>1. ExistsBijection(B, A)
    BY <1>6 DEF ExistsBijection
  <2> QED BY <1>7, <2>1, FS_Bijection
<1> QED BY <1>8 DEF B, PlacesOf

-----------------------------------------------------------------------------
(* Sums over finite sets of positions.                                        *)

Chosen(s) == CHOOSE x \in s : TRUE

Rest(s)   == s \ {Chosen(s)}

IsSum(t, w, S) == t = [s \in SUBSET S |-> IF s = {} THEN 0 ELSE w[Chosen(s)] + t[Rest(s)]]

Sum(w, S) == (CHOOSE t : IsSum(t, w, S))[S]

IntOn(w, S) == \A i \in S : w[i] \in Int

NatOn(w, S) == \A i \in S : w[i] \in Nat

LEMMA TotalIsSum ==
  ASSUME NEW seq
  PROVE  Total(seq) = Sum(seq, DOMAIN seq)
BY DEF Total, FoldSeq, FoldFunction, FoldFunctionOnSet, MapThenFoldSet,
       Sum, IsSum, Chosen, Rest

LEMMA RestIsSmaller ==
  ASSUME NEW s, IsFiniteSet(s), s # {}
  PROVE  /\ Rest(s) \in SUBSET s /\ Chosen(s) \in s /\ Chosen(s) \notin Rest(s)
         /\ IsFiniteSet(Rest(s)) /\ Cardinality(Rest(s)) = Cardinality(s) - 1
         /\ Cardinality(s) \in Nat
BY FS_RemoveElement, FS_CardinalityType DEF Rest, Chosen

SmallSubsets(S, n) == {s \in SUBSET S : Cardinality(s) <= n}

SumUpTo(t, w, S, n) ==
  t = [s \in SmallSubsets(S, n) |-> IF s = {} THEN 0 ELSE w[Chosen(s)] + t[Rest(s)]]

LEMMA SumExists ==
  ASSUME NEW w, NEW S, IsFiniteSet(S)
  PROVE  \E t : IsSum(t, w, S)
<1> DEFINE Good == {n \in Nat : \E t : SumUpTo(t, w, S, n)}
<1>1. 0 \in Good
  <2> DEFINE t == [s \in SmallSubsets(S, 0) |-> 0]
  <2>1. \A s \in SmallSubsets(S, 0) : s = {}
    BY FS_Subset, FS_EmptySet, FS_CardinalityType DEF SmallSubsets
  <2>2. SumUpTo(t, w, S, 0)
    BY <2>1 DEF SumUpTo
  <2> QED BY <2>2
<1>2. ASSUME NEW n \in Nat, n \in Good
      PROVE  n + 1 \in Good
  <2>1. PICK t : SumUpTo(t, w, S, n)
    BY <1>2
  <2> DEFINE more == [s \in SmallSubsets(S, n + 1) |->
                        IF s = {} THEN 0 ELSE w[Chosen(s)] + t[Rest(s)]]
  <2>2. ASSUME NEW s \in SmallSubsets(S, n + 1), s # {}
        PROVE  Rest(s) \in SmallSubsets(S, n)
    <3>1. s \in SUBSET S /\ Cardinality(s) <= n + 1 /\ IsFiniteSet(s)
      BY FS_Subset DEF SmallSubsets
    <3>2. Cardinality(s) \in Nat /\ Cardinality(Rest(s)) = Cardinality(s) - 1 /\ Rest(s) \subseteq s
      BY <2>2, <3>1, RestIsSmaller
    <3> QED BY <3>1, <3>2 DEF SmallSubsets
  <2>3. ASSUME NEW r \in SmallSubsets(S, n)
        PROVE  r \in SmallSubsets(S, n + 1) /\ more[r] = t[r]
    <3>1. r \in SmallSubsets(S, n + 1)
      <4>1. IsFiniteSet(r)
        BY FS_Subset DEF SmallSubsets
      <4>2. Cardinality(r) \in Nat
        BY <4>1, FS_CardinalityType
      <4> QED BY <4>2 DEF SmallSubsets
    <3>2. t[r] = IF r = {} THEN 0 ELSE w[Chosen(r)] + t[Rest(r)]
      BY <2>1 DEF SumUpTo
    <3> QED BY <3>1, <3>2
  <2>4. \A s \in SmallSubsets(S, n + 1) :
          more[s] = IF s = {} THEN 0 ELSE w[Chosen(s)] + more[Rest(s)]
    BY <2>2, <2>3
  <2>5. SumUpTo(more, w, S, n + 1)
    <3>1. more = [s \in SmallSubsets(S, n + 1) |-> more[s]]
      OBVIOUS
    <3> HIDE DEF more
    <3> QED BY <2>4, <3>1 DEF SumUpTo
  <2> QED BY <2>5
<1>3. Cardinality(S) \in Good
  <2> HIDE DEF Good
  <2> QED BY <1>1, <1>2, SetInduction, FS_CardinalityType
<1>4. SmallSubsets(S, Cardinality(S)) = SUBSET S
  BY FS_Subset DEF SmallSubsets
<1> QED BY <1>3, <1>4 DEF SumUpTo, IsSum

Agree(v, w, S) == \A i \in S : v[i] = w[i]

\* The sum over a set is the same in every table that has it.
LEMMA SumTables ==
  ASSUME NEW S, IsFiniteSet(S), NEW T, IsFiniteSet(T), NEW v, NEW w,
         NEW t, IsSum(t, v, S), NEW u, IsSum(u, w, T), NEW r, r \in SUBSET S, r \in SUBSET T,
         Agree(v, w, r)
  PROVE  t[r] = u[r]
<1> DEFINE Good == {n \in Nat : \A s \in SUBSET r : Cardinality(s) = n => t[s] = u[s]}
<1>1. \A s \in SUBSET r : /\ s \in SUBSET S /\ s \in SUBSET T /\ IsFiniteSet(s)
                          /\ Cardinality(s) \in Nat
  BY FS_Subset, FS_CardinalityType
<1>2. \A s \in SUBSET r : /\ t[s] = (IF s = {} THEN 0 ELSE v[Chosen(s)] + t[Rest(s)])
                          /\ u[s] = (IF s = {} THEN 0 ELSE w[Chosen(s)] + u[Rest(s)])
  BY <1>1 DEF IsSum
<1>3. 0 \in Good
  BY <1>1, <1>2, FS_EmptySet
<1>4. ASSUME NEW n \in Nat, n \in Good
      PROVE  n + 1 \in Good
  <2>1. ASSUME NEW s \in SUBSET r, Cardinality(s) = n + 1
        PROVE  t[s] = u[s]
    <3>1. s # {} /\ IsFiniteSet(s)
      BY <1>1, <2>1, FS_EmptySet
    <3>2. Rest(s) \in SUBSET r /\ Cardinality(Rest(s)) = n /\ Chosen(s) \in r
      BY <2>1, <3>1, RestIsSmaller
    <3>3. t[Rest(s)] = u[Rest(s)] /\ v[Chosen(s)] = w[Chosen(s)]
      BY <1>4, <3>2 DEF Agree
    <3> QED BY <1>2, <3>1, <3>3
  <2> QED BY <2>1
<1>5. Cardinality(r) \in Good
  <2>1. Cardinality(r) \in Nat
    BY <1>1
  <2> HIDE DEF Good
  <2> QED BY <1>3, <1>4, <2>1, SetInduction
<1> QED BY <1>5

LEMMA SumUnfolds ==
  ASSUME NEW S, IsFiniteSet(S), NEW w
  PROVE  Sum(w, S) = IF S = {} THEN 0 ELSE w[Chosen(S)] + Sum(w, Rest(S))
<1> DEFINE t == CHOOSE t : IsSum(t, w, S)
           u == CHOOSE u : IsSum(u, w, Rest(S))
<1>1. IsSum(t, w, S)
  BY SumExists
<1> HIDE DEF t
<1>2. Sum(w, S) = t[S] /\ t[S] = IF S = {} THEN 0 ELSE w[Chosen(S)] + t[Rest(S)]
  <2>1. Sum(w, S) = t[S]
    BY DEF Sum, t
  <2>2. S \in SUBSET S
    OBVIOUS
  <2> QED BY <1>1, <2>1, <2>2 DEF IsSum
<1>3. CASE S # {}
  <2>1. IsFiniteSet(Rest(S)) /\ Rest(S) \in SUBSET S
    BY <1>3, RestIsSmaller
  <2>2. IsSum(u, w, Rest(S))
    BY <2>1, SumExists
  <2> HIDE DEF u
  <2>3. Rest(S) \in SUBSET Rest(S) /\ Agree(w, w, Rest(S))
    BY DEF Agree
  <2>4. t[Rest(S)] = u[Rest(S)]
    BY <1>1, <2>1, <2>2, <2>3, SumTables
  <2>5. u[Rest(S)] = Sum(w, Rest(S))
    BY DEF u, Sum
  <2> QED BY <1>2, <1>3, <2>4, <2>5
<1> QED BY <1>2, <1>3

LEMMA SumNone == \A w : Sum(w, {}) = 0
BY SumUnfolds, FS_EmptySet

LEMMA SumType ==
  ASSUME NEW S, IsFiniteSet(S), NEW w, IntOn(w, S)
  PROVE  Sum(w, S) \in Int /\ (NatOn(w, S) => Sum(w, S) \in Nat)
<1> DEFINE Good == {n \in Nat : \A s \in SUBSET S : Cardinality(s) = n =>
                      Sum(w, s) \in Int /\ (NatOn(w, S) => Sum(w, s) \in Nat)}
<1>1. \A s \in SUBSET S : IsFiniteSet(s) /\ Cardinality(s) \in Nat
  BY FS_Subset, FS_CardinalityType
<1>2. 0 \in Good
  BY <1>1, SumNone, FS_EmptySet
<1>3. ASSUME NEW n \in Nat, n \in Good
      PROVE  n + 1 \in Good
  <2>1. ASSUME NEW s \in SUBSET S, Cardinality(s) = n + 1
        PROVE  Sum(w, s) \in Int /\ (NatOn(w, S) => Sum(w, s) \in Nat)
    <3>1. s # {} /\ IsFiniteSet(s)
      BY <1>1, <2>1, FS_EmptySet
    <3>2. Rest(s) \in SUBSET S /\ Cardinality(Rest(s)) = n /\ Chosen(s) \in S
      BY <2>1, <3>1, RestIsSmaller
    <3>3. Sum(w, Rest(s)) \in Int /\ (NatOn(w, S) => Sum(w, Rest(s)) \in Nat)
      BY <1>3, <3>2
    <3>4. Sum(w, s) = w[Chosen(s)] + Sum(w, Rest(s))
      BY <3>1, SumUnfolds
    <3>5. w[Chosen(s)] \in Int /\ (NatOn(w, S) => w[Chosen(s)] \in Nat)
      BY <3>2 DEF IntOn, NatOn
    <3> QED BY <3>3, <3>4, <3>5
  <2> QED BY <2>1
<1>4. Cardinality(S) \in Good
  <2>1. Cardinality(S) \in Nat
    BY FS_CardinalityType
  <2> HIDE DEF Good
  <2> QED BY <1>2, <1>3, <2>1, SetInduction
<1> QED BY <1>4

\* Any element can be taken out of a sum.
LEMMA SumRemove ==
  ASSUME NEW S, IsFiniteSet(S), NEW w, IntOn(w, S), NEW x \in S
  PROVE  Sum(w, S) = w[x] + Sum(w, S \ {x})
<1> DEFINE Good == {n \in Nat : \A s \in SUBSET S : Cardinality(s) = n =>
                      \A y \in s : Sum(w, s) = w[y] + Sum(w, s \ {y})}
<1>1. \A s \in SUBSET S : IsFiniteSet(s) /\ Cardinality(s) \in Nat /\ Sum(w, s) \in Int
  <2>1. \A s \in SUBSET S : IntOn(w, s)
    BY DEF IntOn
  <2> QED BY <2>1, SumType, FS_Subset, FS_CardinalityType
<1>2. 0 \in Good
  BY <1>1, FS_EmptySet
<1>3. ASSUME NEW n \in Nat, n \in Good
      PROVE  n + 1 \in Good
  <2>1. ASSUME NEW s \in SUBSET S, Cardinality(s) = n + 1, NEW y \in s
        PROVE  Sum(w, s) = w[y] + Sum(w, s \ {y})
    <3> DEFINE c == Chosen(s)
    <3>1. s # {} /\ IsFiniteSet(s)
      BY <1>1, <2>1
    <3>2. c \in s /\ Rest(s) = s \ {c} /\ Cardinality(Rest(s)) = n /\ Rest(s) \in SUBSET S
      BY <2>1, <3>1, RestIsSmaller DEF Rest
    <3>3. Sum(w, s) = w[c] + Sum(w, s \ {c})
      BY <3>1, <3>2, SumUnfolds
    <3> HIDE DEF c
    <3>4. CASE y # c
      <4>1. y \in s \ {c} /\ s \ {c} \in SUBSET S /\ Cardinality(s \ {c}) = n
        BY <3>2, <3>4
      <4>2. Sum(w, s \ {c}) = w[y] + Sum(w, (s \ {c}) \ {y})
        BY <1>3, <4>1
      <4>3. c \in s \ {y} /\ s \ {y} \in SUBSET S /\ Cardinality(s \ {y}) = n
        <5>1. Cardinality(s \ {y}) = Cardinality(s) - 1
          BY <2>1, <3>1, FS_RemoveElement
        <5> QED BY <2>1, <3>2, <3>4, <5>1
      <4>4. Sum(w, s \ {y}) = w[c] + Sum(w, (s \ {y}) \ {c})
        BY <1>3, <4>3
      <4>5. (s \ {y}) \ {c} = (s \ {c}) \ {y} /\ (s \ {c}) \ {y} \in SUBSET S
        BY <4>1
      <4>6. Sum(w, (s \ {c}) \ {y}) \in Int /\ w[y] \in Int /\ w[c] \in Int
        BY <1>1, <2>1, <3>2, <4>5 DEF IntOn
      <4>7. Sum(w, (s \ {y}) \ {c}) = Sum(w, (s \ {c}) \ {y})
        BY <4>5
      <4> QED BY <3>3, <4>2, <4>4, <4>6, <4>7
    <3> QED BY <3>3, <3>4
  <2> QED BY <2>1
<1>4. Cardinality(S) \in Good
  <2>1. Cardinality(S) \in Nat
    BY FS_CardinalityType
  <2> HIDE DEF Good
  <2> QED BY <1>2, <1>3, <2>1, SetInduction
<1> QED BY <1>4

LEMMA SumOne ==
  ASSUME NEW w, NEW x, w[x] \in Int
  PROVE  Sum(w, {x}) = w[x]
<1>1. IsFiniteSet({x}) /\ x \in {x} /\ {x} \ {x} = {} /\ IntOn(w, {x})
  BY FS_Singleton DEF IntOn
<1>2. Sum(w, {x}) = w[x] + Sum(w, {x} \ {x})
  BY <1>1, SumRemove
<1> QED BY <1>1, <1>2, SumNone

LEMMA SumUnion ==
  ASSUME NEW A, IsFiniteSet(A), NEW B, IsFiniteSet(B), A \cap B = {},
         NEW w, IntOn(w, A), IntOn(w, B)
  PROVE  Sum(w, A \cup B) = Sum(w, A) + Sum(w, B)
<1> DEFINE Good == {n \in Nat : \A s \in SUBSET B : Cardinality(s) = n =>
                      Sum(w, A \cup s) = Sum(w, A) + Sum(w, s)}
<1>1. \A s \in SUBSET B : /\ IsFiniteSet(s) /\ Cardinality(s) \in Nat
                          /\ IsFiniteSet(A \cup s) /\ IntOn(w, s) /\ IntOn(w, A \cup s)
  BY FS_Subset, FS_CardinalityType, FS_Union DEF IntOn
<1>2. Sum(w, A) \in Int /\ \A s \in SUBSET B : Sum(w, s) \in Int
  BY <1>1, SumType
<1>3. 0 \in Good
  <2>1. A \cup {} = A
    OBVIOUS
  <2>2. Sum(w, A \cup {}) = Sum(w, A) + Sum(w, {})
    BY <1>2, <2>1, SumNone
  <2> QED BY <1>1, <2>2, FS_EmptySet
<1>4. ASSUME NEW n \in Nat, n \in Good
      PROVE  n + 1 \in Good
  <2>1. ASSUME NEW s \in SUBSET B, Cardinality(s) = n + 1
        PROVE  Sum(w, A \cup s) = Sum(w, A) + Sum(w, s)
    <3>1. s # {}
      BY <2>1, FS_EmptySet
    <3>2. PICK x \in s : TRUE
      BY <3>1
    <3>3. s \ {x} \in SUBSET B /\ Cardinality(s \ {x}) = n
      <4>1. IsFiniteSet(s) /\ x \in s
        BY <1>1, <3>2
      <4>2. Cardinality(s \ {x}) = Cardinality(s) - 1
        BY <4>1, FS_RemoveElement
      <4> QED BY <2>1, <4>2
    <3>4. Sum(w, A \cup (s \ {x})) = Sum(w, A) + Sum(w, s \ {x})
      BY <1>4, <3>3
    <3>5. (A \cup s) \ {x} = A \cup (s \ {x}) /\ x \in A \cup s
      OBVIOUS
    <3>6. Sum(w, A \cup s) = w[x] + Sum(w, (A \cup s) \ {x})
      BY <1>1, <3>5, SumRemove
    <3>7. Sum(w, s) = w[x] + Sum(w, s \ {x})
      BY <1>1, SumRemove
    <3>8. w[x] \in Int /\ Sum(w, s \ {x}) \in Int
      BY <1>2, <3>3 DEF IntOn
    <3> QED BY <1>2, <3>4, <3>5, <3>6, <3>7, <3>8
  <2> QED BY <2>1
<1>5. Cardinality(B) \in Good
  <2>1. Cardinality(B) \in Nat
    BY FS_CardinalityType
  <2> HIDE DEF Good
  <2> QED BY <1>3, <1>4, <2>1, SetInduction
<1> QED BY <1>5

\* Summing along a one-to-one map.
LEMMA SumImage ==
  ASSUME NEW A, IsFiniteSet(A), NEW h, OneToOne(h, A), NEW v, NEW w,
         IntOn(v, A), \A i \in A : v[i] = w[h[i]]
  PROVE  Sum(v, A) = Sum(w, ElementsAt(h, A)) /\ IntOn(w, ElementsAt(h, A))
         /\ IsFiniteSet(ElementsAt(h, A))
<1> DEFINE Good == {n \in Nat : \A s \in SUBSET A : Cardinality(s) = n =>
                      Sum(v, s) = Sum(w, ElementsAt(h, s)) /\ IsFiniteSet(ElementsAt(h, s))}
<1>1. \A s \in SUBSET A : /\ IsFiniteSet(s) /\ Cardinality(s) \in Nat
                          /\ IntOn(v, s) /\ IntOn(w, ElementsAt(h, s))
  BY FS_Subset, FS_CardinalityType DEF IntOn, ElementsAt
<1>2. 0 \in Good
  <2>1. ElementsAt(h, {}) = {}
    BY DEF ElementsAt
  <2> QED BY <1>1, <2>1, SumNone, FS_EmptySet
<1>3. ASSUME NEW n \in Nat, n \in Good
      PROVE  n + 1 \in Good
  <2>1. ASSUME NEW s \in SUBSET A, Cardinality(s) = n + 1
        PROVE  Sum(v, s) = Sum(w, ElementsAt(h, s)) /\ IsFiniteSet(ElementsAt(h, s))
    <3>1. s # {}
      BY <2>1, FS_EmptySet
    <3>2. PICK x \in s : TRUE
      BY <3>1
    <3> DEFINE r == s \ {x}
    <3>3. r \in SUBSET A /\ Cardinality(r) = n
      <4>1. IsFiniteSet(s) /\ x \in s
        BY <1>1, <3>2
      <4>2. Cardinality(s \ {x}) = Cardinality(s) - 1
        BY <4>1, FS_RemoveElement
      <4> QED BY <2>1, <4>2
    <3>4. Sum(v, r) = Sum(w, ElementsAt(h, r)) /\ IsFiniteSet(ElementsAt(h, r))
      BY <1>3, <3>3
    <3>5. /\ ElementsAt(h, s) = ElementsAt(h, r) \cup {h[x]}
          /\ h[x] \notin ElementsAt(h, r)
          /\ ElementsAt(h, s) \ {h[x]} = ElementsAt(h, r) /\ h[x] \in ElementsAt(h, s)
      BY DEF ElementsAt, OneToOne
    <3>6. IsFiniteSet(ElementsAt(h, s))
      <4>1. IsFiniteSet(ElementsAt(h, r) \cup {h[x]})
        BY <3>4, FS_AddElement
      <4> QED BY <3>5, <4>1
    <3>7. Sum(w, ElementsAt(h, s)) = w[h[x]] + Sum(w, ElementsAt(h, s) \ {h[x]})
      BY <1>1, <3>5, <3>6, SumRemove
    <3>8. Sum(v, s) = v[x] + Sum(v, r)
      BY <1>1, SumRemove
    <3>9. v[x] = w[h[x]]
      OBVIOUS
    <3> QED BY <3>4, <3>5, <3>6, <3>7, <3>8, <3>9
  <2> QED BY <2>1
<1>4. Cardinality(A) \in Good
  <2>1. Cardinality(A) \in Nat
    BY FS_CardinalityType
  <2> HIDE DEF Good
  <2> QED BY <1>2, <1>3, <2>1, SetInduction
<1>5. A \in SUBSET A
  OBVIOUS
<1> QED BY <1>1, <1>4, <1>5

-----------------------------------------------------------------------------
(* Largest differencing: the states that fill k parts.                        *)

Weights(w, n) == n \in Nat /\ DOMAIN w = 1..n /\ NatOn(w, 1..n)

ItemsOf(p) == Range(p.items)

IsPart(p, w) ==
  /\ p.items \in Seq(DOMAIN w) /\ Lists(p.items, ItemsOf(p)) /\ Len(p.items) >= 1
  /\ p.sum = Sum(w, ItemsOf(p))

IsSlot(p, w) == p = EmptyPart \/ IsPart(p, w)

Apart(s) == \A p, q \in s : p # q => ItemsOf(p) \cap ItemsOf(q) = {}

Held(s) == UNION {ItemsOf(p) : p \in s}

GoodState(s, w, k) ==
  IsFiniteSet(s) /\ Cardinality(s) <= k /\ (\A p \in s : IsPart(p, w)) /\ Apart(s)

LEMMA SeqElements ==
  ASSUME NEW S, NEW t, t \in Seq(S)
  PROVE  Len(t) \in Nat /\ DOMAIN t = 1..Len(t) /\ \A i \in DOMAIN t : t[i] \in S
OBVIOUS

LEMMA SeqWider ==
  ASSUME NEW S, NEW T, S \in SUBSET T, NEW t, t \in Seq(S)
  PROVE  t \in Seq(T)
OBVIOUS

LEMMA ListsRange ==
  ASSUME NEW S, NEW s, Lists(s, S)
  PROVE  Range(s) = S
<1>1. s \in Seq(S) /\ DOMAIN s = 1..Len(s)
  BY DEF Lists
<1>2. \A i \in DOMAIN s : s[i] \in S
  BY <1>1
<1> QED BY <1>2 DEF Lists, Range

LEMMA SlotFacts ==
  ASSUME NEW n, NEW w, Weights(w, n), NEW p, IsSlot(p, w)
  PROVE  /\ p.items \in Seq(1..n) /\ Lists(p.items, ItemsOf(p)) /\ Len(p.items) \in Nat
         /\ ItemsOf(p) \in SUBSET (1..n) /\ IsFiniteSet(ItemsOf(p))
         /\ Cardinality(ItemsOf(p)) = Len(p.items)
         /\ p.sum = Sum(w, ItemsOf(p)) /\ p.sum \in Nat
         /\ (Len(p.items) = 0 <=> p = EmptyPart)
<1>1. DOMAIN w = 1..n /\ NatOn(w, 1..n) /\ n \in Nat
  BY DEF Weights
<1>2. EmptyPart.items = <<>> /\ EmptyPart.sum = 0 /\ Len(<<>>) = 0
  BY DEF EmptyPart
<1>3. /\ p.items \in Seq(1..n) /\ Lists(p.items, ItemsOf(p)) /\ p.sum = Sum(w, ItemsOf(p))
      /\ (Len(p.items) = 0 <=> p = EmptyPart)
  <2>1. CASE p = EmptyPart
    <3>1. ItemsOf(p) = {} /\ p.items = <<>>
      BY <1>2, <2>1 DEF ItemsOf, Range
    <3>2. Lists(<<>>, {})
      BY SingleLists
    <3>3. <<>> \in Seq(1..n)
      OBVIOUS
    <3> QED BY <1>2, <2>1, <3>1, <3>2, <3>3, SumNone
  <2>2. CASE IsPart(p, w) /\ p # EmptyPart
    <3>1. p.items \in Seq(1..n) /\ Len(p.items) >= 1
      BY <1>1, <2>2 DEF IsPart
    <3>2. Len(p.items) # 0
      BY <3>1
    <3> QED BY <2>2, <3>1, <3>2 DEF IsPart
  <2> QED BY <2>1, <2>2 DEF IsSlot
<1>4. /\ IsFiniteSet(ItemsOf(p)) /\ Cardinality(ItemsOf(p)) = Len(p.items) /\ Len(p.items) \in Nat
      /\ DOMAIN p.items = 1..Len(p.items)
  BY <1>3, ListsCard
<1>5. ItemsOf(p) \in SUBSET (1..n)
  <2> DEFINE t == p.items
  <2>1. t \in Seq(1..n)
    BY <1>3
  <2> HIDE DEF t
  <2>2. \A i \in DOMAIN t : t[i] \in 1..n
    BY <2>1, SeqElements
  <2> QED BY <2>2 DEF ItemsOf, Range, t
<1>6. IntOn(w, ItemsOf(p)) /\ NatOn(w, ItemsOf(p))
  BY <1>1, <1>5 DEF IntOn, NatOn
<1>7. p.sum \in Nat
  BY <1>3, <1>4, <1>6, SumType
<1> QED BY <1>3, <1>4, <1>5, <1>7

LEMMA PartFacts ==
  ASSUME NEW n, NEW w, Weights(w, n), NEW p, IsPart(p, w)
  PROVE  /\ IsSlot(p, w) /\ p # EmptyPart /\ Len(p.items) >= 1 /\ Len(p.items) \in Nat
         /\ p.items[1] \in ItemsOf(p) /\ p.items[1] \in Int /\ p.sum \in Int
<1>1. IsSlot(p, w)
  BY DEF IsSlot
<1>2. /\ p.items \in Seq(1..n) /\ Len(p.items) \in Nat /\ p.sum \in Nat
      /\ (Len(p.items) = 0 <=> p = EmptyPart)
  BY <1>1, SlotFacts
<1>3. Len(p.items) >= 1
  BY DEF IsPart
<1>4. 1 \in DOMAIN p.items /\ p.items[1] \in 1..n
  <2> DEFINE t == p.items
  <2>1. t \in Seq(1..n) /\ Len(t) >= 1
    BY <1>2, <1>3
  <2> HIDE DEF t
  <2>2. DOMAIN t = 1..Len(t) /\ Len(t) \in Nat /\ \A i \in DOMAIN t : t[i] \in 1..n
    BY <2>1, SeqElements
  <2>3. 1 \in DOMAIN t
    BY <2>1, <2>2
  <2> QED BY <2>2, <2>3 DEF t
<1>5. n \in Nat
  BY DEF Weights
<1> QED BY <1>1, <1>2, <1>3, <1>4, <1>5 DEF ItemsOf, Range

\* The order of parts is strict among those that share no item.
LEMMA LighterOrder ==
  ASSUME NEW n, NEW w, Weights(w, n), NEW s, \A p \in s : IsPart(p, w), Apart(s)
  PROVE  /\ \A a \in s : ~Lighter(a, a)
         /\ \A a, b, c \in s : Lighter(a, b) /\ Lighter(b, c) => Lighter(a, c)
         /\ \A a, b \in s : a # b => Lighter(a, b) \/ Lighter(b, a)
<1>1. \A p \in s : /\ Len(p.items) \in Int /\ p.items[1] \in Int /\ p.sum \in Int
                   /\ p.items[1] \in ItemsOf(p)
  BY PartFacts
<1>2. \A a, b \in s : a # b => a.items[1] # b.items[1]
  BY <1>1 DEF Apart
<1>3. \A a \in s : ~Lighter(a, a)
  BY <1>1 DEF Lighter
<1>4. ASSUME NEW a \in s, NEW b \in s, NEW c \in s, Lighter(a, b), Lighter(b, c)
      PROVE  Lighter(a, c)
  <2> DEFINE la == Len(a.items)
             lb == Len(b.items)
             lc == Len(c.items)
             fa == a.items[1]
             fb == b.items[1]
             fc == c.items[1]
             sa == a.sum
             sb == b.sum
             sc == c.sum
  <2>1. {la, lb, lc, fa, fb, fc, sa, sb, sc} \subseteq Int
    BY <1>1
  <2>2. sa < sb \/ (sa = sb /\ la < lb) \/ (sa = sb /\ la = lb /\ fa < fb)
    BY <1>4 DEF Lighter
  <2>3. sb < sc \/ (sb = sc /\ lb < lc) \/ (sb = sc /\ lb = lc /\ fb < fc)
    BY <1>4 DEF Lighter
  <2>4. sa < sc \/ (sa = sc /\ la < lc) \/ (sa = sc /\ la = lc /\ fa < fc)
    <3> HIDE DEF la, lb, lc, fa, fb, fc, sa, sb, sc
    <3> QED BY <2>1, <2>2, <2>3
  <2> QED BY <2>4 DEF Lighter
<1>5. ASSUME NEW a \in s, NEW b \in s, a # b
      PROVE  Lighter(a, b) \/ Lighter(b, a)
  <2>1. a.items[1] # b.items[1]
    BY <1>2, <1>5
  <2>2. /\ a.items[1] \in Int /\ b.items[1] \in Int /\ a.sum \in Int /\ b.sum \in Int
        /\ Len(a.items) \in Int /\ Len(b.items) \in Int
    BY <1>1
  <2> QED BY <2>1, <2>2 DEF Lighter
<1> QED BY <1>3, <1>4, <1>5

HeaviestOrder(h, s, k) ==
  LET m == Cardinality(s)
  IN  /\ m \in 0..k /\ DOMAIN h = 1..k
      /\ \A i \in 1..m : h[i] \in s
      /\ \A p \in s : \E i \in 1..m : h[i] = p
      /\ \A i, j \in 1..m : h[i] = h[j] => i = j
      /\ \A i \in (m + 1)..k : h[i] = EmptyPart
      /\ \A i, j \in 1..m : i < j => Lighter(h[j], h[i])

LEMMA HeaviestFirstIs ==
  ASSUME NEW n, NEW w, Weights(w, n), NEW k \in Nat \ {0}, NEW s, GoodState(s, w, k)
  PROVE  HeaviestOrder(HeaviestFirst(s, k), s, k)
<1> DEFINE m == Cardinality(s)
           R == {p \in s \X s : Lighter(p[2], p[1])}
           f == SortedBy(s, LAMBDA a, b: Lighter(b, a))
           h == HeaviestFirst(s, k)
<1>0. IsFiniteSet(s) /\ m <= k /\ m \in Nat /\ m \in 0..k
  BY FS_CardinalityType DEF GoodState
<1>1. \A x, y \in s : <<x, y>> \in R <=> Lighter(y, x)
  OBVIOUS
<1> HIDE DEF R
<1>2. StrictOrder(R, s)
  <2>1. /\ \A a \in s : ~Lighter(a, a)
        /\ \A a, b, c \in s : Lighter(a, b) /\ Lighter(b, c) => Lighter(a, c)
        /\ \A a, b \in s : a # b => Lighter(a, b) \/ Lighter(b, a)
    <3>1. (\A p \in s : IsPart(p, w)) /\ Apart(s)
      BY DEF GoodState
    <3> QED BY <3>1, LighterOrder
  <2> QED BY <1>1, <2>1 DEF StrictOrder
<1>3. \A x \in s : {y \in s : Lighter(x, y)} = Ahead(R, s, x)
  BY <1>1 DEF Ahead
<1>4. f = [i \in 1..m |-> CHOOSE x \in s : Cardinality({y \in s : Lighter(x, y)}) = i - 1]
  BY DEF SortedBy
<1>5. ASSUME NEW i \in 1..m
      PROVE  f[i] \in s /\ Cardinality({y \in s : Lighter(f[i], y)}) = i - 1
  <2>1. \E x \in s : Cardinality(Ahead(R, s, x)) = i - 1
    BY <1>0, <1>2, PlaceTaken
  <2>2. \E x \in s : Cardinality({y \in s : Lighter(x, y)}) = i - 1
    BY <1>3, <2>1
  <2>3. f[i] = CHOOSE x \in s : Cardinality({y \in s : Lighter(x, y)}) = i - 1
    BY <1>4
  <2> HIDE DEF f
  <2> QED BY <2>2, <2>3
<1>6. f \in [1..m -> s]
  BY <1>4, <1>5
<1>h. h = [i \in 1..k |-> IF i <= m THEN f[i] ELSE EmptyPart]
  BY DEF HeaviestFirst
<1> HIDE DEF f, h
<1>7. \A i \in 1..m : Cardinality(Ahead(R, s, f[i])) = i - 1
  BY <1>3, <1>5
<1>8. /\ Lists(f, s) /\ DOMAIN f = 1..m
      /\ \A i, j \in DOMAIN f : i < j => <<f[i], f[j]>> \in R
  BY <1>0, <1>2, <1>6, <1>7, InPlace
<1>9. (\A i \in 1..m : h[i] = f[i]) /\ (\A i \in (m + 1)..k : h[i] = EmptyPart) /\ DOMAIN h = 1..k
  <2>1. \A i \in 1..m : i \in 1..k /\ i <= m
    BY <1>0
  <2>2. \A i \in (m + 1)..k : i \in 1..k /\ ~(i <= m)
    BY <1>0
  <2> QED BY <1>h, <2>1, <2>2
<1>10. \A i \in 1..m : h[i] \in s
  BY <1>6, <1>9
<1>11. \A p \in s : \E i \in 1..m : h[i] = p
  BY <1>8, <1>9 DEF Lists
<1>12. \A i, j \in 1..m : h[i] = h[j] => i = j
  BY <1>8, <1>9 DEF Lists
<1>13. \A i, j \in 1..m : i < j => Lighter(h[j], h[i])
  BY <1>1, <1>6, <1>8, <1>9
<1> HIDE DEF m
<1> QED BY <1>0, <1>9, <1>10, <1>11, <1>12, <1>13 DEF HeaviestOrder, m, h

\* Slots: k parts or empty parts that share no item.
Slots(g, w, k) ==
  /\ DOMAIN g = 1..k
  /\ \A i \in 1..k : IsSlot(g[i], w)
  /\ \A i, j \in 1..k : i # j => ItemsOf(g[i]) \cap ItemsOf(g[j]) = {}

SlotItems(g, k) == UNION {ItemsOf(g[i]) : i \in 1..k}

PartsIn(g, k) == {g[i] : i \in 1..k} \ {EmptyPart}

FilledAt(g, k) == {i \in 1..k : g[i] # EmptyPart}

LEMMA NoItems == ItemsOf(EmptyPart) = {}
BY DEF ItemsOf, EmptyPart, Range

LEMMA SlotsState ==
  ASSUME NEW n, NEW w, Weights(w, n), NEW k \in Nat \ {0}, NEW g, Slots(g, w, k)
  PROVE  /\ GoodState(PartsIn(g, k), w, k) /\ Held(PartsIn(g, k)) = SlotItems(g, k)
         /\ Cardinality(PartsIn(g, k)) = Cardinality(FilledAt(g, k))
         /\ IsFiniteSet(FilledAt(g, k))
<1> DEFINE s == PartsIn(g, k)
           F == FilledAt(g, k)
           h == [i \in F |-> g[i]]
<1>1. \A i \in 1..k : /\ IsSlot(g[i], w)
                      /\ g[i] # EmptyPart => IsPart(g[i], w) /\ ItemsOf(g[i]) # {}
  <2>1. \A i \in 1..k : IsSlot(g[i], w) /\ (g[i] # EmptyPart => IsPart(g[i], w))
    BY DEF Slots, IsSlot
  <2>2. \A p : IsPart(p, w) => ItemsOf(p) # {}
    BY PartFacts
  <2> QED BY <2>1, <2>2
<1>2. \A i, j \in F : g[i] = g[j] => i = j
  BY <1>1 DEF Slots, FilledAt
<1>3. h \in [F -> s] /\ \A p \in s : \E i \in F : h[i] = p
  BY DEF PartsIn, FilledAt
<1>4. \A i, j \in F : h[i] = h[j] => i = j
  BY <1>2
<1> HIDE DEF h
<1>5. IsFiniteSet(F) /\ Cardinality(F) <= k
  <2>1. F \in SUBSET (1..k) /\ IsFiniteSet(1..k) /\ Cardinality(1..k) = k
    BY FS_Interval DEF FilledAt
  <2> QED BY <2>1, FS_Subset
<1>6. IsFiniteSet(s) /\ Cardinality(s) = Cardinality(F)
  <2>1. h \in Bijection(F, s)
    BY <1>3, <1>4 DEF Bijection, Injection, Surjection, IsInjective
  <2>2. ExistsBijection(F, s)
    BY <2>1 DEF ExistsBijection
  <2> QED BY <1>5, <2>2, FS_Bijection
<1>7. \A p \in s : IsPart(p, w)
  BY <1>1 DEF PartsIn
<1>8. Apart(s)
  <2>1. ASSUME NEW p \in s, NEW q \in s, p # q
        PROVE  ItemsOf(p) \cap ItemsOf(q) = {}
    <3>1. PICK i \in 1..k : g[i] = p
      BY DEF PartsIn
    <3>2. PICK j \in 1..k : g[j] = q
      BY DEF PartsIn
    <3>3. i # j
      BY <2>1, <3>1, <3>2
    <3> QED BY <3>1, <3>2, <3>3 DEF Slots
  <2> QED BY <2>1 DEF Apart
<1>9. Held(s) = SlotItems(g, k)
  <2>1. ASSUME NEW i \in 1..k PROVE ItemsOf(g[i]) = {} \/ g[i] \in s
    BY NoItems DEF PartsIn
  <2>2. ASSUME NEW p \in s PROVE \E i \in 1..k : g[i] = p
    BY DEF PartsIn
  <2> HIDE DEF s
  <2> QED BY <2>1, <2>2 DEF Held, SlotItems
<1> QED BY <1>5, <1>6, <1>7, <1>8, <1>9 DEF GoodState

\* The parts of a state, heaviest first, are slots for its items.
LEMMA HeaviestSlots ==
  ASSUME NEW n, NEW w, Weights(w, n), NEW k \in Nat \ {0}, NEW s, GoodState(s, w, k)
  PROVE  LET h == HeaviestFirst(s, k)
         IN  /\ Slots(h, w, k) /\ SlotItems(h, k) = Held(s)
             /\ \A i \in 1..k : h[i] # EmptyPart <=> i <= Cardinality(s)
<1> DEFINE h == HeaviestFirst(s, k)
           m == Cardinality(s)
<1>1. HeaviestOrder(h, s, k)
  BY HeaviestFirstIs
<1> HIDE DEF h
<1>2. /\ m \in 0..k /\ DOMAIN h = 1..k
      /\ \A i \in 1..m : h[i] \in s
      /\ \A p \in s : \E i \in 1..m : h[i] = p
      /\ \A i, j \in 1..m : h[i] = h[j] => i = j
      /\ \A i \in (m + 1)..k : h[i] = EmptyPart
  BY <1>1 DEF HeaviestOrder
<1>3. (\A p \in s : IsPart(p, w) /\ p # EmptyPart) /\ Apart(s)
  BY PartFacts DEF GoodState
<1> HIDE DEF m
<1>4. \A i \in 1..k : i \in 1..m \/ i \in (m + 1)..k
  BY <1>2
<1>5. \A i \in 1..k : IsSlot(h[i], w)
  BY <1>2, <1>3, <1>4 DEF IsSlot
<1>6. ASSUME NEW i \in 1..k, NEW j \in 1..k, i # j
      PROVE  ItemsOf(h[i]) \cap ItemsOf(h[j]) = {}
  <2>1. CASE i \in 1..m /\ j \in 1..m
    BY <1>2, <1>3, <1>6, <2>1 DEF Apart
  <2>2. CASE i \in (m + 1)..k \/ j \in (m + 1)..k
    BY <1>2, <2>2, NoItems
  <2> QED BY <1>4, <2>1, <2>2
<1>7. SlotItems(h, k) = Held(s)
  <2>1. ASSUME NEW i \in 1..k PROVE ItemsOf(h[i]) = {} \/ h[i] \in s
    BY <1>2, <1>4, NoItems
  <2>2. ASSUME NEW p \in s PROVE \E i \in 1..k : h[i] = p
    <3>1. 1..m \subseteq 1..k
      BY <1>2
    <3> QED BY <1>2, <3>1
  <2> QED BY <2>1, <2>2 DEF Held, SlotItems
<1>8. ASSUME NEW i \in 1..k PROVE h[i] # EmptyPart <=> i <= m
  <2>1. CASE i \in 1..m
    <3>1. i <= m
      BY <1>2, <2>1
    <3> QED BY <1>2, <1>3, <2>1, <3>1
  <2>2. CASE i \in (m + 1)..k
    <3>1. ~(i <= m)
      BY <1>2, <2>2
    <3> QED BY <1>2, <2>2, <3>1
  <2> QED BY <1>4, <2>1, <2>2
<1> QED BY <1>2, <1>5, <1>6, <1>7, <1>8 DEF Slots, h, m

\* The sums fall along the order.
LEMMA SumsFall ==
  ASSUME NEW n, NEW w, Weights(w, n), NEW k \in Nat \ {0}, NEW s, GoodState(s, w, k)
  PROVE  LET h == HeaviestFirst(s, k)
         IN  /\ \A i \in 1..k : h[i].sum \in Nat
             /\ \A i, j \in 1..k : i <= j => h[i].sum >= h[j].sum
             /\ Spread(s, k) = h[1].sum - h[k].sum /\ Spread(s, k) \in Nat
<1> DEFINE h == HeaviestFirst(s, k)
           m == Cardinality(s)
<1>1. HeaviestOrder(h, s, k)
  BY HeaviestFirstIs
<1>2. \A i \in 1..k : IsSlot(h[i], w)
  BY HeaviestSlots DEF Slots
<1>s. Spread(s, k) = h[1].sum - h[k].sum
  BY DEF Spread
<1> HIDE DEF h
<1>3. /\ m \in 0..k /\ \A i \in (m + 1)..k : h[i] = EmptyPart
      /\ \A i, j \in 1..m : i < j => Lighter(h[j], h[i])
  BY <1>1 DEF HeaviestOrder
<1>4. \A i \in 1..k : h[i].sum \in Nat
  BY <1>2, SlotFacts
<1> HIDE DEF m
<1>5. ASSUME NEW i \in 1..k, NEW j \in 1..k, i <= j
      PROVE  h[i].sum >= h[j].sum
  <2>1. CASE j \in (m + 1)..k
    <3>1. h[j].sum = 0
      BY <1>3, <2>1 DEF EmptyPart
    <3> QED BY <1>4, <3>1
  <2>2. CASE j \notin (m + 1)..k /\ i # j
    <3>1. i \in 1..m /\ j \in 1..m /\ i < j
      BY <1>3, <1>5, <2>2
    <3>2. Lighter(h[j], h[i])
      BY <1>3, <3>1
    <3>3. h[j].sum < h[i].sum \/ h[j].sum = h[i].sum
      BY <3>2 DEF Lighter
    <3> QED BY <1>4, <3>3
  <2>3. CASE i = j
    BY <1>4, <2>3
  <2> QED BY <2>1, <2>2, <2>3
<1>6. h[1].sum >= h[k].sum /\ h[1].sum \in Nat /\ h[k].sum \in Nat
  <2>1. 1 \in 1..k /\ k \in 1..k /\ 1 <= k
    OBVIOUS
  <2> QED BY <1>4, <1>5, <2>1
<1>7. Spread(s, k) \in Nat
  BY <1>6, <1>s
<1> QED BY <1>4, <1>5, <1>7, <1>s DEF h

\* The spread of slots is the largest difference of their sums.
LEMMA SlotsSpread ==
  ASSUME NEW n, NEW w, Weights(w, n), NEW k \in Nat \ {0}, NEW g, Slots(g, w, k),
         NEW d, \A i, j \in 1..k : g[i].sum - g[j].sum <= d
  PROVE  Spread(PartsIn(g, k), k) <= d
<1> DEFINE s == PartsIn(g, k)
           h == HeaviestFirst(s, k)
           m == Cardinality(s)
<1>1. GoodState(s, w, k) /\ m = Cardinality(FilledAt(g, k)) /\ IsFiniteSet(FilledAt(g, k))
  BY SlotsState
<1>2. HeaviestOrder(h, s, k) /\ Spread(s, k) = h[1].sum - h[k].sum
  <2> HIDE DEF s
  <2> QED BY <1>1, HeaviestFirstIs, SumsFall
<1> HIDE DEF h
<1>3. /\ m \in 0..k /\ \A i \in 1..m : h[i] \in s
      /\ \A i \in (m + 1)..k : h[i] = EmptyPart
  BY <1>2 DEF HeaviestOrder
<1>4. m < k => \E j \in 1..k : g[j] = EmptyPart
  <2> SUFFICES ASSUME \A j \in 1..k : g[j] # EmptyPart PROVE m = k
    BY <1>3
  <2>1. FilledAt(g, k) = 1..k
    BY DEF FilledAt
  <2>2. Cardinality(1..k) = k
    BY FS_Interval
  <2> QED BY <1>1, <2>1, <2>2
<1> HIDE DEF m
<1>5. ASSUME NEW i \in 1..k PROVE \E j \in 1..k : h[i] = g[j]
  <2>1. CASE i \in 1..m
    BY <1>3, <2>1 DEF PartsIn
  <2>2. CASE i \notin 1..m
    <3>1. i \in (m + 1)..k /\ m < k
      BY <1>3, <2>2
    <3> QED BY <1>3, <1>4, <3>1
  <2> QED BY <2>1, <2>2
<1>6. 1 \in 1..k /\ k \in 1..k
  OBVIOUS
<1>7. PICK i \in 1..k : h[1] = g[i]
  BY <1>5, <1>6
<1>8. PICK j \in 1..k : h[k] = g[j]
  BY <1>5, <1>6
<1> QED BY <1>2, <1>7, <1>8

LEMMA JoinedSlot ==
  ASSUME NEW n, NEW w, Weights(w, n), NEW a, IsSlot(a, w), NEW b, IsSlot(b, w),
         ItemsOf(a) \cap ItemsOf(b) = {}
  PROVE  LET c == Joined(a, b)
         IN  /\ IsSlot(c, w) /\ ItemsOf(c) = ItemsOf(a) \cup ItemsOf(b)
             /\ c.sum = a.sum + b.sum /\ Len(c.items) = Len(a.items) + Len(b.items)
             /\ (c = EmptyPart <=> a = EmptyPart /\ b = EmptyPart)
<1> DEFINE c == Joined(a, b)
           x == a.items
           y == b.items
           A == ItemsOf(a)
           B == ItemsOf(b)
<1>1. /\ x \in Seq(1..n) /\ Lists(x, A) /\ A \in SUBSET (1..n) /\ IsFiniteSet(A)
      /\ a.sum = Sum(w, A) /\ Len(x) \in Nat /\ (Len(x) = 0 <=> a = EmptyPart)
  BY SlotFacts
<1>2. /\ y \in Seq(1..n) /\ Lists(y, B) /\ B \in SUBSET (1..n) /\ IsFiniteSet(B)
      /\ b.sum = Sum(w, B) /\ Len(y) \in Nat /\ (Len(y) = 0 <=> b = EmptyPart)
  BY SlotFacts
<1>3. c.items = x \o y /\ c.sum = a.sum + b.sum
  BY DEF Joined
<1>w. DOMAIN w = 1..n /\ NatOn(w, 1..n)
  BY DEF Weights
<1>d. A \cap B = {}
  OBVIOUS
<1>e. EmptyPart.items = <<>> /\ Len(<<>>) = 0
  BY DEF EmptyPart
<1>4. IntOn(w, A) /\ IntOn(w, B)
  BY <1>1, <1>2, <1>w DEF IntOn, NatOn
<1> HIDE DEF x, y, A, B, c
<1>5. x \o y \in Seq(1..n) /\ Len(x \o y) = Len(x) + Len(y)
  BY <1>1, <1>2
<1>6. Lists(x \o y, A \cup B)
  BY <1>1, <1>2, <1>d, ListsConcat
<1>7. ItemsOf(c) = A \cup B
  BY <1>3, <1>6, ListsRange DEF ItemsOf
<1>8. c.sum = Sum(w, A \cup B)
  <2>1. Sum(w, A \cup B) = Sum(w, A) + Sum(w, B)
    BY <1>1, <1>2, <1>4, <1>d, SumUnion
  <2> QED BY <1>1, <1>2, <1>3, <2>1
<1>9. CASE Len(x) = 0 /\ Len(y) = 0
  <2>1. a = EmptyPart /\ b = EmptyPart
    BY <1>1, <1>2, <1>9
  <2>2. c = EmptyPart
    BY <2>1 DEF c, Joined, EmptyPart
  <2> QED BY <1>3, <1>5, <1>7, <2>1, <2>2 DEF c, x, y, A, B, IsSlot
<1>10. CASE ~(Len(x) = 0 /\ Len(y) = 0)
  <2>1. Len(x \o y) >= 1
    BY <1>1, <1>2, <1>5, <1>10
  <2>2. IsPart(c, w)
    BY <1>3, <1>5, <1>6, <1>7, <1>8, <1>w, <2>1 DEF IsPart
  <2>3. c # EmptyPart
    <3>1. Len(c.items) # 0
      BY <1>3, <2>1
    <3> QED BY <1>e, <3>1
  <2>4. ~(a = EmptyPart /\ b = EmptyPart)
    BY <1>1, <1>2, <1>10
  <2> QED BY <1>3, <1>5, <1>7, <2>2, <2>3, <2>4 DEF c, x, y, A, B, IsSlot
<1> QED BY <1>9, <1>10

\* As many parts are filled as can be.
Least(a, b) == IF a < b THEN a ELSE b

Full(s, k) == Cardinality(s) = Least(k, Cardinality(Held(s)))

\* All k parts have as many items.
Level(s, k) == Cardinality(s) = k /\ \E size \in Nat : \A p \in s : Len(p.items) = size

MergedSlots(s, t, k) ==
  [i \in 1..k |-> Joined(HeaviestFirst(s, k)[i], HeaviestFirst(t, k)[k + 1 - i])]

MergedAre(s, t, k, w) ==
  LET g == MergedSlots(s, t, k)
      x == HeaviestFirst(s, k)
      y == HeaviestFirst(t, k)
  IN  /\ Slots(g, w, k) /\ SlotItems(g, k) = Held(s) \cup Held(t)
      /\ MergeStates(s, t, k) = PartsIn(g, k)
      /\ \A i \in 1..k : /\ k + 1 - i \in 1..k
                         /\ g[i].sum = x[i].sum + y[k + 1 - i].sum
                         /\ Len(g[i].items) = Len(x[i].items) + Len(y[k + 1 - i].items)
                         /\ g[i] # EmptyPart <=> (i <= Cardinality(s) \/ k + 1 - i <= Cardinality(t))

LEMMA MergedSlotsAre ==
  ASSUME NEW n, NEW w, Weights(w, n), NEW k \in Nat \ {0},
         NEW s, GoodState(s, w, k), NEW t, GoodState(t, w, k), Held(s) \cap Held(t) = {}
  PROVE  MergedAre(s, t, k, w)
<1> DEFINE g == MergedSlots(s, t, k)
           x == HeaviestFirst(s, k)
           y == HeaviestFirst(t, k)
<1>1. /\ Slots(x, w, k) /\ SlotItems(x, k) = Held(s)
      /\ \A i \in 1..k : x[i] # EmptyPart <=> i <= Cardinality(s)
  BY HeaviestSlots
<1>2. /\ Slots(y, w, k) /\ SlotItems(y, k) = Held(t)
      /\ \A i \in 1..k : y[i] # EmptyPart <=> i <= Cardinality(t)
  BY HeaviestSlots
<1>3. \A i \in 1..k : k + 1 - i \in 1..k /\ k + 1 - (k + 1 - i) = i
  OBVIOUS
<1>4. g = [i \in 1..k |-> Joined(x[i], y[k + 1 - i])]
  BY DEF MergedSlots
<1>5. MergeStates(s, t, k) = PartsIn(g, k)
  <2>1. MergeStates(s, t, k) = {Joined(x[i], y[k + 1 - i]) : i \in 1..k} \ {EmptyPart}
    BY DEF MergeStates
  <2>2. {Joined(x[i], y[k + 1 - i]) : i \in 1..k} = {g[i] : i \in 1..k}
    BY <1>4
  <2> QED BY <2>1, <2>2 DEF PartsIn
<1> HIDE DEF g, x, y
<1>6. ASSUME NEW i \in 1..k
      PROVE  /\ IsSlot(g[i], w) /\ ItemsOf(g[i]) = ItemsOf(x[i]) \cup ItemsOf(y[k + 1 - i])
             /\ g[i].sum = x[i].sum + y[k + 1 - i].sum
             /\ Len(g[i].items) = Len(x[i].items) + Len(y[k + 1 - i].items)
             /\ (g[i] = EmptyPart <=> x[i] = EmptyPart /\ y[k + 1 - i] = EmptyPart)
  <2> DEFINE j == k + 1 - i
  <2>1. j \in 1..k
    BY <1>3
  <2> HIDE DEF j
  <2>2. IsSlot(x[i], w) /\ IsSlot(y[j], w)
    BY <1>1, <1>2, <2>1 DEF Slots
  <2>3. ItemsOf(x[i]) \in SUBSET Held(s) /\ ItemsOf(y[j]) \in SUBSET Held(t)
    BY <1>1, <1>2, <2>1 DEF SlotItems
  <2>4. ItemsOf(x[i]) \cap ItemsOf(y[j]) = {}
    BY <2>3
  <2>5. g[i] = Joined(x[i], y[j])
    BY <1>4 DEF j
  <2>6. /\ IsSlot(g[i], w) /\ ItemsOf(g[i]) = ItemsOf(x[i]) \cup ItemsOf(y[j])
        /\ g[i].sum = x[i].sum + y[j].sum
        /\ Len(g[i].items) = Len(x[i].items) + Len(y[j].items)
        /\ (g[i] = EmptyPart <=> x[i] = EmptyPart /\ y[j] = EmptyPart)
    <3> DEFINE a == x[i]
               b == y[j]
               c == Joined(a, b)
    <3>1. IsSlot(a, w) /\ IsSlot(b, w) /\ ItemsOf(a) \cap ItemsOf(b) = {}
      BY <2>2, <2>4
    <3> HIDE DEF a, b
    <3>2. /\ IsSlot(c, w) /\ ItemsOf(c) = ItemsOf(a) \cup ItemsOf(b)
          /\ c.sum = a.sum + b.sum /\ Len(c.items) = Len(a.items) + Len(b.items)
          /\ (c = EmptyPart <=> a = EmptyPart /\ b = EmptyPart)
      BY <3>1, JoinedSlot
    <3> HIDE DEF c
    <3>3. g[i] = c
      BY <2>5 DEF a, b, c
    <3> QED BY <3>2, <3>3 DEF a, b
  <2> QED BY <2>6 DEF j
<1>7. DOMAIN g = 1..k
  BY <1>4
<1>8. ASSUME NEW i \in 1..k, NEW j \in 1..k, i # j
      PROVE  ItemsOf(g[i]) \cap ItemsOf(g[j]) = {}
  <2> DEFINE a == k + 1 - i
             b == k + 1 - j
  <2>1. a \in 1..k /\ b \in 1..k /\ a # b
    BY <1>8
  <2>2. ItemsOf(g[i]) = ItemsOf(x[i]) \cup ItemsOf(y[a])
        /\ ItemsOf(g[j]) = ItemsOf(x[j]) \cup ItemsOf(y[b])
    BY <1>6
  <2> HIDE DEF a, b
  <2>3. ItemsOf(x[i]) \cap ItemsOf(x[j]) = {} /\ ItemsOf(y[a]) \cap ItemsOf(y[b]) = {}
    BY <1>1, <1>2, <1>8, <2>1 DEF Slots
  <2>4. /\ ItemsOf(x[i]) \in SUBSET Held(s) /\ ItemsOf(x[j]) \in SUBSET Held(s)
        /\ ItemsOf(y[a]) \in SUBSET Held(t) /\ ItemsOf(y[b]) \in SUBSET Held(t)
    BY <1>1, <1>2, <2>1 DEF SlotItems
  <2> QED BY <2>2, <2>3, <2>4
<1>9. SlotItems(g, k) = Held(s) \cup Held(t)
  <2>1. \A i \in 1..k : ItemsOf(g[i]) = ItemsOf(x[i]) \cup ItemsOf(y[k + 1 - i])
    BY <1>6
  <2>2. ASSUME NEW e \in SlotItems(g, k) PROVE e \in SlotItems(x, k) \cup SlotItems(y, k)
    <3>1. PICK i \in 1..k : e \in ItemsOf(g[i])
      BY DEF SlotItems
    <3> QED BY <1>3, <2>1, <3>1 DEF SlotItems
  <2>3. ASSUME NEW e \in SlotItems(x, k) PROVE e \in SlotItems(g, k)
    BY <2>1 DEF SlotItems
  <2>4. ASSUME NEW e \in SlotItems(y, k) PROVE e \in SlotItems(g, k)
    <3>1. PICK j \in 1..k : e \in ItemsOf(y[j])
      BY DEF SlotItems
    <3> DEFINE i == k + 1 - j
    <3>2. i \in 1..k /\ k + 1 - i = j
      BY <1>3
    <3> HIDE DEF i
    <3>3. e \in ItemsOf(g[i])
      BY <2>1, <3>1, <3>2
    <3> QED BY <3>2, <3>3 DEF SlotItems
  <2>5. SlotItems(g, k) = SlotItems(x, k) \cup SlotItems(y, k)
    BY <2>2, <2>3, <2>4
  <2> QED BY <1>1, <1>2, <2>5
<1>10. Slots(g, w, k)
  BY <1>6, <1>7, <1>8 DEF Slots
<1>11. ASSUME NEW i \in 1..k
       PROVE  g[i] # EmptyPart <=> (i <= Cardinality(s) \/ k + 1 - i <= Cardinality(t))
  BY <1>1, <1>2, <1>3, <1>6
<1> QED BY <1>3, <1>5, <1>6, <1>9, <1>10, <1>11 DEF g, x, y, MergedAre

\* Merging keeps states good, full and level, and widens no spread.
LEMMA MergeKeeps ==
  ASSUME NEW n, NEW w, Weights(w, n), NEW k \in Nat \ {0},
         NEW s, GoodState(s, w, k), NEW t, GoodState(t, w, k), Held(s) \cap Held(t) = {},
         IsFiniteSet(Held(s)), IsFiniteSet(Held(t))
  PROVE  LET u == MergeStates(s, t, k)
         IN  /\ GoodState(u, w, k) /\ Held(u) = Held(s) \cup Held(t)
             /\ Full(s, k) /\ Full(t, k) => Full(u, k)
             /\ Level(s, k) /\ Level(t, k) => Level(u, k)
             /\ \A d \in Int : Spread(s, k) <= d /\ Spread(t, k) <= d => Spread(u, k) <= d
<1> DEFINE g == MergedSlots(s, t, k)
           x == HeaviestFirst(s, k)
           y == HeaviestFirst(t, k)
           u == MergeStates(s, t, k)
           a == Cardinality(s)
           b == Cardinality(t)
<1>1. /\ Slots(g, w, k) /\ SlotItems(g, k) = Held(s) \cup Held(t) /\ u = PartsIn(g, k)
      /\ \A i \in 1..k : /\ k + 1 - i \in 1..k
                         /\ g[i].sum = x[i].sum + y[k + 1 - i].sum
                         /\ Len(g[i].items) = Len(x[i].items) + Len(y[k + 1 - i].items)
                         /\ g[i] # EmptyPart <=> (i <= a \/ k + 1 - i <= b)
  <2>1. MergedAre(s, t, k, w)
    BY MergedSlotsAre
  <2> QED BY <2>1 DEF MergedAre
<1>2. /\ GoodState(PartsIn(g, k), w, k) /\ Held(PartsIn(g, k)) = SlotItems(g, k)
      /\ Cardinality(PartsIn(g, k)) = Cardinality(FilledAt(g, k))
  BY <1>1, SlotsState
<1>3. /\ \A i \in 1..k : x[i].sum \in Nat /\ y[i].sum \in Nat
      /\ \A i, j \in 1..k : i <= j => x[i].sum >= x[j].sum /\ y[i].sum >= y[j].sum
      /\ Spread(s, k) = x[1].sum - x[k].sum /\ Spread(t, k) = y[1].sum - y[k].sum
  BY SumsFall
<1>4. a \in Nat /\ b \in Nat /\ a <= k /\ b <= k
  BY FS_CardinalityType DEF GoodState
<1>5. \A i \in 1..a : x[i] \in s
  BY HeaviestFirstIs DEF HeaviestOrder
<1>6. \A i \in 1..b : y[i] \in t
  BY HeaviestFirstIs DEF HeaviestOrder
<1> HIDE DEF g, x, y, u, a, b
<1>7. GoodState(u, w, k) /\ Held(u) = Held(s) \cup Held(t) /\ Cardinality(u) = Cardinality(FilledAt(g, k))
  BY <1>1, <1>2
<1>8. Cardinality(FilledAt(g, k)) = Least(k, a + b)
  <2>1. FilledAt(g, k) = 1..a \cup (k + 1 - b)..k
    <3>1. \A i \in 1..k : g[i] # EmptyPart <=> i \in 1..a \cup (k + 1 - b)..k
      <4>1. \A i \in 1..k : (i <= a \/ k + 1 - i <= b) <=> i \in 1..a \cup (k + 1 - b)..k
        BY <1>4
      <4> QED BY <1>1, <4>1
    <3>2. 1..a \cup (k + 1 - b)..k \subseteq 1..k
      BY <1>4
    <3> QED BY <3>1, <3>2 DEF FilledAt
  <2>2. CASE a + b >= k
    <3>1. 1..a \cup (k + 1 - b)..k = 1..k
      BY <1>4, <2>2
    <3>2. Cardinality(1..k) = k
      BY FS_Interval
    <3>3. Least(k, a + b) = k
      BY <1>4, <2>2 DEF Least
    <3> QED BY <2>1, <3>1, <3>2, <3>3
  <2>3. CASE a + b < k
    <3> DEFINE A == 1..a
               B == (k + 1 - b)..k
    <3>1. IsFiniteSet(A) /\ Cardinality(A) = a
      BY <1>4, FS_Interval
    <3>2. IsFiniteSet(B) /\ Cardinality(B) = b
      <4>1. k + 1 - b \in Int /\ k \in Int /\ k - (k + 1 - b) + 1 = b
        BY <1>4
      <4>2. k + 1 - b <= k + 1
        BY <1>4
      <4> QED BY <1>4, <4>1, <4>2, FS_Interval
    <3>3. A \cap B = {}
      BY <1>4, <2>3
    <3> HIDE DEF A, B
    <3>4. Cardinality(A \cup B) = Cardinality(A) + Cardinality(B) - Cardinality(A \cap B)
      BY <3>1, <3>2, FS_Union
    <3>5. Cardinality(A \cup B) = a + b
      <4>1. Cardinality(A \cap B) = 0
        BY <3>3, FS_EmptySet
      <4> QED BY <1>4, <3>1, <3>2, <3>4, <4>1
    <3>6. Least(k, a + b) = a + b
      BY <1>4, <2>3 DEF Least
    <3> QED BY <2>1, <3>5, <3>6 DEF A, B
  <2> QED BY <1>4, <2>2, <2>3
<1>9. ASSUME Full(s, k), Full(t, k)
      PROVE  Full(u, k)
  <2> DEFINE p == Cardinality(Held(s))
             q == Cardinality(Held(t))
  <2>1. p \in Nat /\ q \in Nat
    BY FS_CardinalityType
  <2>2. Cardinality(Held(u)) = p + q
    <3>1. Cardinality(Held(s) \cup Held(t)) = p + q - Cardinality(Held(s) \cap Held(t))
      BY FS_Union
    <3>2. Cardinality(Held(s) \cap Held(t)) = 0
      BY FS_EmptySet
    <3> QED BY <1>7, <2>1, <3>1, <3>2
  <2>3. a = Least(k, p) /\ b = Least(k, q)
    BY <1>9 DEF Full, a, b
  <2> HIDE DEF p, q
  <2>4. Least(k, a + b) = Least(k, p + q)
    BY <2>1, <2>3 DEF Least
  <2> QED BY <1>7, <1>8, <2>2, <2>4 DEF Full
<1>10. ASSUME Level(s, k), Level(t, k)
       PROVE  Level(u, k)
  <2>1. a = k /\ b = k
    BY <1>10 DEF Level, a, b
  <2>2. PICK sx \in Nat : \A p \in s : Len(p.items) = sx
    BY <1>10 DEF Level
  <2>3. PICK sy \in Nat : \A p \in t : Len(p.items) = sy
    BY <1>10 DEF Level
  <2>4. \A i \in 1..k : Len(g[i].items) = sx + sy
    <3>1. ASSUME NEW i \in 1..k PROVE Len(g[i].items) = sx + sy
      <4>1. k + 1 - i \in 1..k /\ Len(g[i].items) = Len(x[i].items) + Len(y[k + 1 - i].items)
        BY <1>1
      <4>2. x[i] \in s /\ y[k + 1 - i] \in t
        BY <1>5, <1>6, <2>1, <4>1
      <4>3. Len(x[i].items) = sx /\ Len(y[k + 1 - i].items) = sy
        BY <2>2, <2>3, <4>2
      <4> QED BY <4>1, <4>3
    <3> QED BY <3>1
  <2>5. \A p \in u : Len(p.items) = sx + sy
    BY <1>1, <2>4 DEF PartsIn
  <2>6. Cardinality(u) = k
    <3>1. Least(k, k + k) = k
      BY DEF Least
    <3> QED BY <1>7, <1>8, <2>1, <3>1
  <2>7. sx + sy \in Nat
    OBVIOUS
  <2> QED BY <2>5, <2>6, <2>7 DEF Level
<1>11. ASSUME NEW d \in Int, Spread(s, k) <= d, Spread(t, k) <= d
       PROVE  Spread(u, k) <= d
  <2>1. 1 \in 1..k /\ k \in 1..k /\ \A i \in 1..k : 1 <= i /\ i <= k
    OBVIOUS
  <2>2. ASSUME NEW i \in 1..k, NEW j \in 1..k
        PROVE  /\ x[i].sum - x[j].sum <= d /\ y[i].sum - y[j].sum <= d
               /\ (i <= j => x[j].sum <= x[i].sum /\ y[j].sum <= y[i].sum)
               /\ (j <= i => x[i].sum <= x[j].sum /\ y[i].sum <= y[j].sum)
    <3>1. /\ x[i].sum <= x[1].sum /\ x[j].sum >= x[k].sum
          /\ y[i].sum <= y[1].sum /\ y[j].sum >= y[k].sum
      BY <1>3, <2>1
    <3>2. {x[i].sum, x[j].sum, x[1].sum, x[k].sum, y[i].sum, y[j].sum, y[1].sum, y[k].sum} \subseteq Nat
      BY <1>3, <2>1
    <3>3. x[i].sum - x[j].sum <= d /\ y[i].sum - y[j].sum <= d
      BY <1>3, <1>11, <3>1, <3>2
    <3> QED BY <1>3, <3>3
  <2>3. ASSUME NEW i \in 1..k, NEW j \in 1..k
        PROVE  g[i].sum - g[j].sum <= d
    <3> DEFINE e == k + 1 - i
               f == k + 1 - j
    <3>1. e \in 1..k /\ f \in 1..k
      BY <1>1
    <3>2. i <= j \/ j <= i
      OBVIOUS
    <3>3. (i <= j => f <= e) /\ (j <= i => e <= f)
      OBVIOUS
    <3>4. g[i].sum = x[i].sum + y[e].sum /\ g[j].sum = x[j].sum + y[f].sum
      BY <1>1
    <3> HIDE DEF e, f
    <3>5. /\ x[i].sum - x[j].sum <= d /\ y[e].sum - y[f].sum <= d
          /\ (i <= j => x[j].sum <= x[i].sum) /\ (j <= i => x[i].sum <= x[j].sum)
          /\ (e <= f => y[f].sum <= y[e].sum) /\ (f <= e => y[e].sum <= y[f].sum)
      BY <2>2, <3>1
    <3>6. x[i].sum \in Nat /\ x[j].sum \in Nat /\ y[e].sum \in Nat /\ y[f].sum \in Nat
      BY <1>3, <3>1
    <3> QED BY <3>2, <3>3, <3>4, <3>5, <3>6
  <2>4. Spread(PartsIn(g, k), k) <= d
    BY <1>1, <2>3, SlotsSpread
  <2> QED BY <1>1, <2>4
<1> QED BY <1>7, <1>9, <1>10, <1>11 DEF u

\* The states on the heap.
Family(F, w, k) ==
  /\ IsFiniteSet(F)
  /\ \A s \in F : GoodState(s, w, k) /\ Held(s) # {} /\ IsFiniteSet(Held(s)) /\ Full(s, k)
  /\ \A s, t \in F : s # t => Held(s) \cap Held(t) = {}

HeldBy(F) == UNION {Held(s) : s \in F}

FirstPart(s, k) == HeaviestFirst(s, k)[1]

LEMMA FirstPartIs ==
  ASSUME NEW n, NEW w, Weights(w, n), NEW k \in Nat \ {0}, NEW s, GoodState(s, w, k), Held(s) # {}
  PROVE  FirstPart(s, k) \in s /\ IsPart(FirstPart(s, k), w)
         /\ ItemsOf(FirstPart(s, k)) \in SUBSET Held(s) /\ ItemsOf(FirstPart(s, k)) # {}
<1> DEFINE h == HeaviestFirst(s, k)
           m == Cardinality(s)
<1>1. m \in 0..k /\ \A i \in 1..m : h[i] \in s
  BY HeaviestFirstIs DEF HeaviestOrder
<1>2. m # 0
  <2>1. s # {}
    BY DEF Held
  <2> QED BY <2>1, FS_EmptySet DEF GoodState
<1> HIDE DEF h, m
<1>3. 1 \in 1..m
  BY <1>1, <1>2
<1>4. h[1] \in s
  BY <1>1, <1>3
<1>5. IsPart(h[1], w)
  BY <1>4 DEF GoodState
<1>6. ItemsOf(h[1]) # {}
  BY <1>5, PartFacts
<1>7. ItemsOf(h[1]) \in SUBSET Held(s)
  BY <1>4 DEF Held
<1> QED BY <1>4, <1>5, <1>6, <1>7 DEF FirstPart, h

LEMMA PoppedIs ==
  ASSUME NEW n, NEW w, Weights(w, n), NEW k \in Nat \ {0}, NEW F, Family(F, w, k), F # {}
  PROVE  Popped(F, k) \in F
<1> DEFINE P == {FirstPart(s, k) : s \in F}
           R == {p \in F \X F : PoppedBefore(p[1], p[2], k)}
<1>1. \A s \in F : /\ FirstPart(s, k) \in P /\ IsPart(FirstPart(s, k), w)
                   /\ ItemsOf(FirstPart(s, k)) \in SUBSET Held(s)
                   /\ ItemsOf(FirstPart(s, k)) # {} /\ Spread(s, k) \in Int
  BY FirstPartIs, SumsFall DEF Family
<1>2. \A s, t \in F : s # t => /\ FirstPart(s, k) # FirstPart(t, k)
                               /\ ItemsOf(FirstPart(s, k)) \cap ItemsOf(FirstPart(t, k)) = {}
  <2>1. \A s, t \in F : s # t => Held(s) \cap Held(t) = {}
    BY DEF Family
  <2>2. \A s, t \in F : s # t => ItemsOf(FirstPart(s, k)) \cap ItemsOf(FirstPart(t, k)) = {}
    BY <1>1, <2>1
  <2> QED BY <1>1, <2>2
<1>3. (\A p \in P : IsPart(p, w)) /\ Apart(P)
  BY <1>1, <1>2 DEF Apart
<1> HIDE DEF P
<1>4. /\ \A a \in P : ~Lighter(a, a)
      /\ \A a, b, c \in P : Lighter(a, b) /\ Lighter(b, c) => Lighter(a, c)
      /\ \A a, b \in P : a # b => Lighter(a, b) \/ Lighter(b, a)
  BY <1>3, LighterOrder
<1>5. \A s, t \in F : PoppedBefore(s, t, k) <=>
        \/ Spread(s, k) > Spread(t, k)
        \/ Spread(s, k) = Spread(t, k) /\ Lighter(FirstPart(t, k), FirstPart(s, k))
  BY DEF PoppedBefore, FirstPart
<1>6. \A x, y \in F : <<x, y>> \in R <=> PoppedBefore(x, y, k)
  OBVIOUS
<1> HIDE DEF R
<1>7. StrictOrder(R, F)
  <2>1. \A s \in F : ~PoppedBefore(s, s, k)
    BY <1>1, <1>4, <1>5
  <2>2. ASSUME NEW s \in F, NEW t \in F, NEW u \in F, PoppedBefore(s, t, k), PoppedBefore(t, u, k)
        PROVE  PoppedBefore(s, u, k)
    <3>1. /\ Spread(s, k) \in Int /\ Spread(t, k) \in Int /\ Spread(u, k) \in Int
          /\ FirstPart(s, k) \in P /\ FirstPart(t, k) \in P /\ FirstPart(u, k) \in P
      BY <1>1
    <3>2. CASE Spread(s, k) > Spread(u, k)
      BY <1>5, <3>2
    <3>3. CASE ~(Spread(s, k) > Spread(u, k))
      <4>1. /\ Spread(s, k) > Spread(t, k) \/ (Spread(s, k) = Spread(t, k)
                                               /\ Lighter(FirstPart(t, k), FirstPart(s, k)))
            /\ Spread(t, k) > Spread(u, k) \/ (Spread(t, k) = Spread(u, k)
                                               /\ Lighter(FirstPart(u, k), FirstPart(t, k)))
        BY <1>5, <2>2
      <4>2. /\ Spread(s, k) = Spread(t, k) /\ Spread(t, k) = Spread(u, k)
            /\ Lighter(FirstPart(t, k), FirstPart(s, k)) /\ Lighter(FirstPart(u, k), FirstPart(t, k))
        BY <3>1, <3>3, <4>1
      <4>3. Lighter(FirstPart(u, k), FirstPart(s, k))
        BY <1>4, <3>1, <4>2
      <4> QED BY <1>5, <4>2, <4>3
    <3> QED BY <3>2, <3>3
  <2>3. ASSUME NEW s \in F, NEW t \in F, s # t
        PROVE  PoppedBefore(s, t, k) \/ PoppedBefore(t, s, k)
    <3>1. /\ FirstPart(s, k) # FirstPart(t, k) /\ FirstPart(s, k) \in P /\ FirstPart(t, k) \in P
          /\ Spread(s, k) \in Int /\ Spread(t, k) \in Int
      BY <1>1, <1>2, <2>3
    <3>2. Lighter(FirstPart(s, k), FirstPart(t, k)) \/ Lighter(FirstPart(t, k), FirstPart(s, k))
      BY <1>4, <3>1
    <3>3. \/ Spread(s, k) > Spread(t, k) \/ Spread(t, k) > Spread(s, k)
          \/ Spread(s, k) = Spread(t, k)
      BY <3>1
    <3> QED BY <1>5, <3>2, <3>3
  <2> QED BY <1>6, <2>1, <2>2, <2>3 DEF StrictOrder
<1>8. IsFiniteSet(F) /\ Cardinality(F) \in Nat /\ Cardinality(F) # 0
  BY FS_CardinalityType, FS_EmptySet DEF Family
<1>9. 1 \in 1..Cardinality(F) /\ 1 - 1 = 0
  BY <1>8
<1>10. PICK s \in F : Cardinality(Ahead(R, F, s)) = 1 - 1
  BY <1>7, <1>8, <1>9, PlaceTaken
<1>11. Ahead(R, F, s) = {}
  <2>1. IsFiniteSet(Ahead(R, F, s))
    <3>1. Ahead(R, F, s) \in SUBSET F
      BY DEF Ahead
    <3> QED BY <1>8, <3>1, FS_Subset
  <2> QED BY <1>9, <1>10, <2>1, FS_EmptySet
<1>12. \A t \in F \ {s} : PoppedBefore(s, t, k)
  <2>1. ASSUME NEW t \in F, t # s PROVE <<s, t>> \in R
    <3>1. <<t, s>> \notin R
      BY <1>11 DEF Ahead
    <3> QED BY <1>7, <2>1, <3>1 DEF StrictOrder
  <2> QED BY <1>6, <2>1
<1> QED BY <1>12 DEF Popped

LevelAll(F, k) == \A s \in F : Level(s, k)

Within(F, k, d) == \A s \in F : Spread(s, k) <= d

PopKeeps(F, G, w, k) ==
  /\ Family(G, w, k) /\ HeldBy(G) = HeldBy(F) /\ Cardinality(G) = Cardinality(F) - 1
  /\ LevelAll(F, k) => LevelAll(G, k)
  /\ \A d \in Int : Within(F, k, d) => Within(G, k, d)

LEMMA PopAndMergeKeeps ==
  ASSUME NEW n, NEW w, Weights(w, n), NEW k \in Nat \ {0}, NEW F, Family(F, w, k),
         Cardinality(F) >= 2
  PROVE  PopKeeps(F, PopAndMerge(F, k), w, k)
<1> DEFINE a == Popped(F, k)
           E == F \ {a}
           b == Popped(E, k)
           u == MergeStates(a, b, k)
           R == F \ {a, b}
           G == R \cup {u}
<1>1. IsFiniteSet(F) /\ Cardinality(F) \in Nat
  BY FS_CardinalityType DEF Family
<1>2. a \in F
  <2>1. F # {}
    BY <1>1, FS_EmptySet
  <2> QED BY <2>1, PoppedIs
<1>g. PopAndMerge(F, k) = G
  BY DEF PopAndMerge
<1> HIDE DEF a
<1>3. IsFiniteSet(E) /\ Cardinality(E) = Cardinality(F) - 1 /\ Family(E, w, k)
  <2>1. IsFiniteSet(E) /\ Cardinality(E) = Cardinality(F) - 1
    BY <1>1, <1>2, FS_RemoveElement
  <2> QED BY <2>1 DEF Family
<1>4. b \in E
  <2>1. E # {}
    BY <1>1, <1>3, FS_EmptySet
  <2> HIDE DEF E
  <2> QED BY <1>3, <2>1, PoppedIs
<1> HIDE DEF b
<1>5. a \in F /\ b \in F /\ a # b
  BY <1>2, <1>4
<1>6. /\ GoodState(a, w, k) /\ Held(a) # {} /\ IsFiniteSet(Held(a)) /\ Full(a, k)
      /\ GoodState(b, w, k) /\ Held(b) # {} /\ IsFiniteSet(Held(b)) /\ Full(b, k)
      /\ Held(a) \cap Held(b) = {}
  BY <1>5 DEF Family
<1>7. /\ GoodState(u, w, k) /\ Held(u) = Held(a) \cup Held(b)
      /\ Full(u, k) /\ (Level(a, k) /\ Level(b, k) => Level(u, k))
      /\ \A d \in Int : Spread(a, k) <= d /\ Spread(b, k) <= d => Spread(u, k) <= d
  BY <1>6, MergeKeeps
<1> HIDE DEF u
<1>8. IsFiniteSet(Held(u)) /\ Held(u) # {}
  <2>1. IsFiniteSet(Held(a) \cup Held(b))
    BY <1>6, FS_Union
  <2> QED BY <1>6, <1>7, <2>1
<1>9. \A s \in R : s \in F /\ Held(s) \cap Held(u) = {}
  <2>1. \A s \in R : s \in F /\ Held(s) \cap Held(a) = {} /\ Held(s) \cap Held(b) = {}
    BY <1>5 DEF Family
  <2> QED BY <1>7, <2>1
<1>10. u \notin R
  BY <1>8, <1>9
<1>11. IsFiniteSet(R) /\ Cardinality(R) = Cardinality(F) - 2
  <2>1. R = E \ {b}
    OBVIOUS
  <2>2. IsFiniteSet(E \ {b}) /\ Cardinality(E \ {b}) = Cardinality(E) - 1
    BY <1>3, <1>4, FS_RemoveElement
  <2> HIDE DEF R, E
  <2> QED BY <1>1, <1>3, <2>1, <2>2
<1>12. IsFiniteSet(G) /\ Cardinality(G) = Cardinality(F) - 1
  <2>1. IsFiniteSet(R \cup {u}) /\ Cardinality(R \cup {u}) = Cardinality(R) + 1
    BY <1>10, <1>11, FS_AddElement
  <2> QED BY <1>1, <1>11, <2>1
<1>13. Family(G, w, k)
  <2>1. \A s \in G : s \in R \/ s = u
    OBVIOUS
  <2>2. \A s \in G : GoodState(s, w, k) /\ Held(s) # {} /\ IsFiniteSet(Held(s)) /\ Full(s, k)
    <3>1. \A s \in R : GoodState(s, w, k) /\ Held(s) # {} /\ IsFiniteSet(Held(s)) /\ Full(s, k)
      BY <1>9 DEF Family
    <3> QED BY <1>7, <1>8, <2>1, <3>1
  <2>3. \A s, t \in G : s # t => Held(s) \cap Held(t) = {}
    <3>1. \A s, t \in R : s # t => Held(s) \cap Held(t) = {}
      BY <1>9 DEF Family
    <3> QED BY <1>9, <2>1, <3>1
  <2> QED BY <1>12, <2>2, <2>3 DEF Family
<1>14. HeldBy(G) = HeldBy(F)
  <2>1. \A s \in F : s \in R \/ s = a \/ s = b
    OBVIOUS
  <2>2. \A s \in F : Held(s) \in SUBSET HeldBy(G)
    <3>1. Held(u) \in SUBSET HeldBy(G) /\ \A s \in R : Held(s) \in SUBSET HeldBy(G)
      BY DEF HeldBy
    <3> QED BY <1>7, <2>1, <3>1
  <2>3. \A s \in G : Held(s) \in SUBSET HeldBy(F)
    <3>1. \A s \in F : Held(s) \in SUBSET HeldBy(F)
      BY DEF HeldBy
    <3>2. \A s \in G : s \in F \/ s = u
      OBVIOUS
    <3> QED BY <1>5, <1>7, <3>1, <3>2
  <2>4. HeldBy(F) \subseteq HeldBy(G)
    BY <2>2 DEF HeldBy
  <2>5. HeldBy(G) \subseteq HeldBy(F)
    BY <2>3 DEF HeldBy
  <2> QED BY <2>4, <2>5
<1>15. LevelAll(F, k) => LevelAll(G, k)
  BY <1>5, <1>7 DEF LevelAll
<1>16. \A d \in Int : Within(F, k, d) => Within(G, k, d)
  BY <1>5, <1>7 DEF Within
<1> QED BY <1>12, <1>13, <1>14, <1>15, <1>16, <1>g DEF PopKeeps

\* The families on the heap, merge after merge.
Afters(f, F, k, last) ==
  f = [i \in 0..last |-> IF i = 0 THEN F ELSE PopAndMerge(f[i - 1], k)]

LEMMA AftersExist ==
  ASSUME NEW F, NEW k, NEW last \in Nat
  PROVE  \E f : Afters(f, F, k, last)
<1> DEFINE Good == {n \in Nat : \E f : Afters(f, F, k, n)}
<1>1. 0 \in Good
  <2> DEFINE f == [i \in 0..0 |-> F]
  <2>1. \A i \in 0..0 : i = 0
    OBVIOUS
  <2>2. Afters(f, F, k, 0)
    BY <2>1 DEF Afters
  <2> QED BY <2>2
<1>2. ASSUME NEW n \in Nat, n \in Good
      PROVE  n + 1 \in Good
  <2>1. PICK f : Afters(f, F, k, n)
    BY <1>2
  <2> DEFINE more == [i \in 0..(n + 1) |-> IF i = n + 1 THEN PopAndMerge(f[n], k) ELSE f[i]]
  <2>2. \A i \in 0..n : f[i] = IF i = 0 THEN F ELSE PopAndMerge(f[i - 1], k)
    BY <2>1 DEF Afters
  <2>3. ASSUME NEW i \in 0..(n + 1)
        PROVE  more[i] = IF i = 0 THEN F ELSE PopAndMerge(more[i - 1], k)
    <3>1. CASE i = n + 1
      <4>1. more[i] = PopAndMerge(f[n], k) /\ more[i - 1] = f[n] /\ i # 0
        BY <3>1
      <4> HIDE DEF more
      <4> QED BY <4>1
    <3>2. CASE i # n + 1
      <4>1. i \in 0..n /\ more[i] = f[i]
        BY <3>2
      <4>2. i # 0 => more[i - 1] = f[i - 1]
        BY <3>2
      <4> HIDE DEF more
      <4> QED BY <2>2, <4>1, <4>2
    <3> QED BY <3>1, <3>2
  <2>4. Afters(more, F, k, n + 1)
    <3>1. more = [i \in 0..(n + 1) |-> more[i]]
      OBVIOUS
    <3> HIDE DEF more
    <3> QED BY <2>3, <3>1 DEF Afters
  <2> QED BY <2>4
<1>3. last \in Good
  <2> HIDE DEF Good
  <2> QED BY <1>1, <1>2, SetInduction
<1> QED BY <1>3

Reached(G, F, w, k, left) ==
  /\ Family(G, w, k) /\ HeldBy(G) = HeldBy(F) /\ Cardinality(G) = left
  /\ LevelAll(F, k) => LevelAll(G, k)
  /\ \A d \in Int : Within(F, k, d) => Within(G, k, d)

LEMMA AftersReach ==
  ASSUME NEW n, NEW w, Weights(w, n), NEW k \in Nat \ {0}, NEW F, Family(F, w, k),
         NEW last \in Nat, Cardinality(F) = last + 1, NEW f, Afters(f, F, k, last)
  PROVE  Reached(f[last], F, w, k, 1)
<1> DEFINE Good == {i \in Nat : i <= last => Reached(f[i], F, w, k, last + 1 - i)}
<1>e. \A i \in 0..last : f[i] = IF i = 0 THEN F ELSE PopAndMerge(f[i - 1], k)
  BY DEF Afters
<1>1. 0 \in Good
  <2>1. f[0] = F /\ last + 1 - 0 = last + 1
    BY <1>e
  <2> QED BY <2>1 DEF Reached
<1>2. ASSUME NEW i \in Nat, i \in Good
      PROVE  i + 1 \in Good
  <2> SUFFICES ASSUME i + 1 <= last PROVE Reached(f[i + 1], F, w, k, last + 1 - (i + 1))
    OBVIOUS
  <2>1. Reached(f[i], F, w, k, last + 1 - i)
    BY <1>2
  <2>2. f[i + 1] = PopAndMerge(f[i], k)
    <3>1. i + 1 \in 0..last /\ i + 1 # 0 /\ (i + 1) - 1 = i
      OBVIOUS
    <3> QED BY <1>e, <3>1
  <2> DEFINE E == f[i]
             G == f[i + 1]
  <2>3. Family(E, w, k) /\ Cardinality(E) = last + 1 - i /\ Cardinality(E) >= 2
    BY <2>1 DEF Reached
  <2>g. G = PopAndMerge(E, k)
    BY <2>2
  <2> HIDE DEF E, G
  <2>4. PopKeeps(E, G, w, k)
    BY <2>3, <2>g, PopAndMergeKeeps
  <2>5. Reached(E, F, w, k, last + 1 - i)
    BY <2>1 DEF E
  <2>6. Cardinality(G) = last + 1 - (i + 1)
    BY <2>3, <2>4 DEF PopKeeps
  <2>7. Reached(G, F, w, k, last + 1 - (i + 1))
    BY <2>4, <2>5, <2>6 DEF Reached, PopKeeps
  <2> QED BY <2>7 DEF G
<1>3. last \in Good
  <2> HIDE DEF Good
  <2> QED BY <1>1, <1>2, SetInduction
<1>4. last + 1 - last = 1
  OBVIOUS
<1> QED BY <1>3, <1>4

\* What the merges end with: one state that holds every position.
FinalState(s, F, w, k) ==
  /\ GoodState(s, w, k) /\ Held(s) = HeldBy(F) /\ Full(s, k)
  /\ LevelAll(F, k) => Level(s, k)
  /\ \A d \in Int : Within(F, k, d) => Spread(s, k) <= d

LEMMA KarmarkarKarpIs ==
  ASSUME NEW n, NEW w, Weights(w, n), NEW k \in Nat \ {0}, NEW equalSize,
         Family(InitialStates(w, k, equalSize), w, k), InitialStates(w, k, equalSize) # {}
  PROVE  \E s : /\ FinalState(s, InitialStates(w, k, equalSize), w, k)
                /\ KarmarkarKarp(w, k, equalSize) = [p \in 1..k |-> HeaviestFirst(s, k)[p].items]
<1> DEFINE F == InitialStates(w, k, equalSize)
           last == Cardinality(F) - 1
           f == CHOOSE f : Afters(f, F, k, last)
           s == CHOOSE s \in f[last] : TRUE
<1>1. KarmarkarKarp(w, k, equalSize) = [p \in 1..k |-> HeaviestFirst(s, k)[p].items]
  BY DEF KarmarkarKarp, Afters
<1>2. last \in Nat /\ Cardinality(F) = last + 1
  <2>1. IsFiniteSet(F) /\ F # {}
    BY DEF Family
  <2>2. Cardinality(F) \in Nat /\ Cardinality(F) # 0
    BY <2>1, FS_CardinalityType, FS_EmptySet
  <2> QED BY <2>2
<1>f. Family(F, w, k)
  OBVIOUS
<1> HIDE DEF F, last
<1>3. Afters(f, F, k, last)
  BY <1>2, AftersExist
<1> HIDE DEF f
<1>4. Reached(f[last], F, w, k, 1)
  BY <1>2, <1>3, <1>f, AftersReach
<1> DEFINE G == f[last]
<1>5. Family(G, w, k) /\ HeldBy(G) = HeldBy(F) /\ Cardinality(G) = 1
      /\ (LevelAll(F, k) => LevelAll(G, k))
      /\ \A d \in Int : Within(F, k, d) => Within(G, k, d)
  BY <1>4 DEF Reached
<1>s. s = CHOOSE x \in G : TRUE
  OBVIOUS
<1> HIDE DEF G, s
<1>6. s \in G
  <2>1. G # {}
    BY <1>5, FS_EmptySet
  <2> QED BY <1>s, <2>1
<1>7. G = {s}
  <2>1. IsFiniteSet(G)
    BY <1>5 DEF Family
  <2>2. IsFiniteSet(G \ {s}) /\ Cardinality(G \ {s}) = 0
    BY <1>5, <1>6, <2>1, FS_RemoveElement
  <2>3. G \ {s} = {}
    BY <2>2, FS_EmptySet
  <2> QED BY <1>6, <2>3
<1>8. Held(s) = HeldBy(F)
  BY <1>5, <1>7 DEF HeldBy
<1>9. FinalState(s, F, w, k)
  BY <1>5, <1>6, <1>8 DEF FinalState, Family, LevelAll, Within
<1> QED BY <1>1, <1>9 DEF F

-----------------------------------------------------------------------------
(* Where the differencing starts, and the partition it ends with.             *)

OnePart(w, i) == [sum |-> w[i], items |-> <<i>>]

LEMMA OnePartIs ==
  ASSUME NEW n, NEW w, Weights(w, n), NEW i \in 1..n
  PROVE  IsPart(OnePart(w, i), w) /\ ItemsOf(OnePart(w, i)) = {i} /\ Len(OnePart(w, i).items) = 1
<1> DEFINE p == OnePart(w, i)
<1>1. p.items = <<i>> /\ p.sum = w[i]
  BY DEF OnePart
<1> HIDE DEF p
<1>2. Lists(<<i>>, {i})
  BY SingleLists
<1>3. ItemsOf(p) = {i}
  BY <1>1, <1>2, ListsRange DEF ItemsOf
<1>4. w[i] \in Int
  BY DEF Weights, NatOn
<1>5. Sum(w, {i}) = w[i]
  BY <1>4, SumOne
<1>6. <<i>> \in Seq(DOMAIN w) /\ Len(<<i>>) = 1
  BY DEF Weights
<1> QED BY <1>1, <1>2, <1>3, <1>5, <1>6 DEF IsPart, p

LEMMA NewStateIs ==
  ASSUME NEW n, NEW w, Weights(w, n), NEW I \in SUBSET (1..n)
  PROVE  LET s == NewState(w, I)
         IN  /\ IsFiniteSet(s) /\ Cardinality(s) = Cardinality(I) /\ Held(s) = I
             /\ (\A p \in s : IsPart(p, w) /\ Len(p.items) = 1) /\ Apart(s)
             /\ IsFiniteSet(I) /\ Cardinality(I) \in Nat
<1> DEFINE s == NewState(w, I)
           f == [i \in I |-> OnePart(w, i)]
<1>0. \A i \in I : i \in 1..n
  OBVIOUS
<1>1. s = {OnePart(w, i) : i \in I}
  BY DEF NewState, OnePart
<1>2. \A i \in I : /\ IsPart(OnePart(w, i), w) /\ ItemsOf(OnePart(w, i)) = {i}
                   /\ Len(OnePart(w, i).items) = 1
  BY <1>0, OnePartIs
<1>3. IsFiniteSet(I) /\ Cardinality(I) \in Nat
  <2>1. n \in Int /\ 1 \in Int
    BY DEF Weights
  <2>2. IsFiniteSet(1..n)
    BY <2>1, FS_Interval
  <2>3. IsFiniteSet(I)
    BY <2>2, FS_Subset
  <2> QED BY <2>3, FS_CardinalityType
<1> HIDE DEF s
<1>4. f \in Bijection(I, s)
  <2>1. f \in [I -> s] /\ \A p \in s : \E i \in I : f[i] = p
    BY <1>1
  <2>2. \A i, j \in I : f[i] = f[j] => i = j
    <3>1. ASSUME NEW i \in I, NEW j \in I, f[i] = f[j] PROVE i = j
      <4>1. ItemsOf(f[i]) = {i} /\ ItemsOf(f[j]) = {j}
        BY <1>2
      <4> QED BY <3>1, <4>1
    <3> QED BY <3>1
  <2> HIDE DEF f
  <2> QED BY <2>1, <2>2 DEF Bijection, Injection, Surjection, IsInjective
<1>5. IsFiniteSet(s) /\ Cardinality(s) = Cardinality(I)
  <2>1. ExistsBijection(I, s)
    BY <1>4 DEF ExistsBijection
  <2> QED BY <1>3, <2>1, FS_Bijection
<1>6. Held(s) = I
  <2>1. \A i \in I : OnePart(w, i) \in s /\ i \in ItemsOf(OnePart(w, i))
    BY <1>1, <1>2
  <2>2. \A p \in s : \E i \in I : ItemsOf(p) = {i}
    BY <1>1, <1>2
  <2>3. \A x : x \in Held(s) <=> \E p \in s : x \in ItemsOf(p)
    BY DEF Held
  <2>4. \A x \in Held(s) : x \in I
    BY <2>2, <2>3
  <2>5. \A x \in I : x \in Held(s)
    BY <2>1, <2>3
  <2> QED BY <2>4, <2>5
<1>7. \A p \in s : IsPart(p, w) /\ Len(p.items) = 1
  BY <1>1, <1>2
<1>8. Apart(s)
  <2>1. ASSUME NEW i \in I, NEW j \in I, OnePart(w, i) # OnePart(w, j)
        PROVE  ItemsOf(OnePart(w, i)) \cap ItemsOf(OnePart(w, j)) = {}
    <3>1. i # j
      BY <2>1
    <3> QED BY <1>2, <3>1
  <2> QED BY <1>1, <2>1 DEF Apart
<1> QED BY <1>3, <1>5, <1>6, <1>7, <1>8 DEF s

\* A starting state of at most k positions.
LEMMA NewStateStarts ==
  ASSUME NEW n, NEW w, Weights(w, n), NEW k \in Nat \ {0}, NEW I \in SUBSET (1..n), I # {},
         Cardinality(I) <= k
  PROVE  LET s == NewState(w, I)
         IN  /\ GoodState(s, w, k) /\ Held(s) = I /\ IsFiniteSet(I) /\ Full(s, k)
             /\ (Cardinality(I) = k => Level(s, k))
<1> DEFINE s == NewState(w, I)
<1>1. /\ IsFiniteSet(s) /\ Cardinality(s) = Cardinality(I) /\ Held(s) = I
      /\ (\A p \in s : IsPart(p, w) /\ Len(p.items) = 1) /\ Apart(s)
      /\ IsFiniteSet(I) /\ Cardinality(I) \in Nat
  BY NewStateIs
<1> HIDE DEF s
<1>2. GoodState(s, w, k)
  BY <1>1 DEF GoodState
<1>3. Full(s, k)
  <2>1. Least(k, Cardinality(I)) = Cardinality(I)
    BY <1>1 DEF Least
  <2> QED BY <1>1, <2>1 DEF Full
<1>4. Cardinality(I) = k => Level(s, k)
  <2>1. 1 \in Nat
    OBVIOUS
  <2> QED BY <1>1, <2>1 DEF Level
<1> QED BY <1>1, <1>2, <1>3, <1>4 DEF s

Starts(F, w, k, n) == Family(F, w, k) /\ F # {} /\ HeldBy(F) = 1..n

\* Each position a state of its own.
LEMMA StartsApart ==
  ASSUME NEW n, NEW w, Weights(w, n), NEW k \in Nat \ {0}, n >= 1
  PROVE  Starts(InitialStates(w, k, FALSE), w, k, n)
<1> DEFINE F == InitialStates(w, k, FALSE)
<1>1. F = {NewState(w, {i}) : i \in 1..n}
  BY DEF InitialStates, Weights
<1>2. ASSUME NEW i \in 1..n
      PROVE  /\ GoodState(NewState(w, {i}), w, k) /\ Held(NewState(w, {i})) = {i}
             /\ IsFiniteSet({i}) /\ Full(NewState(w, {i}), k)
  <2>1. {i} \in SUBSET (1..n) /\ {i} # {}
    OBVIOUS
  <2>2. Cardinality({i}) = 1
    BY FS_Singleton
  <2>3. Cardinality({i}) <= k
    BY <2>2
  <2> QED BY <2>1, <2>3, NewStateStarts
<1>3. IsFiniteSet(F)
  <2>1. n \in Int /\ 1 \in Int
    BY DEF Weights
  <2>2. IsFiniteSet(1..n)
    BY <2>1, FS_Interval
  <2>3. IsFiniteSet({NewState(w, {i}) : i \in 1..n})
    <3> DEFINE f == [i \in 1..n |-> NewState(w, {i})]
               T == {NewState(w, {i}) : i \in 1..n}
    <3>1. f \in Surjection(1..n, T)
      BY DEF Surjection
    <3> HIDE DEF f, T
    <3>2. IsFiniteSet(T)
      BY <2>2, <3>1, FS_Surjection
    <3> QED BY <3>2 DEF T
  <2> QED BY <1>1, <2>3
<1> HIDE DEF F
<1>4. \A s \in F : GoodState(s, w, k) /\ Held(s) # {} /\ IsFiniteSet(Held(s)) /\ Full(s, k)
  BY <1>1, <1>2
<1>5. ASSUME NEW s \in F, NEW t \in F, s # t PROVE Held(s) \cap Held(t) = {}
  <2>1. PICK i \in 1..n : s = NewState(w, {i})
    BY <1>1
  <2>2. PICK j \in 1..n : t = NewState(w, {j})
    BY <1>1
  <2>3. i # j
    BY <1>5, <2>1, <2>2
  <2>4. Held(s) = {i} /\ Held(t) = {j}
    BY <1>2, <2>1, <2>2
  <2> QED BY <2>3, <2>4
<1>6. F # {} /\ HeldBy(F) = 1..n
  <2>1. 1 \in 1..n
    BY DEF Weights
  <2>2. \A i \in 1..n : NewState(w, {i}) \in F /\ i \in Held(NewState(w, {i}))
    BY <1>1, <1>2
  <2>3. \A s \in F : \E i \in 1..n : Held(s) = {i}
    BY <1>1, <1>2
  <2>4. \A x : x \in HeldBy(F) <=> \E s \in F : x \in Held(s)
    BY DEF HeldBy
  <2>5. \A x \in HeldBy(F) : x \in 1..n
    BY <2>3, <2>4
  <2>6. \A x \in 1..n : x \in HeldBy(F)
    BY <2>2, <2>4
  <2> QED BY <2>1, <2>2, <2>5, <2>6
<1> QED BY <1>3, <1>4, <1>5, <1>6 DEF Starts, Family, F

\* The positions of group g in the order of weight.
Group(k, g) == (k * g + 1)..(k * g + k)

LEMMA GroupsCover ==
  ASSUME NEW k \in Nat \ {0}, NEW q \in Nat
  PROVE  /\ \A g \in 0..(q - 1) : Group(k, g) \in SUBSET (1..(k * q))
         /\ \A g \in 0..(q - 1) : IsFiniteSet(Group(k, g)) /\ Cardinality(Group(k, g)) = k
         /\ \A g, h \in 0..(q - 1) : g # h => Group(k, g) \cap Group(k, h) = {}
         /\ \A i \in 1..(k * q) : \E g \in 0..(q - 1) : i \in Group(k, g)
<1>0. k * q \in Nat
  OBVIOUS
<1>1. ASSUME NEW g \in 0..(q - 1)
      PROVE  k * g \in Nat /\ k * g + k <= k * q
  <2>1. g \in Int /\ q \in Int /\ g < q
    OBVIOUS
  <2>2. k * g + k <= k * q
    BY <2>1, MulMono
  <2>3. k * g \in Nat
    OBVIOUS
  <2> QED BY <2>2, <2>3
<1>2. ASSUME NEW g \in 0..(q - 1)
      PROVE  Group(k, g) \in SUBSET (1..(k * q)) /\ IsFiniteSet(Group(k, g))
             /\ Cardinality(Group(k, g)) = k
  <2> DEFINE a == k * g
             b == k * q
  <2>1. a \in Nat /\ b \in Nat /\ a + k <= b
    BY <1>0, <1>1
  <2>2. Group(k, g) = (a + 1)..(a + k)
    BY DEF Group
  <2> HIDE DEF a, b
  <2>3. (a + 1)..(a + k) \in SUBSET (1..b)
    BY <2>1
  <2>4. IsFiniteSet((a + 1)..(a + k)) /\ Cardinality((a + 1)..(a + k)) = k
    <3>1. a + 1 \in Int /\ a + k \in Int /\ ~(a + 1 > a + k) /\ (a + k) - (a + 1) + 1 = k
      BY <2>1
    <3> QED BY <3>1, FS_Interval
  <2> QED BY <2>2, <2>3, <2>4 DEF b
<1>3. ASSUME NEW g \in 0..(q - 1), NEW h \in 0..(q - 1), g < h
      PROVE  Group(k, g) \cap Group(k, h) = {}
  <2>1. g \in Int /\ h \in Int
    OBVIOUS
  <2>2. k * g + k <= k * h
    BY <1>3, <2>1, MulMono
  <2> DEFINE a == k * g
             b == k * h
  <2>3. a \in Nat /\ b \in Nat /\ a + k <= b
    BY <1>1, <2>2
  <2> HIDE DEF a, b
  <2>4. (a + 1)..(a + k) \cap (b + 1)..(b + k) = {}
    BY <2>3
  <2> QED BY <2>4 DEF Group, a, b
<1>4. ASSUME NEW g \in 0..(q - 1), NEW h \in 0..(q - 1), g # h
      PROVE  Group(k, g) \cap Group(k, h) = {}
  <2>1. g < h \/ h < g
    BY <1>4
  <2>2. CASE g < h
    BY <1>3, <2>2
  <2>3. CASE h < g
    <3>1. Group(k, h) \cap Group(k, g) = {}
      BY <1>3, <2>3
    <3> QED BY <3>1
  <2> QED BY <2>1, <2>2, <2>3
<1>5. ASSUME NEW i \in 1..(k * q)
      PROVE  \E g \in 0..(q - 1) : i \in Group(k, g)
  <2> DEFINE g == (i - 1) \div k
  <2>1. i - 1 \in Int /\ i \in Int /\ 1 <= i /\ i <= k * q
    BY <1>0
  <2>2. i - 1 = k * g + ((i - 1) % k) /\ (i - 1) % k \in 0..(k - 1) /\ g \in Int
    BY <2>1, DivFacts
  <2> DEFINE r == (i - 1) % k
  <2>3. i - 1 = k * g + r /\ r \in 0..(k - 1) /\ g \in Int
    BY <2>2
  <2> HIDE DEF g, r
  <2>4. g >= 0
    <3>1. SUFFICES ASSUME g < 0 PROVE FALSE
      BY <2>3
    <3>2. k * g + k <= k * 0
      BY <2>3, <3>1, MulMono
    <3> QED BY <2>1, <2>3, <3>2
  <2>5. g < q
    <3>1. SUFFICES ASSUME ~(g < q) PROVE FALSE
      OBVIOUS
    <3>2. k * q <= k * g
      <4>1. g = q \/ q < g
        BY <2>3, <3>1
      <4>2. CASE g = q
        BY <1>0, <4>2
      <4>3. CASE q < g
        <5>1. k * q + k <= k * g
          BY <2>3, <4>3, MulMono
        <5>2. k * g \in Int
          BY <2>3
        <5> QED BY <1>0, <5>1, <5>2
      <4> QED BY <4>1, <4>2, <4>3
    <3>3. k * g \in Int
      BY <2>3
    <3> QED BY <1>0, <2>1, <2>3, <3>2, <3>3
  <2>6. i \in Group(k, g)
    <3> DEFINE a == k * g
    <3>1. a \in Int /\ i - 1 = a + r
      BY <2>3
    <3> HIDE DEF a
    <3>2. i \in (a + 1)..(a + k)
      BY <2>1, <2>3, <3>1
    <3> QED BY <3>2 DEF Group, a
  <2> QED BY <2>3, <2>4, <2>5, <2>6
<1> QED BY <1>2, <1>4, <1>5

\* Groups of k neighbours in weight.
LEMMA StartsLevel ==
  ASSUME NEW n, NEW w, Weights(w, n), NEW k \in Nat \ {0}, NEW q \in Nat \ {0}, n = k * q, Len(w) = n
  PROVE  Starts(InitialStates(w, k, TRUE), w, k, n) /\ LevelAll(InitialStates(w, k, TRUE), k)
<1> DEFINE F == InitialStates(w, k, TRUE)
           x == ByWeight(w, 1..n)
           I(g) == ElementsAt(x, Group(k, g))
<1>1. F = {NewState(w, I(g)) : g \in 0..(q - 1)}
  <2>1. Len(w) \div k = q
    <3>1. (k * q) \div k = q
      BY ExactDiv
    <3> QED BY <3>1
  <2>2. x = ByWeight(w, DOMAIN w)
    BY DEF Weights
  <2> HIDE DEF x
  <2>3. F = {NewState(w, {x[i] : i \in (k * g + 1)..(k * g + k)}) : g \in 0..(Len(w) \div k - 1)}
    BY <2>2 DEF InitialStates
  <2> HIDE DEF F
  <2> QED BY <2>1, <2>3 DEF ElementsAt, Group
<1>2. Lists(x, 1..n) /\ DOMAIN x = 1..n
  <2>1. n \in Int /\ 1 \in Int /\ n \in Nat
    BY DEF Weights
  <2>2. 1..n \in SUBSET Int /\ \A i \in 1..n : w[i] \in Int
    BY DEF Weights, NatOn
  <2>3. IsFiniteSet(1..n) /\ Cardinality(1..n) = n
    <3>1. IsFiniteSet(1..n) /\ Cardinality(1..n) = IF 1 > n THEN 0 ELSE n - 1 + 1
      BY <2>1, FS_Interval
    <3> QED BY <2>1, <3>1
  <2> QED BY <2>2, <2>3, ByWeightLists
<1>3. /\ \A i \in 1..n : x[i] \in 1..n
      /\ \A i, j \in 1..n : x[i] = x[j] => i = j
      /\ \A y \in 1..n : \E i \in 1..n : x[i] = y
  <2>1. x \in Seq(1..n)
    BY <1>2 DEF Lists
  <2>2. \A i \in 1..n : x[i] \in 1..n
    BY <1>2, <2>1, SeqElements
  <2> QED BY <1>2, <2>2 DEF Lists
<1> HIDE DEF x, F
<1>4. /\ \A g \in 0..(q - 1) : Group(k, g) \in SUBSET (1..n)
      /\ \A g \in 0..(q - 1) : IsFiniteSet(Group(k, g)) /\ Cardinality(Group(k, g)) = k
      /\ \A g, h \in 0..(q - 1) : g # h => Group(k, g) \cap Group(k, h) = {}
      /\ \A i \in 1..n : \E g \in 0..(q - 1) : i \in Group(k, g)
  BY GroupsCover
<1>5. ASSUME NEW g \in 0..(q - 1)
      PROVE  I(g) \in SUBSET (1..n) /\ I(g) # {} /\ Cardinality(I(g)) = k
  <2> DEFINE D == Group(k, g)
             E == I(g)
             f == [i \in D |-> x[i]]
  <2>1. D \in SUBSET (1..n) /\ IsFiniteSet(D) /\ Cardinality(D) = k
    BY <1>4
  <2>2. E = {x[i] : i \in D}
    BY DEF ElementsAt
  <2> HIDE DEF D, E
  <2>3. E \in SUBSET (1..n)
    <3>1. \A i \in D : x[i] \in 1..n
      BY <1>3, <2>1
    <3> QED BY <2>2, <3>1
  <2>4. f \in Bijection(D, E)
    <3>1. f \in [D -> E] /\ \A e \in E : \E i \in D : f[i] = e
      BY <2>2
    <3>2. \A i, j \in D : f[i] = f[j] => i = j
      BY <1>3, <2>1
    <3> HIDE DEF f
    <3> QED BY <3>1, <3>2 DEF Bijection, Injection, Surjection, IsInjective
  <2>5. IsFiniteSet(E) /\ Cardinality(E) = k
    <3>1. ExistsBijection(D, E)
      BY <2>4 DEF ExistsBijection
    <3> QED BY <2>1, <3>1, FS_Bijection
  <2>6. E # {}
    BY <2>5, FS_EmptySet
  <2> QED BY <2>3, <2>5, <2>6 DEF E
<1>6. ASSUME NEW g \in 0..(q - 1)
      PROVE  /\ GoodState(NewState(w, I(g)), w, k) /\ Held(NewState(w, I(g))) = I(g)
             /\ IsFiniteSet(I(g)) /\ Full(NewState(w, I(g)), k) /\ Level(NewState(w, I(g)), k)
  <2> DEFINE E == I(g)
  <2>1. E \in SUBSET (1..n) /\ E # {} /\ Cardinality(E) = k /\ Cardinality(E) <= k
    BY <1>5
  <2> HIDE DEF E
  <2>2. /\ GoodState(NewState(w, E), w, k) /\ Held(NewState(w, E)) = E
        /\ IsFiniteSet(E) /\ Full(NewState(w, E), k) /\ Level(NewState(w, E), k)
    BY <2>1, NewStateStarts
  <2> QED BY <2>2 DEF E
<1>7. ASSUME NEW g \in 0..(q - 1), NEW h \in 0..(q - 1), g # h
      PROVE  I(g) \cap I(h) = {}
  <2>1. Group(k, g) \cap Group(k, h) = {} /\ Group(k, g) \in SUBSET (1..n) /\ Group(k, h) \in SUBSET (1..n)
    BY <1>4, <1>7
  <2>2. ASSUME NEW y \in I(g), y \in I(h) PROVE FALSE
    <3>1. PICK i \in Group(k, g) : y = x[i]
      BY DEF ElementsAt
    <3>2. PICK j \in Group(k, h) : y = x[j]
      BY <2>2 DEF ElementsAt
    <3>3. i \in 1..n /\ j \in 1..n
      BY <2>1
    <3>4. i = j
      BY <1>3, <3>1, <3>2, <3>3
    <3> QED BY <2>1, <3>4
  <2> QED BY <2>2
<1>8. \A y \in 1..n : \E g \in 0..(q - 1) : y \in I(g)
  <2>1. ASSUME NEW y \in 1..n PROVE \E g \in 0..(q - 1) : y \in I(g)
    <3>1. PICK i \in 1..n : x[i] = y
      BY <1>3
    <3>2. PICK g \in 0..(q - 1) : i \in Group(k, g)
      BY <1>4
    <3> QED BY <3>1, <3>2 DEF ElementsAt
  <2> QED BY <2>1
<1>9. IsFiniteSet(F)
  <2> DEFINE f == [g \in 0..(q - 1) |-> NewState(w, I(g))]
  <2>1. IsFiniteSet(0..(q - 1))
    BY Initial
  <2>2. f \in Surjection(0..(q - 1), F)
    <3>1. f \in [0..(q - 1) -> F]
      BY <1>1
    <3>2. \A s \in F : \E g \in 0..(q - 1) : f[g] = s
      BY <1>1
    <3> HIDE DEF f, I
    <3> QED BY <3>1, <3>2 DEF Surjection
  <2> HIDE DEF f
  <2> QED BY <2>1, <2>2, FS_Surjection
<1> HIDE DEF I
<1>10. \A s \in F : /\ GoodState(s, w, k) /\ Held(s) # {} /\ IsFiniteSet(Held(s)) /\ Full(s, k)
                    /\ Level(s, k)
  BY <1>1, <1>5, <1>6
<1>11. ASSUME NEW s \in F, NEW t \in F, s # t PROVE Held(s) \cap Held(t) = {}
  <2>1. PICK g \in 0..(q - 1) : s = NewState(w, I(g))
    BY <1>1
  <2>2. PICK h \in 0..(q - 1) : t = NewState(w, I(h))
    BY <1>1
  <2>3. g # h
    BY <1>11, <2>1, <2>2
  <2>4. Held(s) = I(g) /\ Held(t) = I(h)
    BY <1>6, <2>1, <2>2
  <2> QED BY <1>7, <2>3, <2>4
<1>12. F # {} /\ HeldBy(F) = 1..n
  <2>1. 0 \in 0..(q - 1)
    OBVIOUS
  <2>2. \A g \in 0..(q - 1) : NewState(w, I(g)) \in F /\ Held(NewState(w, I(g))) = I(g)
    BY <1>1, <1>6
  <2>3. \A s \in F : \E g \in 0..(q - 1) : Held(s) = I(g)
    BY <1>1, <1>6
  <2>4. \A y : y \in HeldBy(F) <=> \E s \in F : y \in Held(s)
    BY DEF HeldBy
  <2>5. \A y \in HeldBy(F) : y \in 1..n
    BY <1>5, <2>3, <2>4
  <2>6. \A y \in 1..n : y \in HeldBy(F)
    BY <1>8, <2>2, <2>4
  <2> QED BY <2>1, <2>2, <2>5, <2>6
<1> QED BY <1>9, <1>10, <1>11, <1>12 DEF Starts, Family, LevelAll, F

\* k ascending lists that have each of 1..n in one of them, once.
PartitionOf(f, n, k) ==
  /\ DOMAIN f = 1..k /\ Len(f) = k /\ f \in Seq(Seq(1..n))
  /\ \A p \in 1..k : Lists(f[p], Range(f[p]))
  /\ \A p, q \in 1..k : p # q => Range(f[p]) \cap Range(f[q]) = {}
  /\ \A i \in 1..n : \E p \in 1..k : i \in Range(f[p])

\* The lists hold what the parts of the state do.
ListsParts(f, s, w, k) ==
  \A p \in 1..k : /\ Range(f[p]) = ItemsOf(HeaviestFirst(s, k)[p])
                  /\ Len(f[p]) = Len(HeaviestFirst(s, k)[p].items)
                  /\ HeaviestFirst(s, k)[p].sum = Sum(w, Range(f[p]))

LEMMA PartitionsAre ==
  ASSUME NEW n, NEW w, Weights(w, n), NEW k \in Nat \ {0}, NEW equalSize,
         Starts(InitialStates(w, k, equalSize), w, k, n)
  PROVE  /\ PartitionOf(BalancedPartitions(w, k, equalSize), n, k)
         /\ \E s : /\ FinalState(s, InitialStates(w, k, equalSize), w, k)
                   /\ ListsParts(BalancedPartitions(w, k, equalSize), s, w, k)
<1> DEFINE F == InitialStates(w, k, equalSize)
           f == BalancedPartitions(w, k, equalSize)
<1>1. Family(F, w, k) /\ F # {} /\ HeldBy(F) = 1..n
  BY DEF Starts
<1>2. PICK s : /\ FinalState(s, F, w, k)
               /\ KarmarkarKarp(w, k, equalSize) = [p \in 1..k |-> HeaviestFirst(s, k)[p].items]
  BY <1>1, KarmarkarKarpIs
<1> DEFINE h == HeaviestFirst(s, k)
<1>3. DOMAIN f = 1..k /\ \A p \in 1..k : f[p] = Ascending(ItemsOf(h[p]))
  BY <1>2 DEF BalancedPartitions, ItemsOf
<1>4. f = [p \in 1..k |-> f[p]]
  BY DEF BalancedPartitions
<1>5. GoodState(s, w, k) /\ Held(s) = 1..n
  BY <1>1, <1>2 DEF FinalState
<1>6. Slots(h, w, k) /\ SlotItems(h, k) = 1..n
  BY <1>5, HeaviestSlots
<1> HIDE DEF F, f, h
<1>7. ASSUME NEW p \in 1..k
      PROVE  /\ Lists(f[p], ItemsOf(h[p])) /\ Range(f[p]) = ItemsOf(h[p])
             /\ ItemsOf(h[p]) \in SUBSET (1..n)
             /\ f[p] \in Seq(1..n) /\ Len(f[p]) = Len(h[p].items) /\ h[p].sum = Sum(w, Range(f[p]))
  <2> DEFINE c == h[p]
             D == ItemsOf(h[p])
  <2>1. IsSlot(c, w)
    BY <1>6 DEF Slots
  <2>2. /\ D \in SUBSET (1..n) /\ IsFiniteSet(D) /\ Cardinality(D) = Len(c.items)
        /\ c.sum = Sum(w, D)
    BY <2>1, SlotFacts
  <2>3. f[p] = Ascending(D)
    BY <1>3
  <2> HIDE DEF c, D
  <2>4. D \in SUBSET Int
    BY <2>2
  <2>5. Lists(Ascending(D), D) /\ Len(Ascending(D)) = Cardinality(D)
    BY <2>2, <2>4, AscendingLists
  <2>6. Range(Ascending(D)) = D
    BY <2>5, ListsRange
  <2>7. Ascending(D) \in Seq(1..n)
    <3>1. Ascending(D) \in Seq(D)
      BY <2>5 DEF Lists
    <3> QED BY <2>2, <3>1, SeqWider
  <2>8. f[p] \in Seq(1..n) /\ Lists(f[p], D) /\ Range(f[p]) = D /\ Len(f[p]) = Len(c.items)
        /\ c.sum = Sum(w, Range(f[p]))
    BY <2>2, <2>3, <2>5, <2>6, <2>7
  <2> QED BY <2>2, <2>8 DEF c, D
<1>8. f \in Seq(Seq(1..n)) /\ Len(f) = k
  <2>1. \A p \in 1..k : f[p] \in Seq(1..n)
    BY <1>7
  <2> DEFINE T == Seq(1..n)
  <2>2. \A p \in 1..k : f[p] \in T
    BY <2>1
  <2> HIDE DEF T
  <2>3. f \in Seq(T) /\ Len(f) = k
    BY <1>4, <2>2
  <2> QED BY <2>3 DEF T
<1>9. \A p, q \in 1..k : p # q => Range(f[p]) \cap Range(f[q]) = {}
  <2>1. \A p, q \in 1..k : p # q => ItemsOf(h[p]) \cap ItemsOf(h[q]) = {}
    BY <1>6 DEF Slots
  <2> QED BY <1>7, <2>1
<1>10. \A i \in 1..n : \E p \in 1..k : i \in Range(f[p])
  <2>1. \A i \in SlotItems(h, k) : \E p \in 1..k : i \in ItemsOf(h[p])
    BY DEF SlotItems
  <2> QED BY <1>6, <1>7, <2>1
<1>11. \A p \in 1..k : Lists(f[p], Range(f[p]))
  BY <1>7
<1>12. PartitionOf(f, n, k)
  BY <1>3, <1>8, <1>9, <1>10, <1>11 DEF PartitionOf
<1>13. ListsParts(f, s, w, k)
  BY <1>7 DEF ListsParts, h
<1> QED BY <1>2, <1>12, <1>13 DEF f, F

\* With at least as many positions as parts, no part is empty.
LEMMA PackingIs ==
  ASSUME NEW n, NEW w, Weights(w, n), NEW k \in Nat \ {0}, n >= k
  PROVE  /\ PartitionOf(BalancedPartitions(w, k, FALSE), n, k)
         /\ \A p \in 1..k : Len(BalancedPartitions(w, k, FALSE)[p]) >= 1
<1> DEFINE F == InitialStates(w, k, FALSE)
           f == BalancedPartitions(w, k, FALSE)
<1>1. n \in Nat /\ n >= 1
  BY DEF Weights
<1>2. Starts(F, w, k, n)
  BY <1>1, StartsApart
<1>3. PartitionOf(f, n, k) /\ \E s : FinalState(s, F, w, k) /\ ListsParts(f, s, w, k)
  BY <1>2, PartitionsAre
<1> HIDE DEF F, f
<1>4. PICK s : FinalState(s, F, w, k) /\ ListsParts(f, s, w, k)
  BY <1>3
<1>5. GoodState(s, w, k) /\ Held(s) = 1..n /\ Full(s, k)
  BY <1>2, <1>4 DEF FinalState, Starts
<1>6. Cardinality(s) = k
  <2>1. Cardinality(1..n) = n
    <3>1. n \in Int /\ 1 \in Int /\ ~(1 > n) /\ n - 1 + 1 = n
      BY <1>1
    <3>2. Cardinality(1..n) = IF 1 > n THEN 0 ELSE n - 1 + 1
      BY <3>1, FS_Interval
    <3> QED BY <3>1, <3>2
  <2>2. Least(k, n) = k
    BY <1>1 DEF Least
  <2> QED BY <1>5, <2>1, <2>2 DEF Full
<1> DEFINE h == HeaviestFirst(s, k)
<1>7. Slots(h, w, k) /\ \A i \in 1..k : h[i] # EmptyPart <=> i <= Cardinality(s)
  BY <1>5, HeaviestSlots
<1>8. \A p \in 1..k : Len(f[p]) = Len(h[p].items)
  BY <1>4 DEF ListsParts
<1> HIDE DEF h
<1>9. ASSUME NEW p \in 1..k PROVE Len(f[p]) >= 1
  <2> DEFINE c == h[p]
  <2>1. IsSlot(c, w) /\ c # EmptyPart
    BY <1>6, <1>7 DEF Slots
  <2> HIDE DEF c
  <2>2. Len(c.items) \in Nat /\ Len(c.items) # 0
    BY <2>1, SlotFacts
  <2>3. Len(f[p]) = Len(c.items)
    BY <1>8 DEF c
  <2> QED BY <2>2, <2>3
<1> QED BY <1>3, <1>9 DEF f

\* With equal sizes the loads differ by no more than the widest starting state.
LEMMA LevelPartitionIs ==
  ASSUME NEW n, NEW w, Weights(w, n), NEW k \in Nat \ {0}, NEW q \in Nat \ {0}, n = k * q, Len(w) = n
  PROVE  LET f == BalancedPartitions(w, k, TRUE)
         IN  /\ PartitionOf(f, n, k) /\ \E size \in Nat : \A p \in 1..k : Len(f[p]) = size
             /\ \A d \in Int : Within(InitialStates(w, k, TRUE), k, d) =>
                  \A p, r \in 1..k : Sum(w, Range(f[p])) - Sum(w, Range(f[r])) <= d
<1> DEFINE F == InitialStates(w, k, TRUE)
           f == BalancedPartitions(w, k, TRUE)
<1>2. Starts(F, w, k, n) /\ LevelAll(F, k)
  BY StartsLevel
<1>3. PartitionOf(f, n, k) /\ \E s : FinalState(s, F, w, k) /\ ListsParts(f, s, w, k)
  BY <1>2, PartitionsAre
<1> HIDE DEF F, f
<1>4. PICK s : FinalState(s, F, w, k) /\ ListsParts(f, s, w, k)
  BY <1>3
<1>5. /\ GoodState(s, w, k) /\ Level(s, k)
      /\ \A d \in Int : Within(F, k, d) => Spread(s, k) <= d
  BY <1>2, <1>4 DEF FinalState
<1> DEFINE h == HeaviestFirst(s, k)
<1>6. \A p \in 1..k : Len(f[p]) = Len(h[p].items) /\ h[p].sum = Sum(w, Range(f[p]))
  BY <1>4 DEF ListsParts
<1>7. /\ \A i \in 1..k : h[i].sum \in Nat
      /\ \A i, j \in 1..k : i <= j => h[i].sum >= h[j].sum
      /\ Spread(s, k) = h[1].sum - h[k].sum
  BY <1>5, SumsFall
<1>8. \A i \in 1..k : h[i] \in s
  <2>1. HeaviestOrder(h, s, k)
    BY <1>5, HeaviestFirstIs
  <2>2. Cardinality(s) = k
    BY <1>5 DEF Level
  <2> QED BY <2>1, <2>2 DEF HeaviestOrder
<1> HIDE DEF h
<1>9. \E size \in Nat : \A p \in 1..k : Len(f[p]) = size
  <2>1. PICK size \in Nat : \A p \in s : Len(p.items) = size
    BY <1>5 DEF Level
  <2>2. \A p \in 1..k : Len(f[p]) = size
    BY <1>6, <1>8, <2>1
  <2> QED BY <2>2
<1>10. ASSUME NEW d \in Int, Within(F, k, d), NEW p \in 1..k, NEW r \in 1..k
       PROVE  Sum(w, Range(f[p])) - Sum(w, Range(f[r])) <= d
  <2>1. Spread(s, k) <= d
    BY <1>5, <1>10
  <2>2. 1 \in 1..k /\ k \in 1..k /\ 1 <= p /\ r <= k
    OBVIOUS
  <2>3. h[1].sum >= h[p].sum /\ h[r].sum >= h[k].sum
    BY <1>7, <2>2
  <2>4. h[1].sum \in Nat /\ h[p].sum \in Nat /\ h[r].sum \in Nat /\ h[k].sum \in Nat
    BY <1>7, <2>2
  <2>5. h[p].sum - h[r].sum <= d
    BY <1>7, <2>1, <2>3, <2>4
  <2> QED BY <1>6, <2>5
<1> QED BY <1>3, <1>9, <1>10 DEF f, F

-----------------------------------------------------------------------------
(* Alternating halves.                                                        *)

LEMMA ReverseLists ==
  ASSUME NEW S, NEW s, Lists(s, S)
  PROVE  Lists(Reverse(s), S)
<1> DEFINE n == Len(s)
           v == Reverse(s)
<1>1. s \in Seq(S) /\ n \in Nat /\ DOMAIN s = 1..n /\ \A i \in 1..n : s[i] \in S
  BY SeqElements DEF Lists
<1>2. v = [i \in 1..n |-> s[(n - i) + 1]]
  BY DEF Reverse
<1> HIDE DEF n, v
<1>3. \A i \in 1..n : (n - i) + 1 \in 1..n /\ (n - ((n - i) + 1)) + 1 = i
  BY <1>1
<1>4. v \in Seq(S) /\ DOMAIN v = 1..n /\ \A i \in 1..n : v[i] = s[(n - i) + 1]
  <2>1. \A i \in 1..n : v[i] = s[(n - i) + 1] /\ v[i] \in S
    BY <1>1, <1>2, <1>3
  <2>2. v = [i \in 1..n |-> v[i]] /\ DOMAIN v = 1..n
    BY <1>2
  <2>3. v \in [1..n -> S]
    BY <2>1, <2>2
  <2> QED BY <1>1, <2>1, <2>2, <2>3
<1>5. \A x \in S : \E i \in DOMAIN v : v[i] = x
  <2>1. ASSUME NEW x \in S PROVE \E i \in 1..n : v[i] = x
    <3>1. PICK j \in 1..n : s[j] = x
      BY <1>1 DEF Lists
    <3> DEFINE i == (n - j) + 1
    <3>2. i \in 1..n /\ (n - i) + 1 = j
      BY <1>3
    <3> HIDE DEF i
    <3>3. v[i] = s[j]
      BY <1>4, <3>2
    <3> QED BY <3>1, <3>2, <3>3
  <2> QED BY <1>4, <2>1
<1>6. \A i, j \in DOMAIN v : v[i] = v[j] => i = j
  <2>1. ASSUME NEW i \in 1..n, NEW j \in 1..n, v[i] = v[j] PROVE i = j
    <3> DEFINE a == (n - i) + 1
               b == (n - j) + 1
    <3>1. a \in 1..n /\ b \in 1..n /\ (a = b => i = j)
      BY <1>1
    <3>2. s[a] = s[b]
      BY <1>4, <2>1
    <3> HIDE DEF a, b
    <3> QED BY <1>1, <3>1, <3>2 DEF Lists
  <2> QED BY <1>4, <2>1
<1> QED BY <1>4, <1>5, <1>6 DEF Lists, v

LEMMA Halves ==
  ASSUME NEW n \in Nat
  PROVE  /\ CeilDiv(n, 2) \in Nat /\ n \div 2 \in Nat
         /\ \A i \in 1..CeilDiv(n, 2) : 2 * i - 1 \in 1..n
         /\ \A i \in 1..(n \div 2) : 2 * i \in 1..n
         /\ \A j \in 1..n : \/ \E i \in 1..CeilDiv(n, 2) : j = 2 * i - 1
                            \/ \E i \in 1..(n \div 2) : j = 2 * i
<1>1. CeilDiv(n, 2) = (n + 1) \div 2
  BY DEF CeilDiv
<1>2. (n + 1) \div 2 \in Nat /\ n \div 2 \in Nat
  OBVIOUS
<1>3. \A i \in 1..((n + 1) \div 2) : 2 * i - 1 \in 1..n
  OBVIOUS
<1>4. \A i \in 1..(n \div 2) : 2 * i \in 1..n
  OBVIOUS
<1>5. ASSUME NEW j \in 1..n
      PROVE  (\E i \in 1..((n + 1) \div 2) : j = 2 * i - 1) \/ (\E i \in 1..(n \div 2) : j = 2 * i)
  <2>1. j = 2 * (j \div 2) + (j % 2) /\ j % 2 \in 0..1 /\ j \div 2 \in Int
    BY DivFacts
  <2>2. CASE j % 2 = 0
    <3>1. j \div 2 \in 1..(n \div 2) /\ j = 2 * (j \div 2)
      BY <2>1, <2>2
    <3> QED BY <3>1
  <2>3. CASE j % 2 = 1
    <3>1. j \div 2 + 1 \in 1..((n + 1) \div 2) /\ j = 2 * (j \div 2 + 1) - 1
      BY <2>1, <2>3
    <3> QED BY <3>1
  <2> QED BY <2>1, <2>2, <2>3
<1> QED BY <1>1, <1>2, <1>3, <1>4, <1>5

Split(A, B, S) == A \cap B = {} /\ A \cup B = S

\* Every other element, and the others.
LEMMA HalvesList ==
  ASSUME NEW S, NEW s, Lists(s, S)
  PROVE  \E A, B : Split(A, B, S) /\ Lists(EveryOther(s), A) /\ Lists(TheOthers(s), B)
<1> DEFINE n == Len(s)
           a == CeilDiv(n, 2)
           b == n \div 2
           odd == [i \in 1..a |-> 2 * i - 1]
           even == [i \in 1..b |-> 2 * i]
           D == {2 * i - 1 : i \in 1..a}
           E == {2 * i : i \in 1..b}
<1>1. s \in Seq(S) /\ n \in Nat /\ DOMAIN s = 1..n /\ \A i \in 1..n : s[i] \in S
  BY SeqElements DEF Lists
<1>2. EveryOther(s) = Select(s, odd) /\ TheOthers(s) = Select(s, even)
  BY DEF EveryOther, TheOthers, Select
<1> HIDE DEF n
<1>3. /\ a \in Nat /\ b \in Nat
      /\ \A i \in 1..a : 2 * i - 1 \in 1..n
      /\ \A i \in 1..b : 2 * i \in 1..n
      /\ \A j \in 1..n : (\E i \in 1..a : j = 2 * i - 1) \/ (\E i \in 1..b : j = 2 * i)
  BY <1>1, Halves
<1> HIDE DEF a, b
<1>4. Lists(odd, D)
  <2>1. odd \in [1..a -> D]
    OBVIOUS
  <2>2. \A x \in D : \E i \in 1..a : odd[i] = x
    OBVIOUS
  <2>3. \A i, j \in 1..a : odd[i] = odd[j] => i = j
    OBVIOUS
  <2>4. DOMAIN odd = 1..a
    OBVIOUS
  <2> HIDE DEF odd, D
  <2>5. odd \in Seq(D)
    BY <1>3, <2>1
  <2> QED BY <2>2, <2>3, <2>4, <2>5 DEF Lists
<1>5. Lists(even, E)
  <2>1. even \in [1..b -> E]
    OBVIOUS
  <2>2. \A x \in E : \E i \in 1..b : even[i] = x
    OBVIOUS
  <2>3. \A i, j \in 1..b : even[i] = even[j] => i = j
    OBVIOUS
  <2>4. DOMAIN even = 1..b
    OBVIOUS
  <2> HIDE DEF even, E
  <2>5. even \in Seq(E)
    BY <1>3, <2>1
  <2> QED BY <2>2, <2>3, <2>4, <2>5 DEF Lists
<1>6. D \cap E = {} /\ D \cup E = 1..n
  <2>1. ASSUME NEW i \in 1..a, NEW j \in 1..b PROVE 2 * i - 1 # 2 * j
    BY <1>3
  <2>2. D \cap E = {}
    BY <2>1
  <2>3. \A x \in D \cup E : x \in 1..n
    BY <1>3
  <2>4. \A x \in 1..n : x \in D \cup E
    BY <1>3
  <2> QED BY <2>2, <2>3, <2>4
<1> HIDE DEF odd, even, D, E
<1> DEFINE A == ElementsAt(s, D)
           B == ElementsAt(s, E)
<1>7. Into(s, D, S) /\ Into(s, E, S) /\ OneToOne(s, D) /\ OneToOne(s, E)
  BY <1>1, <1>6 DEF Into, OneToOne, Lists
<1>8. Lists(Select(s, odd), A) /\ Lists(Select(s, even), B)
  BY <1>4, <1>5, <1>7, SelectLists
<1>9. Split(A, B, S)
  <2>1. \A i \in D, j \in E : s[i] # s[j]
    BY <1>1, <1>6 DEF Lists
  <2>2. A \cap B = {}
    BY <2>1 DEF ElementsAt
  <2>3. \A x \in S : x \in A \cup B
    BY <1>1, <1>6 DEF Lists, ElementsAt
  <2>4. \A x \in A \cup B : x \in S
    BY <1>1, <1>6 DEF ElementsAt
  <2> QED BY <2>2, <2>3, <2>4 DEF Split
<1> QED BY <1>2, <1>8, <1>9

LEMMA ArrangedLists ==
  ASSUME NEW S, NEW s, Lists(s, S)
  PROVE  /\ Lists(EveryOther(s) \o Reverse(TheOthers(s)), S)
         /\ Lists(Reverse(EveryOther(s)) \o TheOthers(s), S)
<1>1. PICK A, B : Split(A, B, S) /\ Lists(EveryOther(s), A) /\ Lists(TheOthers(s), B)
  BY HalvesList
<1>2. A \cap B = {} /\ A \cup B = S
  BY <1>1 DEF Split
<1>3. Lists(Reverse(EveryOther(s)), A) /\ Lists(Reverse(TheOthers(s)), B)
  BY <1>1, ReverseLists
<1>4. Lists(EveryOther(s) \o Reverse(TheOthers(s)), A \cup B)
  BY <1>1, <1>2, <1>3, ListsConcat
<1>5. Lists(Reverse(EveryOther(s)) \o TheOthers(s), A \cup B)
  BY <1>1, <1>2, <1>3, ListsConcat
<1> QED BY <1>2, <1>4, <1>5

-----------------------------------------------------------------------------
(* Partitions of a listing.                                                   *)

PartitionsOf(f, k, R) ==
  /\ \A p \in 1..k : Lists(f[p], Range(f[p])) /\ f[p] \in Seq(R)
  /\ \A p, q \in 1..k : p # q => Range(f[p]) \cap Range(f[q]) = {}
  /\ \A i \in R : \E p \in 1..k : i \in Range(f[p])

\* Selecting listed rows by the lists of a partition of their places partitions the rows.
LEMMA SelectPartition ==
  ASSUME NEW R, NEW rows, Lists(rows, R), NEW k \in Nat \ {0}, NEW parts, PartitionOf(parts, Len(rows), k),
         NEW f, DOMAIN f = 1..k, \A p \in 1..k : f[p] = Select(rows, parts[p])
  PROVE  /\ PartitionsOf(f, k, R)
         /\ \A p \in 1..k : Len(f[p]) = Len(parts[p]) /\ Range(f[p]) = ElementsAt(rows, Range(parts[p]))
<1> DEFINE n == Len(rows)
<1>1. rows \in Seq(R) /\ n \in Nat /\ DOMAIN rows = 1..n /\ \A i \in 1..n : rows[i] \in R
  BY SeqElements DEF Lists
<1> HIDE DEF n
<1>2. /\ \A p \in 1..k : Lists(parts[p], Range(parts[p])) /\ parts[p] \in Seq(1..n)
      /\ \A p, q \in 1..k : p # q => Range(parts[p]) \cap Range(parts[q]) = {}
      /\ \A i \in 1..n : \E p \in 1..k : i \in Range(parts[p])
  <2>1. parts \in Seq(Seq(1..n)) /\ DOMAIN parts = 1..k
    BY DEF PartitionOf, n
  <2>2. \A p \in 1..k : parts[p] \in Seq(1..n)
    BY <2>1, SeqElements
  <2> QED BY <2>2 DEF PartitionOf, n
<1>3. ASSUME NEW p \in 1..k
      PROVE  /\ Lists(f[p], Range(f[p])) /\ f[p] \in Seq(R) /\ Len(f[p]) = Len(parts[p])
             /\ Range(f[p]) = ElementsAt(rows, Range(parts[p])) /\ Range(parts[p]) \in SUBSET (1..n)
  <2> DEFINE idx == parts[p]
             I == Range(parts[p])
  <2>1. Lists(idx, I) /\ idx \in Seq(1..n)
    BY <1>2
  <2>2. I \in SUBSET (1..n)
    <3>1. \A i \in DOMAIN idx : idx[i] \in 1..n
      BY <2>1, SeqElements
    <3> QED BY <3>1 DEF Range
  <2>3. f[p] = Select(rows, idx)
    OBVIOUS
  <2> HIDE DEF idx, I
  <2>4. Into(rows, I, R) /\ OneToOne(rows, I)
    BY <1>1, <2>2 DEF Into, OneToOne, Lists
  <2>5. /\ Lists(Select(rows, idx), ElementsAt(rows, I)) /\ Select(rows, idx) \in Seq(R)
        /\ Len(Select(rows, idx)) = Len(idx)
    BY <2>1, <2>4, SelectLists
  <2>6. Range(Select(rows, idx)) = ElementsAt(rows, I)
    BY <2>5, ListsRange
  <2>7. Lists(f[p], Range(f[p])) /\ f[p] \in Seq(R) /\ Len(f[p]) = Len(idx) /\ Range(f[p]) = ElementsAt(rows, I)
    BY <2>3, <2>5, <2>6
  <2> QED BY <2>2, <2>7 DEF idx, I
<1>4. ASSUME NEW p \in 1..k, NEW q \in 1..k, p # q
      PROVE  Range(f[p]) \cap Range(f[q]) = {}
  <2>1. /\ Range(parts[p]) \cap Range(parts[q]) = {}
        /\ Range(parts[p]) \in SUBSET (1..n) /\ Range(parts[q]) \in SUBSET (1..n)
    BY <1>2, <1>3, <1>4
  <2>2. \A i, j \in 1..n : rows[i] = rows[j] => i = j
    BY <1>1 DEF Lists
  <2>3. ElementsAt(rows, Range(parts[p])) \cap ElementsAt(rows, Range(parts[q])) = {}
    BY <2>1, <2>2 DEF ElementsAt
  <2> QED BY <1>3, <2>3
<1>5. \A x \in R : \E p \in 1..k : x \in Range(f[p])
  <2>1. ASSUME NEW x \in R PROVE \E p \in 1..k : x \in Range(f[p])
    <3>1. PICK i \in 1..n : rows[i] = x
      BY <1>1 DEF Lists
    <3>2. PICK p \in 1..k : i \in Range(parts[p])
      BY <1>2
    <3>3. x \in ElementsAt(rows, Range(parts[p]))
      BY <3>1, <3>2 DEF ElementsAt
    <3> QED BY <1>3, <3>2, <3>3
  <2> QED BY <2>1
<1> QED BY <1>3, <1>4, <1>5 DEF PartitionsOf

-----------------------------------------------------------------------------
(* Workloads.                                                                 *)

LEMMA WorkloadNat ==
  ASSUME NEW l \in Nat
  PROVE  Workload(l) \in Nat
<1>1. l * l \in Nat /\ 24576 * l \in Nat
  OBVIOUS
<1> QED BY <1>1 DEF Workload

-----------------------------------------------------------------------------
(* Mapping elements to sequences, joined.                                     *)

Mapped(p, h) == [i \in DOMAIN p |-> h[p[i]]]

Map(p, h)    == FlattenSeq(Mapped(p, h))

LEMMA MappedIs ==
  ASSUME NEW S, NEW T, NEW p \in Seq(S), NEW h \in [S -> Seq(T)]
  PROVE  /\ Mapped(p, h) \in Seq(Seq(T)) /\ Len(Mapped(p, h)) = Len(p) /\ Map(p, h) \in Seq(T)
         /\ DOMAIN Mapped(p, h) = DOMAIN p /\ \A i \in DOMAIN p : Mapped(p, h)[i] = h[p[i]]
<1> DEFINE m == Mapped(p, h)
           Q == Seq(T)
<1>1. Len(p) \in Nat /\ DOMAIN p = 1..Len(p) /\ \A i \in DOMAIN p : p[i] \in S
  BY SeqElements
<1>2. DOMAIN m = DOMAIN p /\ m = [i \in DOMAIN p |-> h[p[i]]]
  BY DEF Mapped
<1>3. \A x \in S : h[x] \in Q
  OBVIOUS
<1> HIDE DEF m, Q
<1>4. m \in Seq(Q) /\ Len(m) = Len(p)
  BY <1>1, <1>2, <1>3
<1>5. FlattenSeq(m) \in Seq(T)
  BY <1>4, FlattenType DEF Q
<1> QED BY <1>2, <1>4, <1>5 DEF m, Q, Map

LEMMA MapNone == \A h : Map(<<>>, h) = <<>>
<1> TAKE h
<1>1. Mapped(<<>>, h) = <<>>
  BY DEF Mapped
<1> QED BY <1>1, FlattenNone DEF Map

LEMMA MapOne ==
  ASSUME NEW S, NEW T, NEW x \in S, NEW h \in [S -> Seq(T)]
  PROVE  Map(<<x>>, h) = h[x]
<1>1. Mapped(<<x>>, h) = <<h[x]>>
  BY DEF Mapped
<1>2. h[x] \in Seq(T)
  OBVIOUS
<1>3. FlattenSeq(<<h[x]>>) = h[x]
  BY <1>2, FlattenOne
<1> QED BY <1>1, <1>3 DEF Map

LEMMA MappedConcat ==
  ASSUME NEW S, NEW p \in Seq(S), NEW q \in Seq(S), NEW T, NEW h, Into(h, S, T)
  PROVE  Mapped(p \o q, h) = Mapped(p, h) \o Mapped(q, h)
<1> DEFINE a == Len(p)
           b == Len(q)
           u == Mapped(p, h)
           v == Mapped(q, h)
           z == Mapped(p \o q, h)
<1>1. /\ a \in Nat /\ b \in Nat /\ DOMAIN (p \o q) = 1..(a + b) /\ DOMAIN p = 1..a /\ DOMAIN q = 1..b
      /\ (\A i \in 1..a : (p \o q)[i] = p[i])
      /\ \A i \in (a + 1)..(a + b) : i - a \in 1..b /\ (p \o q)[i] = q[i - a]
  BY ConcatFacts
<1>2. /\ DOMAIN z = 1..(a + b) /\ DOMAIN u = 1..a /\ DOMAIN v = 1..b
      /\ z = [i \in 1..(a + b) |-> z[i]]
      /\ \A i \in 1..(a + b) : z[i] = h[(p \o q)[i]]
      /\ \A i \in 1..a : u[i] = h[p[i]]
      /\ \A i \in 1..b : v[i] = h[q[i]]
  BY <1>1 DEF Mapped
<1>3. u \in Seq(T) /\ v \in Seq(T) /\ Len(u) = a /\ Len(v) = b
  <2>1. (\A i \in 1..a : p[i] \in S) /\ (\A i \in 1..b : q[i] \in S)
    BY <1>1, SeqElements
  <2>2. \A x \in S : h[x] \in T
    BY DEF Into
  <2>3. u = [i \in 1..a |-> h[p[i]]] /\ v = [i \in 1..b |-> h[q[i]]]
    BY <1>1 DEF Mapped
  <2> HIDE DEF u, v
  <2> QED BY <1>1, <2>1, <2>2, <2>3
<1> HIDE DEF u, v, z, a, b
<1>4. /\ u \o v \in Seq(T) /\ DOMAIN (u \o v) = 1..(a + b) /\ (\A i \in 1..a : (u \o v)[i] = u[i])
      /\ \A i \in (a + 1)..(a + b) : i - a \in 1..b /\ (u \o v)[i] = v[i - a]
  <2>1. u \in Seq(T) /\ v \in Seq(T)
    BY <1>3
  <2>2. /\ u \o v \in Seq(T) /\ DOMAIN (u \o v) = 1..(Len(u) + Len(v))
        /\ (\A i \in 1..Len(u) : (u \o v)[i] = u[i])
        /\ \A i \in (Len(u) + 1)..(Len(u) + Len(v)) :
             i - Len(u) \in 1..Len(v) /\ (u \o v)[i] = v[i - Len(u)]
    BY <2>1, ConcatFacts
  <2> QED BY <1>3, <2>2
<1>5. \A i \in 1..(a + b) : z[i] = (u \o v)[i]
  <2>1. ASSUME NEW i \in 1..(a + b) PROVE z[i] = (u \o v)[i]
    <3>1. CASE i \in 1..a
      BY <1>1, <1>2, <1>4, <3>1, SMTT(30)
    <3>2. CASE i \in (a + 1)..(a + b)
      <4>1. i - a \in 1..b
        BY <1>1, <3>2
      <4>2. z[i] = h[(p \o q)[i]] /\ (p \o q)[i] = q[i - a]
        BY <1>1, <1>2, <3>2
      <4>3. v[i - a] = h[q[i - a]] /\ (u \o v)[i] = v[i - a]
        BY <1>2, <1>4, <3>2, <4>1
      <4> QED BY <4>2, <4>3
    <3>3. i \in 1..a \/ i \in (a + 1)..(a + b)
      <4>1. a \in Nat /\ b \in Nat
        BY <1>1
      <4> QED BY <4>1
    <3> QED BY <3>1, <3>2, <3>3
  <2> QED BY <2>1
<1>6. u \o v = [i \in 1..(a + b) |-> (u \o v)[i]]
  <2> DEFINE c == u \o v
  <2>1. c \in Seq(T) /\ DOMAIN c = 1..(a + b)
    BY <1>4
  <2> HIDE DEF c
  <2>2. c \in [1..Len(c) -> T]
    BY <2>1
  <2>3. c = [i \in 1..(a + b) |-> c[i]]
    BY <2>1, <2>2
  <2> QED BY <2>3 DEF c
<1>7. z = u \o v
  BY <1>2, <1>5, <1>6
<1> QED BY <1>7 DEF u, v, z

LEMMA MapConcat ==
  ASSUME NEW S, NEW T, NEW p \in Seq(S), NEW q \in Seq(S), NEW h \in [S -> Seq(T)]
  PROVE  Map(p \o q, h) = Map(p, h) \o Map(q, h)
<1>1. Mapped(p, h) \in Seq(Seq(T)) /\ Mapped(q, h) \in Seq(Seq(T))
  BY MappedIs
<1>2. Mapped(p \o q, h) = Mapped(p, h) \o Mapped(q, h)
  <2>1. Into(h, S, Seq(T))
    BY DEF Into
  <2> QED BY <2>1, MappedConcat
<1>3. FlattenSeq(Mapped(p, h) \o Mapped(q, h)) = FlattenSeq(Mapped(p, h)) \o FlattenSeq(Mapped(q, h))
  BY <1>1, FlattenConcat
<1> QED BY <1>2, <1>3 DEF Map

Takes(h, S, T) == h \in [S -> Seq(T)]

LEMMA MappedTakes ==
  ASSUME NEW S, NEW T, NEW p \in Seq(S), NEW h, Takes(h, S, T)
  PROVE  Mapped(p, h) \in Seq(Seq(T))
<1>1. h \in [S -> Seq(T)]
  BY DEF Takes
<1> QED BY <1>1, MappedIs

Each(F, h, f) == f = [j \in DOMAIN F |-> Map(F[j], h)]

\* Mapping what is flattened is flattening what is mapped.
LEMMA MapFlatten ==
  ASSUME NEW S, NEW T, NEW F \in Seq(Seq(S)), NEW h, Takes(h, S, T), NEW f, Each(F, h, f)
  PROVE  Map(FlattenSeq(F), h) = FlattenSeq(f)
<1>0. h \in [S -> Seq(T)]
  BY DEF Takes
<1> DEFINE l == Len(F)
           Good == {k \in Nat : k <= l => Map(FlattenSeq(SubSeq(F, 1, k)), h) = FlattenSeq(SubSeq(f, 1, k))}
<1>1. l \in Nat /\ DOMAIN F = 1..l /\ \A j \in 1..l : F[j] \in Seq(S)
  BY SeqElements
<1>2. \A j \in 1..l : f[j] = Map(F[j], h) /\ f[j] \in Seq(T)
  <2>1. ASSUME NEW j \in 1..l PROVE f[j] = Map(F[j], h) /\ f[j] \in Seq(T)
    <3>1. f[j] = Map(F[j], h)
      BY <1>1 DEF Each
    <3>2. F[j] \in Seq(S)
      BY <1>1
    <3>3. Map(F[j], h) \in Seq(T)
      BY <1>0, <3>2, MappedIs
    <3> QED BY <3>1, <3>3
  <2> QED BY <2>1
<1>3. f \in Seq(Seq(T)) /\ Len(f) = l
  <2> DEFINE Q == Seq(T)
  <2>1. f = [j \in 1..l |-> f[j]] /\ \A j \in 1..l : f[j] \in Q
    <3>1. f = [j \in 1..l |-> f[j]]
      BY <1>1 DEF Each
    <3> QED BY <1>2, <3>1
  <2> HIDE DEF Q
  <2>2. f \in Seq(Q) /\ Len(f) = l
    BY <1>1, <2>1
  <2> QED BY <2>2 DEF Q
<1> HIDE DEF l
<1>4. 0 \in Good
  <2>1. SubSeq(F, 1, 0) = <<>> /\ SubSeq(f, 1, 0) = <<>>
    BY <1>3
  <2>2. Map(FlattenSeq(SubSeq(F, 1, 0)), h) = FlattenSeq(SubSeq(f, 1, 0))
    BY <2>1, FlattenNone, MapNone
  <2> QED BY <2>2
<1>5. ASSUME NEW k \in Nat, k \in Good
      PROVE  k + 1 \in Good
  <2> SUFFICES ASSUME k + 1 <= l
               PROVE  Map(FlattenSeq(SubSeq(F, 1, k + 1)), h) = FlattenSeq(SubSeq(f, 1, k + 1))
    OBVIOUS
  <2>1. Map(FlattenSeq(SubSeq(F, 1, k)), h) = FlattenSeq(SubSeq(f, 1, k))
    BY <1>1, <1>5
  <2>2. k < Len(F) /\ k < Len(f) /\ k + 1 \in 1..l
    BY <1>1, <1>3 DEF l
  <2>3. /\ SubSeq(F, 1, k) \in Seq(Seq(S)) /\ F[k + 1] \in Seq(S)
        /\ FlattenSeq(SubSeq(F, 1, k + 1)) = FlattenSeq(SubSeq(F, 1, k)) \o F[k + 1]
    BY <2>2, FlattenPrefix
  <2>4. FlattenSeq(SubSeq(f, 1, k + 1)) = FlattenSeq(SubSeq(f, 1, k)) \o f[k + 1]
    BY <1>3, <2>2, FlattenPrefix
  <2> DEFINE A == FlattenSeq(SubSeq(F, 1, k))
             B == F[k + 1]
  <2>5. A \in Seq(S) /\ B \in Seq(S)
    BY <2>3, FlattenType
  <2> HIDE DEF A, B
  <2>6. Map(A \o B, h) = Map(A, h) \o Map(B, h)
    BY <1>0, <2>5, MapConcat
  <2>7. f[k + 1] = Map(B, h)
    BY <1>2, <2>2 DEF B
  <2> QED BY <2>1, <2>3, <2>4, <2>6, <2>7 DEF A, B
<1>6. l \in Good
  <2> HIDE DEF Good
  <2> QED BY <1>1, <1>4, <1>5, SetInduction
<1>7. SubSeq(F, 1, l) = F /\ SubSeq(f, 1, l) = f
  <2>1. SubSeq(F, 1, Len(F)) = F
    BY WholeSeq
  <2>2. SubSeq(f, 1, Len(f)) = f
    BY <1>3, WholeSeq
  <2> QED BY <1>3, <2>1, <2>2 DEF l
<1>8. Map(FlattenSeq(SubSeq(F, 1, l)), h) = FlattenSeq(SubSeq(f, 1, l))
  BY <1>1, <1>6
<1> QED BY <1>7, <1>8

LEMMA FlattenEmpties ==
  ASSUME NEW T, NEW f \in Seq(Seq(T)), \A i \in DOMAIN f : f[i] = <<>>
  PROVE  FlattenSeq(f) = <<>>
<1> DEFINE P == [i \in DOMAIN f |-> {}]
           s == FlattenSeq(f)
<1>1. ListsEach(f, P)
  BY SingleLists DEF ListsEach
<1> HIDE DEF P
<1>3. Lists(s, {})
  <2>1. Lists(FlattenSeq(f), UNION {P[i] : i \in DOMAIN f})
    BY <1>1, FlattenLists
  <2>2. \A x \in UNION {P[i] : i \in DOMAIN f} : FALSE
    BY DEF P
  <2>3. UNION {P[i] : i \in DOMAIN f} = {}
    BY <2>2
  <2> QED BY <2>1, <2>3
<1> HIDE DEF s
<1>4. s \in Seq({})
  BY <1>3 DEF Lists
<1>5. s = <<>>
  BY <1>4
<1> QED BY <1>5 DEF s

\* What is at a place of a route's listing, among equal sequences.
LEMMA SameSeq ==
  ASSUME NEW S, NEW s \in Seq(S), NEW T, NEW t \in Seq(T), Len(s) = Len(t), Agree(s, t, 1..Len(s))
  PROVE  s = t
<1>1. Len(s) \in Nat /\ DOMAIN s = 1..Len(s) /\ DOMAIN t = 1..Len(s)
  OBVIOUS
<1>2. s = [i \in 1..Len(s) |-> s[i]] /\ t = [i \in 1..Len(s) |-> t[i]]
  <2>1. s \in [1..Len(s) -> S] /\ t \in [1..Len(t) -> T]
    OBVIOUS
  <2> QED BY <2>1
<1>3. \A i \in 1..Len(s) : s[i] = t[i]
  BY DEF Agree
<1> QED BY <1>2, <1>3

-----------------------------------------------------------------------------
(* Micro-batches.                                                             *)

Upto(n) == [i \in 1..n |-> i]

LEMMA UptoIs ==
  ASSUME NEW n \in Nat
  PROVE  Upto(n) \in Seq(1..n) /\ Len(Upto(n)) = n /\ Lists(Upto(n), 1..n)
<1> DEFINE u == Upto(n)
<1>1. u \in [1..n -> 1..n] /\ DOMAIN u = 1..n /\ \A i \in 1..n : u[i] = i
  BY DEF Upto
<1> HIDE DEF u
<1>2. u \in Seq(1..n) /\ Len(u) = n
  BY <1>1
<1> QED BY <1>1, <1>2 DEF Lists, u

Shifted(a, c) == [i \in 1..c |-> a + i]

LEMMA UptoJoin ==
  ASSUME NEW a \in Nat, NEW c \in Nat
  PROVE  /\ Shifted(a, c) \in Seq(1..(a + c)) /\ Upto(a) \o Shifted(a, c) = Upto(a + c)
<1> DEFINE u == Upto(a)
           v == Shifted(a, c)
           z == Upto(a + c)
<1>1. u = [i \in 1..a |-> i] /\ v = [i \in 1..c |-> a + i] /\ z = [i \in 1..(a + c) |-> i]
  BY DEF Upto, Shifted
<1> HIDE DEF u, v, z
<1>2. /\ u \in Seq(Nat) /\ Len(u) = a /\ v \in Seq(1..(a + c)) /\ v \in Seq(Nat) /\ Len(v) = c
      /\ z \in Seq(Nat) /\ Len(z) = a + c
  BY <1>1
<1>3. u \o v \in Seq(Nat) /\ Len(u \o v) = a + c
  BY <1>2
<1>c. /\ (\A i \in 1..a : (u \o v)[i] = u[i])
      /\ \A i \in (a + 1)..(a + c) : i - a \in 1..c /\ (u \o v)[i] = v[i - a]
  <2>1. u \in Seq(Nat) /\ v \in Seq(Nat)
    BY <1>2
  <2>2. /\ (\A i \in 1..Len(u) : (u \o v)[i] = u[i])
        /\ \A i \in (Len(u) + 1)..(Len(u) + Len(v)) :
             i - Len(u) \in 1..Len(v) /\ (u \o v)[i] = v[i - Len(u)]
    BY <2>1, ConcatFacts
  <2> QED BY <1>2, <2>2
<1>4. ASSUME NEW i \in 1..(a + c) PROVE (u \o v)[i] = z[i]
  <2>0. z[i] = i
    BY <1>1
  <2>1. CASE i <= a
    <3>1. i \in 1..a
      BY <2>1
    <3>2. (u \o v)[i] = u[i] /\ u[i] = i
      BY <1>1, <1>c, <3>1
    <3> QED BY <2>0, <3>2
  <2>2. CASE i > a
    <3>1. i \in (a + 1)..(a + c) /\ i - a \in 1..c /\ a + (i - a) = i
      BY <2>2
    <3>2. (u \o v)[i] = v[i - a] /\ v[i - a] = a + (i - a)
      BY <1>1, <1>c, <3>1
    <3> QED BY <2>0, <3>1, <3>2
  <2>3. i <= a \/ i > a
    OBVIOUS
  <2> QED BY <2>1, <2>2, <2>3
<1> DEFINE x == u \o v
<1>5. x \in Seq(Nat) /\ Len(x) = Len(z) /\ Agree(x, z, 1..Len(x))
  BY <1>2, <1>3, <1>4 DEF Agree
<1> HIDE DEF x
<1>6. x = z
  BY <1>2, <1>5, SameSeq
<1> QED BY <1>2, <1>6 DEF x, u, v, z

LEMMA CeilDivIs ==
  ASSUME NEW n \in Nat, NEW d \in Nat \ {0}
  PROVE  /\ CeilDiv(n, d) \in Nat /\ d * CeilDiv(n, d) >= n
         /\ \A m \in Nat : m < CeilDiv(n, d) => d * m < n
<1> DEFINE l == CeilDiv(n, d)
           r == (n + d - 1) % d
<1>1. n + d - 1 = d * l + r /\ r \in 0..(d - 1) /\ l \in Int
  <2>1. n + d - 1 \in Int
    OBVIOUS
  <2>2. n + d - 1 = d * ((n + d - 1) \div d) + ((n + d - 1) % d) /\ (n + d - 1) % d \in 0..(d - 1)
        /\ (n + d - 1) \div d \in Int
    BY <2>1, DivFacts
  <2> QED BY <2>2 DEF CeilDiv
<1> HIDE DEF l, r
<1>2. d * l \in Int
  BY <1>1
<1>3. l \in Nat
  <2>1. SUFFICES ASSUME l < 0 PROVE FALSE
    BY <1>1
  <2>2. d * l + d <= d * 0
    BY <1>1, <2>1, MulMono
  <2> QED BY <1>1, <1>2, <2>2
<1>4. d * l >= n
  BY <1>1, <1>2
<1>5. ASSUME NEW m \in Nat, m < l PROVE d * m < n
  <2>1. d * m + d <= d * l
    BY <1>1, <1>5, MulMono
  <2>2. d * m \in Int
    OBVIOUS
  <2> QED BY <1>1, <1>2, <2>1, <2>2
<1> QED BY <1>3, <1>4, <1>5 DEF l

HeavierThan(load, parts, p, q) ==
  load[p] > load[q] \/ (load[p] = load[q] /\ parts[p][1] > parts[q][1])

ByLoad(load, parts, k) ==
  [n \in 1..Cardinality(1..k) |->
    CHOOSE x \in 1..k : Cardinality({y \in 1..k : HeavierThan(load, parts, y, x)}) = n - 1]

FirstsApart(parts, k) ==
  /\ \A p \in 1..k : parts[p][1] \in Int
  /\ \A p, q \in 1..k : p # q => parts[p][1] # parts[q][1]

\* Micro-batches by decreasing load.
LEMMA HeavierLists ==
  ASSUME NEW k \in Nat, NEW load, IntOn(load, 1..k), NEW parts, FirstsApart(parts, k)
  PROVE  Lists(ByLoad(load, parts, k), 1..k)
<1> DEFINE S == 1..k
           R == {p \in S \X S : HeavierThan(load, parts, p[1], p[2])}
           f == [n \in 1..Cardinality(S) |->
                   CHOOSE x \in S : Cardinality({y \in S : HeavierThan(load, parts, y, x)}) = n - 1]
<1>0. IsFiniteSet(S) /\ S \in SUBSET Int
  <2>1. IsFiniteSet(S)
    BY FS_Interval
  <2> QED BY <2>1
<1>1. \A x, y \in S : <<x, y>> \in R <=> HeavierThan(load, parts, x, y)
  OBVIOUS
<1> HIDE DEF R
<1>i. /\ \A p \in S : load[p] \in Int /\ parts[p][1] \in Int
      /\ \A p, q \in S : p # q => parts[p][1] # parts[q][1]
  BY DEF IntOn, FirstsApart
<1> HIDE DEF S
<1>2. StrictOrder(R, S)
  <2>1. \A x \in S : <<x, x>> \notin R
    BY <1>1, <1>i DEF HeavierThan
  <2>2. \A x, y, z \in S : <<x, y>> \in R /\ <<y, z>> \in R => <<x, z>> \in R
    BY <1>1, <1>i DEF HeavierThan
  <2>3. \A x, y \in S : x # y => <<x, y>> \in R \/ <<y, x>> \in R
    BY <1>1, <1>i DEF HeavierThan
  <2> QED BY <2>1, <2>2, <2>3 DEF StrictOrder
<1>3. \A x \in S : {y \in S : HeavierThan(load, parts, y, x)} = Ahead(R, S, x)
  BY <1>1 DEF Ahead
<1>5. ASSUME NEW n \in 1..Cardinality(S)
      PROVE  f[n] \in S /\ Cardinality({y \in S : HeavierThan(load, parts, y, f[n])}) = n - 1
  <2>1. \E x \in S : Cardinality(Ahead(R, S, x)) = n - 1
    BY <1>0, <1>2, PlaceTaken
  <2>2. \E x \in S : Cardinality({y \in S : HeavierThan(load, parts, y, x)}) = n - 1
    BY <1>3, <2>1
  <2>3. f[n] = CHOOSE x \in S : Cardinality({y \in S : HeavierThan(load, parts, y, x)}) = n - 1
    OBVIOUS
  <2> HIDE DEF f
  <2> QED BY <2>2, <2>3
<1>6. f \in [1..Cardinality(S) -> S]
  BY <1>5
<1>7. Lists(f, S)
  <2> HIDE DEF f
  <2>1. \A n \in 1..Cardinality(S) : Cardinality(Ahead(R, S, f[n])) = n - 1
    BY <1>3, <1>5
  <2> QED BY <1>0, <1>2, <1>6, <2>1, InPlace
<1>8. ByLoad(load, parts, k) = f
  BY DEF ByLoad, S
<1> HIDE DEF f
<1> QED BY <1>7, <1>8 DEF S

\* However many micro-batches, up to the number of rows, each row is in one of them.
LEMMA MicroBatchesAre ==
  ASSUME NEW ls \in Seq(Nat), NEW k \in Nat \ {0}, k <= Len(ls)
  PROVE  /\ MicroBatches(ls, k) \in Seq(Seq(1..Len(ls))) /\ Len(MicroBatches(ls, k)) = k
         /\ Lists(FlattenSeq(MicroBatches(ls, k)), 1..Len(ls))
<1> DEFINE L == Len(ls)
           w == [i \in DOMAIN ls |-> Workload(ls[i])]
           parts == BalancedPartitions(w, k, FALSE)
           load == [p \in 1..k |-> Total(Select(w, parts[p]))]
           order == ByLoad(load, parts, k)
           arranged == Reverse(EveryOther(order)) \o TheOthers(order)
           M == MicroBatches(ls, k)
           Q == Seq(1..L)
<1>1. L \in Nat /\ DOMAIN ls = 1..L /\ (\A i \in 1..L : ls[i] \in Nat) /\ k <= L
  OBVIOUS
<1>2. M = [m \in 1..k |-> parts[arranged[m]]]
  <2> DEFINE Order(q) == ByLoad([p \in 1..k |-> Total(Select(w, q[p]))], q, k)
             A(q) == [m \in 1..k |-> q[(Reverse(EveryOther(Order(q))) \o TheOthers(Order(q)))[m]]]
  <2>1. M = CHOOSE lists \in {A(q) : q \in {parts}} : TRUE
    BY DEF MicroBatches, SortedBy, HeavierThan, ByLoad
  <2>2. A(parts) = [m \in 1..k |-> parts[arranged[m]]]
    OBVIOUS
  <2> HIDE DEF A, parts
  <2>3. {A(q) : q \in {parts}} = {A(parts)}
    OBVIOUS
  <2> QED BY <2>1, <2>2, <2>3
<1>3. Weights(w, L)
  <2>1. \A i \in 1..L : Workload(ls[i]) \in Nat
    BY <1>1, WorkloadNat
  <2> QED BY <1>1, <2>1 DEF Weights, NatOn
<1>4. NatOn(w, 1..L) /\ IntOn(w, 1..L)
  BY <1>3 DEF Weights, NatOn, IntOn
<1>l. \A p \in 1..k : load[p] = Total(Select(w, parts[p]))
  OBVIOUS
<1> HIDE DEF w
<1>5. PartitionOf(parts, L, k) /\ \A p \in 1..k : Len(parts[p]) >= 1
  <2> HIDE DEF L
  <2> QED BY <1>1, <1>3, PackingIs
<1> HIDE DEF L, parts, load, M, Q
<1>6. ASSUME NEW p \in 1..k
      PROVE  load[p] \in Int /\ parts[p][1] \in Range(parts[p]) /\ parts[p] \in Seq(1..L)
             /\ parts[p][1] \in Int
  <2> DEFINE x == parts[p]
  <2>1. x \in Seq(1..L) /\ Len(x) >= 1
    <3>1. parts \in Seq(Seq(1..L)) /\ DOMAIN parts = 1..k
      BY <1>5 DEF PartitionOf
    <3> DEFINE T == Seq(1..L)
    <3>2. parts \in Seq(T)
      BY <3>1
    <3> HIDE DEF T
    <3>3. x \in T
      BY <3>1, <3>2, SeqElements
    <3> QED BY <1>5, <3>3 DEF T
  <2> HIDE DEF x
  <2>2. Len(x) \in Nat /\ DOMAIN x = 1..Len(x) /\ \A i \in DOMAIN x : x[i] \in 1..L
    BY <2>1, SeqElements
  <2>3. x[1] \in Range(x) /\ x[1] \in Int
    <3>1. 1 \in DOMAIN x
      BY <2>1, <2>2
    <3>2. x[1] \in 1..L
      BY <2>2, <3>1
    <3> QED BY <3>1, <3>2 DEF Range
  <2>4. Total(Select(w, x)) \in Int
    <3> DEFINE v == Select(w, x)
    <3>1. DOMAIN v = 1..Len(x) /\ \A i \in 1..Len(x) : v[i] = w[x[i]]
      BY <2>2 DEF Select
    <3> HIDE DEF v
    <3>2. IntOn(v, 1..Len(x))
      <4>1. \A i \in 1..L : w[i] \in Int
        BY <1>4 DEF IntOn
      <4>2. \A i \in 1..Len(x) : v[i] \in Int
        BY <2>2, <3>1, <4>1
      <4> QED BY <4>2 DEF IntOn
    <3>3. IsFiniteSet(1..Len(x))
      BY <2>2, FS_Interval
    <3>4. Sum(v, 1..Len(x)) \in Int
      BY <3>2, <3>3, SumType
    <3>5. Total(v) = Sum(v, 1..Len(x))
      BY <3>1, TotalIsSum
    <3> QED BY <3>4, <3>5 DEF v
  <2> QED BY <1>l, <2>1, <2>3, <2>4 DEF x
<1>7. \A p, q \in 1..k : p # q => parts[p][1] # parts[q][1]
  <2>1. ASSUME NEW p \in 1..k, NEW q \in 1..k, p # q PROVE parts[p][1] # parts[q][1]
    <3>1. Range(parts[p]) \cap Range(parts[q]) = {}
      BY <1>5, <2>1 DEF PartitionOf
    <3>2. parts[p][1] \in Range(parts[p]) /\ parts[q][1] \in Range(parts[q])
      BY <1>6
    <3> QED BY <3>1, <3>2
  <2> QED BY <2>1
<1>8. Lists(order, 1..k)
  <2>1. IntOn(load, 1..k) /\ FirstsApart(parts, k)
    BY <1>6, <1>7 DEF IntOn, FirstsApart
  <2> HIDE DEF order
  <2>2. k \in Nat
    OBVIOUS
  <2> QED BY <2>1, <2>2, HeavierLists DEF order
<1> HIDE DEF order
<1>9. Lists(arranged, 1..k)
  BY <1>8, ArrangedLists
<1> HIDE DEF arranged
<1>10. Len(arranged) = k /\ DOMAIN arranged = 1..k /\ \A m \in 1..k : arranged[m] \in 1..k
  <2>1. Cardinality(1..k) = k
    BY FS_Interval
  <2>2. Cardinality(1..k) = Len(arranged) /\ DOMAIN arranged = 1..Len(arranged)
    BY <1>9, ListsCard
  <2>3. arranged \in Seq(1..k)
    BY <1>9 DEF Lists
  <2>4. \A m \in DOMAIN arranged : arranged[m] \in 1..k
    BY <2>3, SeqElements
  <2> QED BY <2>1, <2>2, <2>4
<1>11. M \in Seq(Q) /\ Len(M) = k /\ DOMAIN M = 1..k /\ \A m \in 1..k : M[m] = parts[arranged[m]]
  <2>1. \A m \in 1..k : parts[arranged[m]] \in Q
    BY <1>6, <1>10 DEF Q
  <2> QED BY <1>2, <2>1
<1> DEFINE P == [m \in 1..k |-> Range(parts[arranged[m]])]
<1>p. \A m \in 1..k : P[m] = Range(parts[arranged[m]])
  OBVIOUS
<1> HIDE DEF P
<1>12. ListsEach(M, P)
  <2>1. ASSUME NEW i \in 1..k PROVE Lists(M[i], P[i])
    <3>1. Lists(parts[arranged[i]], Range(parts[arranged[i]]))
      BY <1>5, <1>10 DEF PartitionOf
    <3> QED BY <1>11, <1>p, <3>1
  <2>2. ASSUME NEW i \in 1..k, NEW j \in 1..k, i # j PROVE P[i] \cap P[j] = {}
    <3>1. arranged[i] # arranged[j]
      BY <1>9, <1>10, <2>2 DEF Lists
    <3>2. Range(parts[arranged[i]]) \cap Range(parts[arranged[j]]) = {}
      BY <1>5, <1>10, <3>1 DEF PartitionOf
    <3> QED BY <1>p, <3>2
  <2> QED BY <1>11, <2>1, <2>2 DEF ListsEach
<1>13. Lists(FlattenSeq(M), UNION {P[m] : m \in DOMAIN M})
  <2>1. M \in Seq(Seq(1..L))
    BY <1>11 DEF Q
  <2> QED BY <1>12, <2>1, FlattenLists
<1>14. UNION {P[m] : m \in DOMAIN M} = 1..L
  <2>1. \A x : x \in UNION {P[m] : m \in DOMAIN M} <=> \E m \in 1..k : x \in P[m]
    BY <1>11
  <2>2. ASSUME NEW m \in 1..k, NEW x \in P[m] PROVE x \in 1..L
    <3>1. parts[arranged[m]] \in Seq(1..L)
      BY <1>6, <1>10
    <3>2. \A i \in DOMAIN parts[arranged[m]] : parts[arranged[m]][i] \in 1..L
      BY <3>1, SeqElements
    <3>3. x \in Range(parts[arranged[m]])
      BY <1>p, <2>2
    <3> QED BY <3>2, <3>3 DEF Range
  <2>3. ASSUME NEW x \in 1..L PROVE \E m \in 1..k : x \in P[m]
    <3>1. PICK p \in 1..k : x \in Range(parts[p])
      BY <1>5 DEF PartitionOf
    <3>2. PICK m \in 1..k : arranged[m] = p
      BY <1>9, <1>10 DEF Lists
    <3> QED BY <1>p, <3>1, <3>2
  <2> DEFINE U == UNION {P[m] : m \in DOMAIN M}
  <2>4. (\A x \in U : x \in 1..L) /\ (\A x \in 1..L : x \in U)
    BY <2>1, <2>2, <2>3
  <2> HIDE DEF U
  <2> QED BY <2>4 DEF U
<1> QED BY <1>11, <1>13, <1>14 DEF M, Q, L

LEMMA LargestOf ==
  ASSUME NEW k \in Nat \ {0}, NEW f, NatOn(f, 1..k)
  PROVE  \E p \in 1..k : \A q \in 1..k : f[p] >= f[q]
<1> DEFINE Good == {m \in Nat : m + 1 <= k => \E p \in 1..(m + 1) : \A q \in 1..(m + 1) : f[p] >= f[q]}
<1>0. \A p \in 1..k : f[p] \in Nat
  BY DEF NatOn
<1>1. 0 \in Good
  <2>1. 1..1 = {1} /\ (0 + 1 <= k => f[1] >= f[1])
    BY <1>0
  <2> QED BY <2>1
<1>2. ASSUME NEW m \in Nat, m \in Good PROVE m + 1 \in Good
  <2> SUFFICES ASSUME m + 2 <= k PROVE \E p \in 1..(m + 2) : \A q \in 1..(m + 2) : f[p] >= f[q]
    OBVIOUS
  <2>1. PICK p \in 1..(m + 1) : \A q \in 1..(m + 1) : f[p] >= f[q]
    <3>1. m + 1 <= k
      OBVIOUS
    <3> QED BY <1>2, <3>1
  <2>2. f[p] \in Nat /\ f[m + 2] \in Nat /\ p \in 1..(m + 2) /\ m + 2 \in 1..(m + 2)
        /\ \A q \in 1..(m + 2) : q \in 1..(m + 1) \/ q = m + 2
    BY <1>0
  <2>3. CASE f[p] >= f[m + 2]
    BY <2>1, <2>2, <2>3
  <2>4. CASE f[p] < f[m + 2]
    <3>1. \A q \in 1..(m + 1) : f[q] \in Nat /\ f[p] >= f[q]
      BY <1>0, <2>1
    <3>2. \A q \in 1..(m + 2) : f[m + 2] >= f[q]
      BY <2>2, <2>4, <3>1
    <3> QED BY <2>2, <3>2
  <2>5. f[p] \in Nat /\ f[m + 2] \in Nat
    BY <2>2
  <2>6. f[p] >= f[m + 2] \/ f[p] < f[m + 2]
    BY <2>5
  <2> QED BY <2>3, <2>4, <2>6
<1>3. k - 1 \in Nat /\ (k - 1) + 1 = k
  OBVIOUS
<1>4. k - 1 \in Good
  <2> HIDE DEF Good
  <2> QED BY <1>1, <1>2, <1>3, SetInduction
<1> QED BY <1>3, <1>4

\* A rank with rows asks for at least one micro-batch, and for no more than it has rows.
LEMMA ProposedIs ==
  ASSUME NEW ls \in Seq(Nat \ {0}), Len(ls) >= 1, NEW most \in Nat \ {0}
  PROVE  ProposedCount(ls, most) \in Nat \ {0} /\ ProposedCount(ls, most) <= Len(ls)
<1> DEFINE n == Len(ls)
           t == Total(ls)
           c == CeilDiv(t, most)
<1>1. n \in Nat /\ n >= 1 /\ DOMAIN ls = 1..n /\ \A i \in 1..n : ls[i] \in Nat \ {0}
  OBVIOUS
<1>2. ProposedCount(ls, most) = IF c < n THEN c ELSE n
  BY DEF ProposedCount
<1> HIDE DEF n
<1>3. t \in Nat /\ t >= 1
  <2>1. IsFiniteSet(1..n) /\ IsFiniteSet((1..n) \ {1}) /\ 1 \in 1..n
    <3>1. IsFiniteSet(1..n)
      BY <1>1, FS_Interval
    <3>2. IsFiniteSet((1..n) \ {1})
      BY <3>1, FS_RemoveElement
    <3> QED BY <1>1, <3>1, <3>2
  <2>2. IntOn(ls, 1..n) /\ IntOn(ls, (1..n) \ {1}) /\ NatOn(ls, (1..n) \ {1}) /\ ls[1] >= 1 /\ ls[1] \in Nat
    BY <1>1 DEF IntOn, NatOn
  <2>3. t = Sum(ls, 1..n)
    BY <1>1, TotalIsSum
  <2> HIDE DEF t
  <2>4. Sum(ls, 1..n) = ls[1] + Sum(ls, (1..n) \ {1})
    BY <2>1, <2>2, SumRemove
  <2>5. Sum(ls, (1..n) \ {1}) \in Nat
    BY <2>1, <2>2, SumType
  <2> QED BY <2>2, <2>3, <2>4, <2>5
<1> HIDE DEF t
<1>4. c \in Nat /\ most * c >= t
  BY <1>3, CeilDivIs
<1>5. c # 0
  BY <1>3, <1>4
<1> HIDE DEF c
<1> QED BY <1>1, <1>2, <1>4, <1>5 DEF n

-----------------------------------------------------------------------------
(* Places in equal chunks.                                                    *)

Place(size, r, i) == size * (r - 1) + i

PlacesApart(size, k) ==
  \A r, q \in 1..k, i, j \in 1..size : Place(size, r, i) = Place(size, q, j) => r = q /\ i = j

PlacesCover(size, k, n) ==
  \A x \in 1..n : \E r \in 1..k, i \in 1..size : x = Place(size, r, i)

\* Equal chunks have each place once.
LEMMA ChunkPlaces ==
  ASSUME NEW k \in Nat \ {0}, NEW size \in Nat \ {0}
  PROVE  /\ \A r \in 1..k, i \in 1..size : Place(size, r, i) \in 1..(k * size)
         /\ PlacesApart(size, k) /\ PlacesCover(size, k, k * size)
<1>1. ASSUME NEW r \in 1..k, NEW i \in 1..size PROVE Place(size, r, i) \in 1..(k * size)
  <2> DEFINE z == size * (r - 1)
             y == size * k
  <2>0. r - 1 \in Int /\ k \in Int /\ r - 1 < k
    OBVIOUS
  <2>1. z + size <= y
    BY <2>0, MulMono
  <2>2. z \in Nat /\ y \in Nat /\ k * size = y
    OBVIOUS
  <2> HIDE DEF z, y
  <2>3. z + i \in 1..y
    BY <2>1, <2>2
  <2> QED BY <2>2, <2>3 DEF Place, z
<1>2. ASSUME NEW r \in 1..k, NEW q \in 1..k, NEW i \in 1..size, NEW j \in 1..size,
             Place(size, r, i) = Place(size, q, j)
      PROVE  r = q /\ i = j
  <2>0. r - 1 \in Int /\ q - 1 \in Int /\ i - 1 \in 0..(size - 1) /\ j - 1 \in 0..(size - 1)
    OBVIOUS
  <2> DEFINE z == size * (r - 1)
             y == size * (q - 1)
             m == z + (i - 1)
  <2>1. z \in Int /\ y \in Int
    BY <2>0
  <2>2. m \in Int /\ m = size * (r - 1) + (i - 1) /\ m = size * (q - 1) + (j - 1)
    <3>1. z + i = y + j
      BY <1>2 DEF Place
    <3> HIDE DEF z, y
    <3>2. m \in Int /\ m = z + (i - 1) /\ m = y + (j - 1)
      BY <2>0, <2>1, <3>1
    <3> QED BY <3>2 DEF z, y
  <2> HIDE DEF m
  <2>3. m \div size = r - 1 /\ m % size = i - 1
    BY <2>0, <2>2, DivUnique
  <2>4. m \div size = q - 1 /\ m % size = j - 1
    BY <2>0, <2>2, DivUnique
  <2> QED BY <2>3, <2>4
<1>3. ASSUME NEW x \in 1..(k * size) PROVE \E r \in 1..k, i \in 1..size : x = Place(size, r, i)
  <2>1. k * size = size * k /\ k \in Nat
    OBVIOUS
  <2>2. PICK g \in 0..(k - 1) : x \in Group(size, g)
    BY <2>1, GroupsCover
  <2> DEFINE z == size * g
  <2>3. z \in Int
    OBVIOUS
  <2>4. x \in (z + 1)..(z + size)
    BY <2>2 DEF Group
  <2> HIDE DEF z
  <2>5. x - z \in 1..size /\ x = z + (x - z) /\ g + 1 \in 1..k /\ (g + 1) - 1 = g
    BY <2>3, <2>4
  <2>6. Place(size, g + 1, x - z) = z + (x - z)
    BY <2>5 DEF Place, z
  <2> QED BY <2>5, <2>6
<1> QED BY <1>1, <1>2, <1>3 DEF PlacesApart, PlacesCover

Divides(k, size, n) == n = k * size

-----------------------------------------------------------------------------
(* One by one, and back in order.                                             *)

LEMMA HeadTail ==
  ASSUME NEW Q, NEW p \in Seq(Q), p # <<>>
  PROVE  Head(p) \in Q /\ Tail(p) \in Seq(Q) /\ p = <<Head(p)>> \o Tail(p)
<1> DEFINE h == Head(p)
           t == Tail(p)
<1>1. Len(p) \in Nat /\ Len(p) >= 1 /\ DOMAIN p = 1..Len(p) /\ \A i \in 1..Len(p) : p[i] \in Q
  OBVIOUS
<1>2. h = p[1] /\ t \in Seq(Q) /\ Len(t) = Len(p) - 1 /\ \A i \in 1..(Len(p) - 1) : t[i] = p[i + 1]
  BY <1>1
<1> HIDE DEF h, t
<1>3. h \in Q
  BY <1>1, <1>2
<1>4. <<h>> \in Seq(Q) /\ Len(<<h>>) = 1 /\ <<h>>[1] = h
  BY <1>3
<1> DEFINE s == <<h>>
<1> HIDE DEF s
<1>5. s \o t \in Seq(Q) /\ Len(s \o t) = Len(p) /\ (s \o t)[1] = h
      /\ \A i \in 2..Len(p) : (s \o t)[i] = t[i - 1]
  <2>1. s \in Seq(Q) /\ Len(s) = 1 /\ s[1] = h
    BY <1>4 DEF s
  <2>2. /\ s \o t \in Seq(Q) /\ Len(s \o t) = Len(s) + Len(t)
        /\ (\A i \in 1..Len(s) : (s \o t)[i] = s[i])
        /\ \A i \in (Len(s) + 1)..(Len(s) + Len(t)) : i - Len(s) \in 1..Len(t) /\ (s \o t)[i] = t[i - Len(s)]
    <3>1. s \in Seq(Q) /\ t \in Seq(Q)
      BY <1>2, <2>1
    <3> QED BY <3>1, ConcatFacts
  <2>3. \A i \in 2..Len(p) : i \in (Len(s) + 1)..(Len(s) + Len(t))
    BY <1>1, <1>2, <2>1
  <2> QED BY <1>1, <1>2, <2>1, <2>2, <2>3
<1> DEFINE u == s \o t
<1>6. Agree(p, u, 1..Len(p))
  <2>1. ASSUME NEW i \in 1..Len(p) PROVE p[i] = u[i]
    <3>1. CASE i = 1
      BY <1>2, <1>5, <3>1
    <3>2. CASE i # 1
      <4>1. i \in 2..Len(p) /\ i - 1 \in 1..(Len(p) - 1) /\ (i - 1) + 1 = i
        BY <1>1, <3>2
      <4> QED BY <1>2, <1>5, <4>1
    <3> QED BY <3>1, <3>2
  <2> HIDE DEF u
  <2> QED BY <2>1 DEF Agree
<1>7. p = u
  <2>1. u \in Seq(Q) /\ Len(u) = Len(p)
    BY <1>5
  <2> HIDE DEF u
  <2> QED BY <1>6, <2>1, SameSeq
<1> QED BY <1>2, <1>3, <1>7 DEF h, t, s

LEMMA RestoredIs ==
  ASSUME NEW n \in Nat, NEW s \in Seq(Nat), Len(s) = n, NEW batches, Lists(FlattenSeq(batches), 1..n)
  PROVE  RestoreDynamicBatch(Select(s, FlattenSeq(batches)), batches) = s
<1> DEFINE idx == FlattenSeq(batches)
           outs == Select(s, idx)
           reverse == ReverseIdx(idx)
           back == RestoreDynamicBatch(outs, batches)
<1>1. back = [j \in DOMAIN outs |-> outs[reverse[j]]]
  BY DEF RestoreDynamicBatch
<1>r. reverse = [j \in Range(idx) |-> CHOOSE i \in DOMAIN idx : idx[i] = j]
  BY DEF ReverseIdx
<1>o. outs = [i \in DOMAIN idx |-> s[idx[i]]]
  BY DEF Select
<1> HIDE DEF idx, outs, reverse, back
<1>2. Lists(idx, 1..n)
  BY DEF idx
<1>3. Len(idx) = n /\ DOMAIN idx = 1..n /\ Range(idx) = 1..n
  <2>1. Cardinality(1..n) = n
    BY FS_Interval
  <2> QED BY <1>2, <2>1, ListsCard, ListsRange
<1>4. ASSUME NEW j \in 1..n PROVE back[j] = s[j]
  <2>1. \E i \in DOMAIN idx : idx[i] = j
    BY <1>2 DEF Lists
  <2>2. reverse[j] = CHOOSE i \in DOMAIN idx : idx[i] = j
    BY <1>3, <1>r
  <2>3. reverse[j] \in 1..n /\ idx[reverse[j]] = j
    BY <1>3, <2>1, <2>2
  <2>4. outs[reverse[j]] = s[j]
    BY <1>3, <1>o, <2>3
  <2> QED BY <1>1, <1>3, <1>o, <2>4
<1>5. back = [j \in 1..n |-> s[j]]
  BY <1>1, <1>3, <1>4, <1>o
<1>6. s = [j \in 1..n |-> s[j]]
  OBVIOUS
<1> QED BY <1>5, <1>6 DEF back, outs, idx

LEMMA InOrderIs ==
  ASSUME NEW n \in Nat, NEW s \in Seq(Nat), Len(s) = n
  PROVE  Select(s, Upto(n)) = s
<1>1. DOMAIN Upto(n) = 1..n /\ \A i \in 1..n : Upto(n)[i] = i
  BY DEF Upto
<1>2. Select(s, Upto(n)) = [i \in 1..n |-> s[i]]
  BY <1>1 DEF Select
<1>3. s = [j \in 1..n |-> s[j]]
  OBVIOUS
<1> QED BY <1>2, <1>3

LEMMA SelectJoined ==
  ASSUME NEW s, NEW a \in Seq(Nat), NEW b \in Seq(Nat)
  PROVE  /\ Select(s, a \o b) = Select(s, a) \o Select(s, b)
         /\ Select(s, a) \o <<>> = Select(s, a)
<1> DEFINE T == {s[i] : i \in Nat}
<1>1. Into(s, Nat, T)
  BY DEF Into
<1> HIDE DEF T
<1>2. Select(s, a) \in Seq(T) /\ Select(s, a \o b) = Select(s, a) \o Select(s, b)
  BY <1>1, SelectConcat
<1> DEFINE u == Select(s, a)
<1>3. u \in Seq(T)
  BY <1>2
<1> HIDE DEF u
<1>4. u \o <<>> = u
  BY <1>3
<1> QED BY <1>2, <1>4 DEF u

\* What is listed as two lists one after the other.
LEMMA PartsOfList ==
  ASSUME NEW T, NEW a \in Seq(T), NEW b \in Seq(T), NEW S, Lists(a \o b, S)
  PROVE  /\ Lists(a, Range(a)) /\ Lists(b, Range(b)) /\ Range(a) \cap Range(b) = {}
         /\ Range(a) \cup Range(b) = S
<1> DEFINE c == a \o b
<1>1. /\ c \in Seq(S) /\ Len(a) \in Nat /\ Len(b) \in Nat
      /\ DOMAIN c = 1..(Len(a) + Len(b)) /\ DOMAIN a = 1..Len(a) /\ DOMAIN b = 1..Len(b)
      /\ \A i \in 1..Len(a) : c[i] = a[i]
      /\ \A i \in 1..Len(b) : c[Len(a) + i] = b[i]
      /\ \A i \in (Len(a) + 1)..(Len(a) + Len(b)) : i - Len(a) \in 1..Len(b) /\ c[i] = b[i - Len(a)]
  BY ConcatFacts DEF Lists
<1>2. /\ \A x \in S : \E i \in DOMAIN c : c[i] = x
      /\ \A i, j \in DOMAIN c : c[i] = c[j] => i = j
      /\ \A i \in DOMAIN c : c[i] \in S
  <2>1. Lists(c, S)
    OBVIOUS
  <2> HIDE DEF c
  <2> QED BY <1>1, <2>1, SeqElements DEF Lists
<1> HIDE DEF c
<1>3. Range(a) = {a[i] : i \in 1..Len(a)} /\ Range(b) = {b[i] : i \in 1..Len(b)}
  BY <1>1 DEF Range
<1>4. a \in Seq(Range(a)) /\ b \in Seq(Range(b))
  <2>1. a = [i \in 1..Len(a) |-> a[i]] /\ b = [i \in 1..Len(b) |-> b[i]]
    BY <1>1
  <2>2. (\A i \in 1..Len(a) : a[i] \in Range(a)) /\ \A i \in 1..Len(b) : b[i] \in Range(b)
    BY <1>3
  <2> DEFINE A == Range(a)
             B == Range(b)
  <2> HIDE DEF A, B
  <2>3. a \in Seq(A)
    BY <1>1, <2>1, <2>2 DEF A
  <2>4. b \in Seq(B)
    BY <1>1, <2>1, <2>2 DEF B
  <2> QED BY <2>3, <2>4 DEF A, B
<1>5. ASSUME NEW i \in 1..Len(a) PROVE i \in DOMAIN c /\ c[i] = a[i]
  BY <1>1
<1>6. ASSUME NEW i \in 1..Len(b) PROVE Len(a) + i \in DOMAIN c /\ c[Len(a) + i] = b[i]
  BY <1>1
<1>7. \A i, j \in 1..Len(a) : a[i] = a[j] => i = j
  BY <1>2, <1>5
<1>8. \A i, j \in 1..Len(b) : b[i] = b[j] => i = j
  <2> SUFFICES ASSUME NEW i \in 1..Len(b), NEW j \in 1..Len(b), b[i] = b[j] PROVE i = j
    OBVIOUS
  <2>1. Len(a) + i = Len(a) + j
    BY <1>2, <1>6
  <2> QED BY <1>1, <2>1
<1>9. ASSUME NEW i \in 1..Len(a), NEW j \in 1..Len(b) PROVE a[i] # b[j]
  <2>1. i # Len(a) + j
    BY <1>1
  <2> QED BY <1>2, <1>5, <1>6, <2>1
<1>10. Range(a) \cap Range(b) = {}
  BY <1>3, <1>9
<1>11. ASSUME NEW x \in S PROVE x \in Range(a) \cup Range(b)
  <2>1. PICK i \in DOMAIN c : c[i] = x
    BY <1>2
  <2>2. CASE i \in 1..Len(a)
    BY <1>3, <1>5, <2>1, <2>2
  <2>3. CASE i \notin 1..Len(a)
    <3>1. i \in (Len(a) + 1)..(Len(a) + Len(b))
      BY <1>1, <2>3
    <3>2. i - Len(a) \in 1..Len(b) /\ c[i] = b[i - Len(a)]
      BY <1>1, <3>1
    <3> QED BY <1>3, <2>1, <3>2
  <2> QED BY <2>2, <2>3
<1>12. ASSUME NEW x \in Range(a) \cup Range(b) PROVE x \in S
  BY <1>2, <1>3, <1>5, <1>6
<1>13. Range(a) \cup Range(b) = S
  BY <1>11, <1>12
<1>14. Lists(a, Range(a))
  <2>1. \A x \in Range(a) : \E i \in DOMAIN a : a[i] = x
    BY <1>1, <1>3
  <2> QED BY <1>1, <1>4, <1>7, <2>1 DEF Lists
<1>15. Lists(b, Range(b))
  <2>1. \A x \in Range(b) : \E i \in DOMAIN b : b[i] = x
    BY <1>1, <1>3
  <2> QED BY <1>1, <1>4, <1>8, <2>1 DEF Lists
<1> QED BY <1>10, <1>13, <1>14, <1>15

\* An index list that is read off a table gives the elements of both parts.
LEMMA ElementsJoin ==
  ASSUME NEW s, NEW A, NEW B
  PROVE  ElementsAt(s, A \cup B) = ElementsAt(s, A) \cup ElementsAt(s, B)
BY DEF ElementsAt

-----------------------------------------------------------------------------
(* Short sequences, joined.                                                   *)

LEMMA TwoJoined ==
  ASSUME NEW S, NEW a \in S, NEW b \in S
  PROVE  <<a>> \o <<b>> = <<a, b>>
<1> DEFINE s == <<a>>
           t == <<b>>
           u == s \o t
           v == <<a, b>>
<1>1. s \in Seq(S) /\ t \in Seq(S) /\ Len(s) = 1 /\ Len(t) = 1 /\ s[1] = a /\ t[1] = b
  OBVIOUS
<1>2. v \in Seq(S) /\ Len(v) = 2 /\ v[1] = a /\ v[2] = b
  OBVIOUS
<1>0. u = s \o t
  OBVIOUS
<1> HIDE DEF s, t, u, v
<1>3. u \in Seq(S) /\ Len(u) = 2 /\ u[1] = s[1] /\ u[2] = t[1]
  <2>0. s \in Seq(S) /\ t \in Seq(S)
    BY <1>1
  <2>1. /\ s \o t \in Seq(S) /\ Len(s \o t) = Len(s) + Len(t)
        /\ \A i \in 1..Len(s) : (s \o t)[i] = s[i]
        /\ \A i \in 1..Len(t) : (s \o t)[Len(s) + i] = t[i]
    BY <2>0, ConcatFacts
  <2>2. /\ u \in Seq(S) /\ Len(u) = Len(s) + Len(t)
        /\ \A i \in 1..Len(s) : u[i] = s[i]
        /\ \A i \in 1..Len(t) : u[Len(s) + i] = t[i]
    BY <1>0, <2>1
  <2> QED BY <1>1, <2>2
<1>4. Agree(u, v, 1..Len(u))
  BY <1>1, <1>2, <1>3 DEF Agree
<1>5. u = v
  BY <1>2, <1>3, <1>4, SameSeq
<1> QED BY <1>5 DEF s, t, u, v

LEMMA FourJoined ==
  ASSUME NEW S, NEW a \in S, NEW b \in S, NEW c \in S, NEW d \in S
  PROVE  <<a, b>> \o <<c, d>> = <<a, b, c, d>>
<1> DEFINE s == <<a, b>>
           t == <<c, d>>
           u == s \o t
           v == <<a, b, c, d>>
<1>1. s \in Seq(S) /\ t \in Seq(S) /\ Len(s) = 2 /\ Len(t) = 2 /\ s[1] = a /\ s[2] = b /\ t[1] = c /\ t[2] = d
  OBVIOUS
<1>2. v \in Seq(S) /\ Len(v) = 4 /\ v[1] = a /\ v[2] = b /\ v[3] = c /\ v[4] = d
  OBVIOUS
<1>0. u = s \o t
  OBVIOUS
<1> HIDE DEF s, t, u, v
<1>3. u \in Seq(S) /\ Len(u) = 4 /\ u[1] = s[1] /\ u[2] = s[2] /\ u[3] = t[1] /\ u[4] = t[2]
  <2>0. s \in Seq(S) /\ t \in Seq(S)
    BY <1>1
  <2>1. /\ s \o t \in Seq(S) /\ Len(s \o t) = Len(s) + Len(t)
        /\ \A i \in 1..Len(s) : (s \o t)[i] = s[i]
        /\ \A i \in 1..Len(t) : (s \o t)[Len(s) + i] = t[i]
    BY <2>0, ConcatFacts
  <2>2. /\ u \in Seq(S) /\ Len(u) = Len(s) + Len(t)
        /\ \A i \in 1..Len(s) : u[i] = s[i]
        /\ \A i \in 1..Len(t) : u[Len(s) + i] = t[i]
    BY <1>0, <2>1
  <2> QED BY <1>1, <2>2
<1>4. Agree(u, v, 1..Len(u))
  BY <1>1, <1>2, <1>3 DEF Agree
<1>5. u = v
  BY <1>2, <1>3, <1>4, SameSeq
<1> QED BY <1>5 DEF s, t, u, v

LEMMA FiveJoined ==
  ASSUME NEW S, NEW a \in S, NEW b \in S, NEW c \in S, NEW d \in S, NEW e \in S
  PROVE  <<a, b, c, d>> \o <<e>> = <<a, b, c, d, e>>
<1> DEFINE s == <<a, b, c, d>>
           t == <<e>>
           u == s \o t
           v == <<a, b, c, d, e>>
<1>1. s \in Seq(S) /\ t \in Seq(S) /\ Len(s) = 4 /\ Len(t) = 1 /\ s[1] = a /\ s[2] = b /\ s[3] = c /\ s[4] = d /\ t[1] = e
  OBVIOUS
<1>2. v \in Seq(S) /\ Len(v) = 5 /\ v[1] = a /\ v[2] = b /\ v[3] = c /\ v[4] = d /\ v[5] = e
  OBVIOUS
<1>0. u = s \o t
  OBVIOUS
<1> HIDE DEF s, t, u, v
<1>3. u \in Seq(S) /\ Len(u) = 5 /\ u[1] = s[1] /\ u[2] = s[2] /\ u[3] = s[3] /\ u[4] = s[4] /\ u[5] = t[1]
  <2>0. s \in Seq(S) /\ t \in Seq(S)
    BY <1>1
  <2>1. /\ s \o t \in Seq(S) /\ Len(s \o t) = Len(s) + Len(t)
        /\ \A i \in 1..Len(s) : (s \o t)[i] = s[i]
        /\ \A i \in 1..Len(t) : (s \o t)[Len(s) + i] = t[i]
    BY <2>0, ConcatFacts
  <2>2. /\ u \in Seq(S) /\ Len(u) = Len(s) + Len(t)
        /\ \A i \in 1..Len(s) : u[i] = s[i]
        /\ \A i \in 1..Len(t) : u[Len(s) + i] = t[i]
    BY <1>0, <2>1
  <2> QED BY <1>1, <2>2
<1>4. Agree(u, v, 1..Len(u))
  BY <1>1, <1>2, <1>3 DEF Agree
<1>5. u = v
  BY <1>2, <1>3, <1>4, SameSeq
<1> QED BY <1>5 DEF s, t, u, v

\* Pieces of one length, joined: a place of the whole is a place of its piece.
PiecesJoin(s, f, k, q) ==
  /\ Len(s) = k * q
  /\ \A r \in 1..k, i \in 1..q : s[Place(q, r, i)] = f[r][i]

LEMMA EqualPieces ==
  ASSUME NEW T, NEW f \in Seq(Seq(T)), NEW q \in Nat \ {0}, \A r \in DOMAIN f : Len(f[r]) = q
  PROVE  PiecesJoin(FlattenSeq(f), f, Len(f), q)
<1> DEFINE Flat(k) == FlattenSeq(SubSeq(f, 1, k))
           Good    == {k \in Nat : k <= Len(f) => PiecesJoin(Flat(k), f, k, q)}
<1>1. Len(f) \in Nat /\ DOMAIN f = 1..Len(f)
  BY SeqElements
<1>2. 0 \in Good
  <2>1. SubSeq(f, 1, 0) = <<>>
    OBVIOUS
  <2>2. Flat(0) = <<>>
    BY <2>1, FlattenNone
  <2>4. Len(<<>>) = 0 * q
    OBVIOUS
  <2>3. PiecesJoin(Flat(0), f, 0, q)
    BY <2>2, <2>4 DEF PiecesJoin
  <2> HIDE DEF Flat
  <2> QED BY <2>3
<1>3. ASSUME NEW k \in Nat, k \in Good
      PROVE  k + 1 \in Good
  <2> SUFFICES ASSUME k + 1 <= Len(f) PROVE PiecesJoin(Flat(k + 1), f, k + 1, q)
    OBVIOUS
  <2> DEFINE a == Flat(k)
             b == f[k + 1]
             c == a \o b
  <2>1. PiecesJoin(a, f, k, q) /\ k < Len(f) /\ k + 1 \in DOMAIN f
    BY <1>1, <1>3
  <2>2. SubSeq(f, 1, k) \in Seq(Seq(T)) /\ b \in Seq(T) /\ Flat(k + 1) = c
    BY <2>1, FlattenPrefix
  <2>3. a \in Seq(T)
    BY <2>2, FlattenType
  <2>4. Len(a) = k * q /\ Len(b) = q /\ k * q \in Nat /\ (k + 1) * q = k * q + q
    BY <2>1 DEF PiecesJoin
  <2> HIDE DEF a, b
  <2>5. /\ Len(c) = Len(a) + Len(b)
        /\ \A i \in 1..Len(a) : c[i] = a[i]
        /\ \A i \in 1..Len(b) : c[Len(a) + i] = b[i]
    BY <2>2, <2>3, ConcatFacts
  <2> HIDE DEF c, Flat
  <2>6. ASSUME NEW r \in 1..(k + 1), NEW i \in 1..q PROVE c[Place(q, r, i)] = f[r][i]
    <3>1. CASE r \in 1..k
      <4>1. k \in Nat \ {0}
        BY <3>1
      <4>2. Place(q, r, i) \in 1..(k * q)
        BY <3>1, <4>1, ChunkPlaces
      <4>3. a[Place(q, r, i)] = f[r][i]
        BY <2>1, <3>1 DEF PiecesJoin
      <4> QED BY <2>4, <2>5, <4>2, <4>3
    <3>2. CASE r = k + 1
      <4>1. q * ((k + 1) - 1) = k * q
        <5>1. (k + 1) - 1 = k
          OBVIOUS
        <5> QED BY <5>1
      <4>2. Place(q, r, i) = Len(a) + i
        BY <2>4, <3>2, <4>1 DEF Place
      <4> QED BY <2>4, <2>5, <3>2, <4>2 DEF b
    <3> QED BY <3>1, <3>2
  <2> QED BY <2>2, <2>4, <2>5, <2>6 DEF PiecesJoin
<1>4. Len(f) \in Good
  <2> HIDE DEF Good
  <2> QED BY <1>1, <1>2, <1>3, SetInduction
<1>5. PiecesJoin(Flat(Len(f)), f, Len(f), q)
  BY <1>1, <1>4
<1>6. SubSeq(f, 1, Len(f)) = f
  <2> DEFINE P == Seq(T)
  <2>1. f \in Seq(P)
    OBVIOUS
  <2> HIDE DEF P
  <2> QED BY <2>1, WholeSeq
<1> QED BY <1>5, <1>6

-----------------------------------------------------------------------------
(* Weights in another order leave the groups of neighbours alike.             *)

UpTo(w, n, t) == {j \in 1..n : w[j] <= t}

Alike(v, w, n) == \A t \in Int : Cardinality(UpTo(v, n, t)) = Cardinality(UpTo(w, n, t))

LEMMA SortedWeights ==
  ASSUME NEW n, NEW w, Weights(w, n)
  PROVE  LET x == ByWeight(w, 1..n)
         IN  /\ Lists(x, 1..n) /\ DOMAIN x = 1..n /\ \A i \in 1..n : x[i] \in 1..n /\ w[x[i]] \in Nat
             /\ \A i, j \in 1..n : i <= j => w[x[i]] <= w[x[j]]
<1> DEFINE x == ByWeight(w, 1..n)
<1>1. n \in Nat /\ 1..n \in SUBSET Int /\ (\A i \in 1..n : w[i] \in Nat /\ w[i] \in Int)
  BY DEF Weights, NatOn
<1>2. IsFiniteSet(1..n) /\ Cardinality(1..n) = n
  <2>1. IsFiniteSet(1..n) /\ Cardinality(1..n) = IF 1 > n THEN 0 ELSE n - 1 + 1
    BY <1>1, FS_Interval
  <2> QED BY <1>1, <2>1
<1>3. /\ Lists(x, 1..n) /\ DOMAIN x = 1..n
      /\ \A i, j \in DOMAIN x : i < j => WeighsLess(w, x[i], x[j])
  BY <1>1, <1>2, ByWeightLists
<1> HIDE DEF x
<1>4. \A i \in 1..n : x[i] \in 1..n
  BY <1>3, SeqElements DEF Lists
<1>5. \A i \in 1..n : w[x[i]] \in Nat
  BY <1>1, <1>4
<1>6. ASSUME NEW i \in 1..n, NEW j \in 1..n, i <= j PROVE w[x[i]] <= w[x[j]]
  <2>1. CASE i = j
    BY <1>5, <2>1
  <2>2. CASE i < j
    <3>1. WeighsLess(w, x[i], x[j])
      BY <1>3, <2>2
    <3> QED BY <1>5, <3>1 DEF WeighsLess
  <2> QED BY <1>6, <2>1, <2>2
<1> QED BY <1>3, <1>4, <1>5, <1>6 DEF x

LEMMA FirstOnes ==
  ASSUME NEW n \in Nat, NEW x, Lists(x, 1..n), DOMAIN x = 1..n, NEW i \in 0..n
  PROVE  /\ ElementsAt(x, 1..i) \in SUBSET (1..n) /\ IsFiniteSet(ElementsAt(x, 1..i))
         /\ Cardinality(ElementsAt(x, 1..i)) = i
<1> DEFINE A == ElementsAt(x, 1..i)
<1>1. A = {x[j] : j \in 1..i} /\ i \in Nat /\ \A j \in 1..i : j \in 1..n
  BY DEF ElementsAt
<1>2. \A j \in 1..n : x[j] \in 1..n
  BY SeqElements DEF Lists
<1> HIDE DEF A
<1>3. A \in SUBSET (1..n)
  BY <1>1, <1>2
<1>4. PlacesOf(A, x) = 1..i
  <2>1. \A j \in 1..i : j \in PlacesOf(A, x)
    BY <1>1 DEF PlacesOf
  <2>2. \A j \in PlacesOf(A, x) : j \in 1..i
    <3>1. ASSUME NEW j \in PlacesOf(A, x) PROVE j \in 1..i
      <4>1. j \in 1..n /\ x[j] \in A
        BY DEF PlacesOf
      <4>2. PICK m \in 1..i : x[j] = x[m]
        BY <1>1, <4>1
      <4>3. j = m
        BY <1>1, <4>1, <4>2 DEF Lists
      <4> QED BY <4>3
    <3> QED BY <3>1
  <2> QED BY <2>1, <2>2
<1>5. Cardinality(1..i) = i
  <2>1. i \in Int /\ 1 \in Int
    BY <1>1
  <2>2. Cardinality(1..i) = IF 1 > i THEN 0 ELSE i - 1 + 1
    BY <2>1, FS_Interval
  <2> QED BY <1>1, <2>2
<1>6. Cardinality(A) = i
  <2>1. Cardinality(PlacesOf(A, x)) = Cardinality(A)
    BY <1>3, PlacesOfSubset
  <2> QED BY <1>4, <1>5, <2>1
<1>7. IsFiniteSet(1..n)
  BY FS_Interval
<1> QED BY <1>3, <1>6, <1>7, FS_Subset DEF A

\* The i-th weight of one is no less than that of the other.
LEMMA NoLighter ==
  ASSUME NEW n, NEW v, NEW w, Weights(v, n), Weights(w, n), Alike(v, w, n), NEW i \in 1..n
  PROVE  ~(w[ByWeight(w, 1..n)[i]] < v[ByWeight(v, 1..n)[i]])
<1> DEFINE x == ByWeight(w, 1..n)
           y == ByWeight(v, 1..n)
           t == w[x[i]]
           U == UpTo(w, n, t)
           V == UpTo(v, n, t)
           A == ElementsAt(x, 1..i)
           B == ElementsAt(y, 1..(i - 1))
<1>1. /\ Lists(x, 1..n) /\ DOMAIN x = 1..n /\ \A j \in 1..n : x[j] \in 1..n /\ w[x[j]] \in Nat
      /\ \A j, m \in 1..n : j <= m => w[x[j]] <= w[x[m]]
  BY SortedWeights
<1>2. /\ Lists(y, 1..n) /\ DOMAIN y = 1..n /\ \A j \in 1..n : y[j] \in 1..n /\ v[y[j]] \in Nat
      /\ \A j, m \in 1..n : j <= m => v[y[j]] <= v[y[m]]
  BY SortedWeights
<1>3. n \in Nat /\ i \in Nat /\ i \in 0..n /\ i - 1 \in 0..n
  BY DEF Weights
<1>4. SUFFICES ASSUME t < v[y[i]] PROVE FALSE
  OBVIOUS
<1> HIDE DEF x, y
<1>5. A \in SUBSET (1..n) /\ Cardinality(A) = i
  BY <1>1, <1>3, FirstOnes
<1>6. B \in SUBSET (1..n) /\ Cardinality(B) = i - 1 /\ IsFiniteSet(B)
  BY <1>2, <1>3, FirstOnes
<1>7. t \in Nat /\ t \in Int /\ v[y[i]] \in Nat
  <2>1. t \in Nat
    BY <1>1
  <2>2. v[y[i]] \in Nat
    BY <1>2
  <2> HIDE DEF t
  <2> QED BY <2>1, <2>2
<1>8. A \in SUBSET U
  <2>1. \A j \in 1..i : x[j] \in 1..n /\ w[x[j]] <= t
    BY <1>1, <1>3
  <2> HIDE DEF t
  <2> QED BY <2>1 DEF UpTo, ElementsAt
<1>9. V \in SUBSET B
  <2>1. ASSUME NEW z \in V PROVE z \in B
    <3>1. z \in 1..n /\ v[z] <= t
      BY DEF UpTo
    <3>2. PICK j \in 1..n : y[j] = z
      BY <1>2, <3>1 DEF Lists
    <3>3. ~(i <= j)
      <4>1. SUFFICES ASSUME i <= j PROVE FALSE
        OBVIOUS
      <4>2. v[y[i]] <= v[y[j]] /\ v[y[j]] \in Nat
        BY <1>2, <4>1
      <4> HIDE DEF t
      <4> QED BY <1>4, <1>7, <3>1, <3>2, <4>2
    <3>4. j \in 1..(i - 1)
      BY <1>3, <3>3
    <3> QED BY <3>2, <3>4 DEF ElementsAt
  <2> QED BY <2>1
<1> HIDE DEF t, A, B, U, V
<1>10. IsFiniteSet(U) /\ Cardinality(A) <= Cardinality(U) /\ Cardinality(U) \in Nat
  <2>1. U \in SUBSET (1..n) /\ IsFiniteSet(1..n)
    BY <1>3, FS_Interval DEF U, UpTo
  <2>2. IsFiniteSet(U)
    BY <2>1, FS_Subset
  <2> QED BY <1>8, <2>2, FS_Subset, FS_CardinalityType
<1>11. Cardinality(V) <= Cardinality(B)
  BY <1>6, <1>9, FS_Subset
<1>12. Cardinality(U) = Cardinality(V)
  BY <1>7 DEF Alike, U, V
<1> QED BY <1>3, <1>5, <1>6, <1>10, <1>11, <1>12

LEMMA SameOrder ==
  ASSUME NEW n, NEW v, NEW w, Weights(v, n), Weights(w, n), Alike(v, w, n), NEW i \in 1..n
  PROVE  w[ByWeight(w, 1..n)[i]] = v[ByWeight(v, 1..n)[i]]
<1> DEFINE a == w[ByWeight(w, 1..n)[i]]
           b == v[ByWeight(v, 1..n)[i]]
<1>1. Alike(w, v, n)
  BY DEF Alike
<1>2. ~(a < b)
  BY NoLighter
<1>3. ~(b < a)
  BY <1>1, NoLighter
<1>4. a \in Nat /\ b \in Nat
  BY SortedWeights
<1> HIDE DEF a, b
<1>5. a = b
  BY <1>2, <1>3, <1>4
<1> QED BY <1>5 DEF a, b

\* A starting state of equal sizes: the positions of k neighbours in weight.
Neighbours(w, n, k, g) == NewState(w, ElementsAt(ByWeight(w, 1..n), Group(k, g)))

NeighbourStates(w, n, k, q) == {Neighbours(w, n, k, g) : g \in 0..(q - 1)}

\* The difference of the group's heaviest and lightest.
Width(w, n, k, g) == LET x == ByWeight(w, 1..n) IN w[x[k * g + k]] - w[x[k * g + 1]]

GroupWithin(n, k, g) == k * g + k \in 1..n /\ k * g + 1 \in 1..n

LEMMA StartsAre ==
  ASSUME NEW n, NEW w, Weights(w, n), NEW k \in Nat \ {0}, NEW q \in Nat \ {0}, n = k * q, Len(w) = n
  PROVE  InitialStates(w, k, TRUE) = NeighbourStates(w, n, k, q)
<1> DEFINE F == InitialStates(w, k, TRUE)
           x == ByWeight(w, 1..n)
<1>1. Len(w) \div k = q
  <2>1. (k * q) \div k = q
    BY ExactDiv
  <2> QED BY <2>1
<1>2. x = ByWeight(w, DOMAIN w)
  BY DEF Weights
<1>3. \A g : Neighbours(w, n, k, g) = NewState(w, ElementsAt(x, Group(k, g)))
  BY DEF Neighbours
<1> HIDE DEF x
<1>4. F = {NewState(w, {x[i] : i \in (k * g + 1)..(k * g + k)}) : g \in 0..(Len(w) \div k - 1)}
  BY <1>2 DEF InitialStates
<1> HIDE DEF F
<1>5. F = {NewState(w, ElementsAt(x, Group(k, g))) : g \in 0..(q - 1)}
  BY <1>1, <1>4 DEF ElementsAt, Group
<1>6. F = {Neighbours(w, n, k, g) : g \in 0..(q - 1)}
  BY <1>3, <1>5
<1> QED BY <1>6 DEF F, NeighbourStates

LEMMA NeighbourSpread ==
  ASSUME NEW n, NEW w, Weights(w, n), NEW k \in Nat \ {0}, NEW q \in Nat \ {0}, n = k * q, Len(w) = n,
         NEW g \in 0..(q - 1)
  PROVE  /\ Spread(Neighbours(w, n, k, g), k) = Width(w, n, k, g)
         /\ Spread(Neighbours(w, n, k, g), k) \in Nat /\ GroupWithin(n, k, g)
<1> DEFINE x == ByWeight(w, 1..n)
           s == Neighbours(w, n, k, g)
           h == HeaviestFirst(s, k)
           first == k * g + 1
           last == k * g + k
<1>1. GoodState(s, w, k) /\ Cardinality(s) = k
  <2>1. /\ Starts(InitialStates(w, k, TRUE), w, k, n) /\ LevelAll(InitialStates(w, k, TRUE), k)
        /\ s \in InitialStates(w, k, TRUE)
    <3>1. InitialStates(w, k, TRUE) = NeighbourStates(w, n, k, q)
      BY StartsAre
    <3>2. s \in NeighbourStates(w, n, k, q)
      BY DEF NeighbourStates
    <3> HIDE DEF s
    <3> QED BY <3>1, <3>2, StartsLevel
  <2> HIDE DEF s
  <2> QED BY <2>1 DEF Starts, Family, LevelAll, Level
<1>2. /\ DOMAIN x = 1..n /\ \A i \in 1..n : x[i] \in 1..n /\ w[x[i]] \in Nat
      /\ \A i, j \in 1..n : i <= j => w[x[i]] <= w[x[j]]
  BY SortedWeights
<1>3. s = {OnePart(w, j) : j \in ElementsAt(x, Group(k, g))}
  BY DEF Neighbours, NewState, OnePart
<1>4. /\ \A i \in 1..k : h[i] \in s
      /\ \A p \in s : \E i \in 1..k : h[i] = p
  <2> HIDE DEF s
  <2>1. HeaviestOrder(h, s, k)
    BY <1>1, HeaviestFirstIs
  <2> HIDE DEF h
  <2> QED BY <1>1, <2>1 DEF HeaviestOrder
<1>5. /\ \A i \in 1..k : h[i].sum \in Nat
      /\ \A i, j \in 1..k : i <= j => h[i].sum >= h[j].sum
      /\ Spread(s, k) = h[1].sum - h[k].sum /\ Spread(s, k) \in Nat
  <2> HIDE DEF s
  <2> QED BY <1>1, SumsFall
<1> HIDE DEF s, h
<1>6. Group(k, g) \in SUBSET (1..n) /\ Group(k, g) = first..last
  BY GroupsCover DEF Group
<1>7. /\ first \in Int /\ last \in Int /\ first <= last
      /\ first \in first..last /\ last \in first..last
  BY GroupsCover
<1> HIDE DEF x, first, last
<1>8. \A i \in 1..k : \E m \in first..last : h[i].sum = w[x[m]]
  <2>1. ASSUME NEW i \in 1..k PROVE \E m \in first..last : h[i].sum = w[x[m]]
    <3>1. PICK j \in ElementsAt(x, Group(k, g)) : h[i] = OnePart(w, j)
      BY <1>3, <1>4
    <3>2. PICK m \in first..last : j = x[m]
      BY <1>6, <3>1 DEF ElementsAt
    <3> QED BY <3>1, <3>2 DEF OnePart
  <2> QED BY <2>1
<1>9. \A m \in first..last : \E i \in 1..k : h[i].sum = w[x[m]]
  <2>1. ASSUME NEW m \in first..last PROVE \E i \in 1..k : h[i].sum = w[x[m]]
    <3>1. OnePart(w, x[m]) \in s
      BY <1>3, <1>6 DEF ElementsAt
    <3>2. PICK i \in 1..k : h[i] = OnePart(w, x[m])
      BY <1>4, <3>1
    <3> QED BY <3>2 DEF OnePart
  <2> QED BY <2>1
<1>10. 1 \in 1..k /\ k \in 1..k /\ first \in 1..n /\ last \in 1..n
  BY <1>6, <1>7
<1>11. h[1].sum = w[x[last]]
  <2>1. PICK m \in first..last : h[1].sum = w[x[m]]
    BY <1>8, <1>10
  <2>2. m \in 1..n /\ m <= last
    BY <1>6, <1>7, SMTT(30)
  <2>3. w[x[m]] <= w[x[last]] /\ w[x[m]] \in Nat /\ w[x[last]] \in Nat
    BY <1>2, <1>10, <2>2
  <2>4. PICK i \in 1..k : h[i].sum = w[x[last]]
    BY <1>7, <1>9
  <2>5. h[1].sum >= h[i].sum
    BY <1>5, <1>10
  <2> QED BY <2>1, <2>3, <2>4, <2>5
<1>12. h[k].sum = w[x[first]]
  <2>1. PICK m \in first..last : h[k].sum = w[x[m]]
    BY <1>8, <1>10
  <2>2. m \in 1..n /\ first <= m
    BY <1>6, <1>7
  <2>3. w[x[first]] <= w[x[m]] /\ w[x[m]] \in Nat /\ w[x[first]] \in Nat
    BY <1>2, <1>10, <2>2
  <2>4. PICK i \in 1..k : h[i].sum = w[x[first]]
    BY <1>7, <1>9
  <2>5. h[i].sum >= h[k].sum
    BY <1>5, <1>10
  <2> QED BY <2>1, <2>3, <2>4, <2>5
<1> QED BY <1>5, <1>10, <1>11, <1>12 DEF s, h, x, first, last, Width, GroupWithin

LEMMA WidestIs ==
  ASSUME NEW n, NEW w, Weights(w, n), NEW k \in Nat \ {0}, NEW q \in Nat \ {0}, n = k * q, Len(w) = n
  PROVE  WidestGroup(w, k) \in Nat /\ Within(InitialStates(w, k, TRUE), k, WidestGroup(w, k))
<1> DEFINE F == InitialStates(w, k, TRUE)
           gaps == {Spread(s, k) : s \in F}
           f == [i \in 1..q |-> Spread(Neighbours(w, n, k, i - 1), k)]
<1>1. F = {Neighbours(w, n, k, g) : g \in 0..(q - 1)}
  <2>1. F = NeighbourStates(w, n, k, q)
    BY StartsAre
  <2> QED BY <2>1 DEF NeighbourStates
<1>2. \A g \in 0..(q - 1) : Spread(Neighbours(w, n, k, g), k) \in Nat
  BY NeighbourSpread
<1> HIDE DEF F
<1>3. ASSUME NEW i \in 1..q PROVE f[i] \in Nat /\ f[i] \in gaps
  <2>1. i - 1 \in 0..(q - 1)
    OBVIOUS
  <2> QED BY <1>1, <1>2, <2>1
<1>4. ASSUME NEW z \in gaps PROVE \E i \in 1..q : f[i] = z
  <2>1. PICK g \in 0..(q - 1) : z = Spread(Neighbours(w, n, k, g), k)
    BY <1>1
  <2>2. g + 1 \in 1..q /\ (g + 1) - 1 = g
    OBVIOUS
  <2>3. f[g + 1] = z
    BY <2>1, <2>2
  <2> QED BY <2>2, <2>3
<1>5. WidestGroup(w, k) = CHOOSE z \in gaps : \A y \in gaps : z >= y
  BY DEF WidestGroup, F
<1> HIDE DEF f, gaps
<1>6. NatOn(f, 1..q)
  BY <1>3 DEF NatOn
<1>7. PICK p \in 1..q : \A i \in 1..q : f[p] >= f[i]
  BY <1>6, LargestOf
<1>8. f[p] \in gaps /\ \A y \in gaps : f[p] >= y
  BY <1>3, <1>4, <1>7
<1>9. WidestGroup(w, k) \in gaps /\ \A y \in gaps : WidestGroup(w, k) >= y
  BY <1>5, <1>8
<1>10. WidestGroup(w, k) \in Nat
  BY <1>3, <1>4, <1>9
<1>11. ASSUME NEW s \in F PROVE Spread(s, k) <= WidestGroup(w, k)
  <2>1. Spread(s, k) \in gaps
    BY DEF gaps
  <2>2. WidestGroup(w, k) >= Spread(s, k) /\ Spread(s, k) \in Nat
    BY <1>3, <1>4, <1>9, <2>1
  <2> QED BY <1>10, <2>2
<1> QED BY <1>10, <1>11 DEF Within, F

\* The widest group bounds the spreads of any arrangement of the weights.
LEMMA WidestOfAlike ==
  ASSUME NEW n, NEW v, NEW w, Weights(v, n), Weights(w, n), Alike(v, w, n), Len(v) = n, Len(w) = n,
         NEW k \in Nat \ {0}, NEW q \in Nat \ {0}, n = k * q
  PROVE  WidestGroup(v, k) \in Nat /\ Within(InitialStates(w, k, TRUE), k, WidestGroup(v, k))
<1> DEFINE d == WidestGroup(v, k)
           x == ByWeight(w, 1..n)
           y == ByWeight(v, 1..n)
<1>1. d \in Nat /\ Within(InitialStates(v, k, TRUE), k, d)
  BY WidestIs
<1> HIDE DEF d
<1>2. ASSUME NEW g \in 0..(q - 1) PROVE Spread(Neighbours(w, n, k, g), k) <= d
  <2> DEFINE s == Neighbours(w, n, k, g)
             t == Neighbours(v, n, k, g)
  <2>1. Spread(s, k) = Width(w, n, k, g) /\ GroupWithin(n, k, g)
    BY NeighbourSpread
  <2>2. Spread(t, k) = Width(v, n, k, g)
    BY NeighbourSpread
  <2>3. \A i \in 1..n : w[x[i]] = v[y[i]]
    BY SameOrder
  <2>4. t \in InitialStates(v, k, TRUE)
    <3>1. InitialStates(v, k, TRUE) = NeighbourStates(v, n, k, q)
      BY StartsAre
    <3> QED BY <3>1 DEF NeighbourStates
  <2>w. Width(w, n, k, g) = w[x[k * g + k]] - w[x[k * g + 1]] /\ Width(v, n, k, g) = v[y[k * g + k]] - v[y[k * g + 1]]
    BY DEF Width
  <2> HIDE DEF s, t, x, y
  <2>5. Spread(t, k) <= d
    BY <1>1, <2>4 DEF Within
  <2>6. Spread(s, k) = Spread(t, k)
    <3>1. k * g + k \in 1..n /\ k * g + 1 \in 1..n
      BY <2>1 DEF GroupWithin
    <3>2. Width(w, n, k, g) = Width(v, n, k, g)
      BY <2>3, <2>w, <3>1
    <3> QED BY <2>1, <2>2, <3>2
  <2>7. Spread(s, k) <= d
    BY <2>5, <2>6
  <2> QED BY <2>7 DEF s
<1>3. InitialStates(w, k, TRUE) = {Neighbours(w, n, k, g) : g \in 0..(q - 1)}
  <2>1. InitialStates(w, k, TRUE) = NeighbourStates(w, n, k, q)
    BY StartsAre
  <2> QED BY <2>1 DEF NeighbourStates
<1> QED BY <1>1, <1>2, <1>3 DEF Within, d

\* Weights read off two listings of the same elements.
LEMMA ListingsAlike ==
  ASSUME NEW O, NEW W, NEW n, NEW o, Lists(o, O), Len(o) = n, NEW p, Lists(p, O), Len(p) = n,
         NEW v, Agree(v, [i \in 1..n |-> W[o[i]]], 1..n), NEW w, Agree(w, [i \in 1..n |-> W[p[i]]], 1..n)
  PROVE  Alike(v, w, n)
<1>1. ASSUME NEW t \in Int PROVE Cardinality(UpTo(v, n, t)) = Cardinality(UpTo(w, n, t))
  <2> DEFINE A == {z \in O : W[z] <= t}
  <2>1. DOMAIN o = 1..n /\ DOMAIN p = 1..n
    BY ListsCard
  <2>2. (\A i \in 1..n : o[i] \in O) /\ \A i \in 1..n : p[i] \in O
    BY <2>1, SeqElements DEF Lists
  <2>3. \A i \in 1..n : v[i] = W[o[i]] /\ w[i] = W[p[i]]
    BY DEF Agree
  <2>4. UpTo(v, n, t) = PlacesOf(A, o)
    BY <2>1, <2>2, <2>3 DEF UpTo, PlacesOf
  <2>5. UpTo(w, n, t) = PlacesOf(A, p)
    BY <2>1, <2>2, <2>3 DEF UpTo, PlacesOf
  <2>6. A \in SUBSET O
    OBVIOUS
  <2> HIDE DEF A
  <2>7. Cardinality(PlacesOf(A, o)) = Cardinality(A)
    BY <2>6, PlacesOfSubset
  <2>8. Cardinality(PlacesOf(A, p)) = Cardinality(A)
    BY <2>6, PlacesOfSubset
  <2> QED BY <2>4, <2>5, <2>7, <2>8
<1> QED BY <1>1 DEF Alike

=============================================================================

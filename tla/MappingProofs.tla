----------------------------- MODULE MappingProofs -----------------------------
(***************************************************************************)
(* The docker adapter makes one thing of one state of a container: the     *)
(* order in which ports, labels and networks come back, and the order in   *)
(* which Go ranges over a map, leave no trace in a service or a detail.    *)
(* And it loses nothing of what it sorts, takes out or puts end to end.    *)
(***************************************************************************)
EXTENDS Mapping, FiniteSetTheorems, SequenceTheorems, TLAPS

\* A set of numbers that is not empty has a least one.
LEMMA LeastNumber ==
    ASSUME NEW T \in SUBSET Nat, T # {}
    PROVE  \E n \in T : \A k \in T : n <= k
<1> DEFINE R == OpToRel(<, Nat)
<1>1. IsWellFoundedOn(R, Nat)
    BY NatLessThanWellFounded
<1>2. \A x, y \in Nat : <<x, y>> \in R <=> x < y
    BY DEF OpToRel
<1> HIDE DEF R
<1>3. PICK n \in T : \A k \in T : ~(<<k, n>> \in R)
    BY <1>1, WFMin
<1>4. ASSUME NEW k \in T PROVE n <= k
    <2>1. k \in Nat /\ n \in Nat /\ ~(<<k, n>> \in R)
        BY <1>3
    <2>2. ~(k < n)
        BY <2>1, <1>2
    <2> QED BY <2>1, <2>2
<1> QED BY <1>4

\* A function on the first n numbers is a sequence of length n.
LEMMA FunctionIsSequence ==
    ASSUME NEW S, NEW n \in Nat, NEW f \in [1 .. n -> S]
    PROVE  f \in Seq(S) /\ Len(f) = n
<1>1. f \in Seq(S)
    BY SeqDef
<1>2. DOMAIN f = 1 .. n /\ DOMAIN f = 1 .. Len(f) /\ Len(f) \in Nat
    BY <1>1, LenProperties
<1>3. Len(f) = n
    BY <1>2
<1> QED BY <1>1, <1>3

-----------------------------------------------------------------------------
\* The order of strings (Less) is a strict total order.

\* No string sorts before itself.
LEMMA LessIrreflexive ==
    ASSUME NEW a \in Seq(Nat)
    PROVE  ~Less(a, a)
BY DEF Less

\* What sorts before a string that sorts before a third sorts before the third.
LEMMA LessTransitive ==
    ASSUME NEW a \in Seq(Nat), NEW b \in Seq(Nat), NEW c \in Seq(Nat),
           Less(a, b), Less(b, c)
    PROVE  Less(a, c)
<1>1. PICK i \in 1 .. Len(b) : /\ \A h \in 1 .. i - 1 : h <= Len(a) /\ a[h] = b[h]
                               /\ i > Len(a) \/ a[i] < b[i]
    BY DEF Less
<1>2. PICK k \in 1 .. Len(c) : /\ \A h \in 1 .. k - 1 : h <= Len(b) /\ b[h] = c[h]
                               /\ k > Len(b) \/ b[k] < c[k]
    BY DEF Less
<1>3. CASE i < k
    <2>1. i \in 1 .. Len(c) /\ b[i] = c[i]
        BY <1>1, <1>2, <1>3
    <2>2. \A h \in 1 .. i - 1 : h <= Len(a) /\ a[h] = c[h]
        BY <1>1, <1>2, <1>3
    <2>3. i > Len(a) \/ a[i] < c[i]
        BY <1>1, <2>1
    <2> QED BY <2>1, <2>2, <2>3 DEF Less
<1>4. CASE k <= i
    <2>1. \A h \in 1 .. k - 1 : h <= Len(a) /\ a[h] = c[h]
        BY <1>1, <1>2, <1>4
    <2>2. b[k] < c[k] /\ k \in 1 .. Len(b)
        BY <1>1, <1>2, <1>4
    <2>3. k > Len(a) \/ a[k] < c[k]
        <3>1. CASE k = i
            BY <3>1, <1>1, <2>2
        <3>2. CASE k < i
            BY <3>2, <1>1, <2>2
        <3> QED BY <3>1, <3>2, <1>4
    <2> QED BY <2>1, <2>3 DEF Less
<1> QED BY <1>3, <1>4

\* Of two strings that are not the same, one sorts before the other.
LEMMA LessTotal ==
    ASSUME NEW a \in Seq(Nat), NEW b \in Seq(Nat), a # b
    PROVE  Less(a, b) \/ Less(b, a)
<1> DEFINE Differ == {i \in Nat \ {0} : i > Len(a) \/ i > Len(b) \/ a[i] # b[i]}
<1>1. Len(a) + 1 \in Differ /\ Differ \in SUBSET Nat
    OBVIOUS
<1>2. PICK i \in Differ : \A k \in Differ : i <= k
    BY <1>1, LeastNumber
<1>3. \A h \in 1 .. i - 1 : h <= Len(a) /\ h <= Len(b) /\ a[h] = b[h]
    <2> TAKE h \in 1 .. i - 1
    <2>1. h \notin Differ
        BY <1>2
    <2> QED BY <2>1
<1> HIDE DEF Differ
<1>4. i \in Nat \ {0} /\ (i > Len(a) \/ i > Len(b) \/ a[i] # b[i])
    BY DEF Differ
<1>5. CASE i > Len(a) /\ i > Len(b)
    <2>1. Len(a) = Len(b)
        BY <1>3, <1>4, <1>5
    <2>2. \A h \in 1 .. Len(a) : a[h] = b[h]
        BY <1>3, <1>4, <1>5
    <2> QED BY <2>1, <2>2, SeqEqual
<1>6. CASE i > Len(a) /\ i <= Len(b)
    BY <1>3, <1>4, <1>6 DEF Less
<1>7. CASE i <= Len(a) /\ i > Len(b)
    BY <1>3, <1>4, <1>7 DEF Less
<1>8. CASE i <= Len(a) /\ i <= Len(b)
    <2>1. a[i] \in Nat /\ b[i] \in Nat /\ (a[i] < b[i] \/ b[i] < a[i])
        BY <1>4, <1>8
    <2> QED BY <2>1, <1>3, <1>4, <1>8 DEF Less
<1> QED BY <1>4, <1>5, <1>6, <1>7, <1>8

-----------------------------------------------------------------------------
\* Sorted arranges the positions that have a key: each comes once, and the order
\* of the keys decides, so that of the entries shows only where keys are equal.

\* What Sorted can be asked to sort by.
IsKey(key) ==
    /\ IsFiniteSet(DOMAIN key) /\ DOMAIN key \in SUBSET Nat
    /\ \A i \in DOMAIN key : key[i] \in Seq(Nat)

\* The entry at position i comes before the one at j.
Earlier(key, i, j) ==
    \/ Less(key[i], key[j])
    \/ key[i] = key[j] /\ i < j

\* The positions whose entries come before the one at i.
Ahead(key, i) == {j \in DOMAIN key : Earlier(key, j, i)}

\* The position whose entry comes k-th.
PositionAt(key, k) == CHOOSE i \in DOMAIN key : Cardinality(Ahead(key, i)) = k - 1

LEMMA SortedDef ==
    ASSUME NEW s, NEW key
    PROVE  Sorted(s, key) = [k \in 1 .. Cardinality(DOMAIN key) |-> s[PositionAt(key, k)]]
BY Zenon DEF Sorted, PositionAt, Ahead, Earlier

\* Positions are in a strict total order.
LEMMA EarlierIrreflexive ==
    ASSUME NEW key, IsKey(key), NEW i \in DOMAIN key
    PROVE  ~Earlier(key, i, i)
<1>1. key[i] \in Seq(Nat) /\ i \in Nat
    BY DEF IsKey
<1> QED BY <1>1, LessIrreflexive DEF Earlier

LEMMA EarlierTransitive ==
    ASSUME NEW key, IsKey(key), NEW i \in DOMAIN key, NEW j \in DOMAIN key, NEW k \in DOMAIN key,
           Earlier(key, i, j), Earlier(key, j, k)
    PROVE  Earlier(key, i, k)
<1>1. /\ key[i] \in Seq(Nat) /\ key[j] \in Seq(Nat) /\ key[k] \in Seq(Nat)
      /\ i \in Nat /\ j \in Nat /\ k \in Nat
    BY DEF IsKey
<1>2. Less(key[i], key[j]) /\ Less(key[j], key[k]) => Less(key[i], key[k])
    BY <1>1, LessTransitive
<1>3. i < j /\ j < k => i < k
    BY <1>1
<1> QED BY <1>2, <1>3 DEF Earlier

LEMMA EarlierTotal ==
    ASSUME NEW key, IsKey(key), NEW i \in DOMAIN key, NEW j \in DOMAIN key, i # j
    PROVE  Earlier(key, i, j) \/ Earlier(key, j, i)
<1>1. key[i] \in Seq(Nat) /\ key[j] \in Seq(Nat) /\ i \in Nat /\ j \in Nat
    BY DEF IsKey
<1>2. key[i] # key[j] => Less(key[i], key[j]) \/ Less(key[j], key[i])
    BY <1>1, LessTotal
<1>3. i < j \/ j < i
    BY <1>1
<1> QED BY <1>2, <1>3 DEF Earlier

LEMMA AheadFinite ==
    ASSUME NEW key, IsKey(key), NEW i
    PROVE  /\ IsFiniteSet(Ahead(key, i)) /\ Cardinality(Ahead(key, i)) \in Nat
           /\ IsFiniteSet(DOMAIN key) /\ Cardinality(DOMAIN key) \in Nat
<1>1. IsFiniteSet(DOMAIN key)
    BY DEF IsKey
<1>2. Ahead(key, i) \in SUBSET DOMAIN key
    BY DEF Ahead
<1>3. IsFiniteSet(Ahead(key, i))
    BY <1>1, <1>2, FS_Subset
<1> QED BY <1>1, <1>3, FS_CardinalityType

\* Fewer entries come before an earlier one.
LEMMA FewerAhead ==
    ASSUME NEW key, IsKey(key), NEW i \in DOMAIN key, NEW j \in DOMAIN key,
           Earlier(key, i, j)
    PROVE  Cardinality(Ahead(key, i)) < Cardinality(Ahead(key, j))
<1>1. i \notin Ahead(key, i) /\ i \in Ahead(key, j)
    BY EarlierIrreflexive DEF Ahead
<1>2. Ahead(key, i) \in SUBSET Ahead(key, j)
    BY EarlierTransitive DEF Ahead
<1>3. Cardinality(Ahead(key, i)) <= Cardinality(Ahead(key, j))
    BY <1>2, AheadFinite, FS_Subset
<1>4. Cardinality(Ahead(key, i)) # Cardinality(Ahead(key, j))
    BY <1>1, <1>2, AheadFinite, FS_Subset
<1> QED BY <1>3, <1>4, AheadFinite

LEMMA OneAtEachPlace ==
    ASSUME NEW key, IsKey(key), NEW i \in DOMAIN key, NEW j \in DOMAIN key,
           Cardinality(Ahead(key, i)) = Cardinality(Ahead(key, j))
    PROVE  i = j
<1>1. /\ Earlier(key, i, j) => Cardinality(Ahead(key, i)) < Cardinality(Ahead(key, j))
      /\ Earlier(key, j, i) => Cardinality(Ahead(key, j)) < Cardinality(Ahead(key, i))
    BY FewerAhead
<1>2. Cardinality(Ahead(key, i)) \in Nat /\ Cardinality(Ahead(key, j)) \in Nat
    BY AheadFinite
<1> QED BY <1>1, <1>2, EarlierTotal

LEMMA AheadInRange ==
    ASSUME NEW key, IsKey(key), NEW i \in DOMAIN key
    PROVE  Cardinality(Ahead(key, i)) + 1 \in 1 .. Cardinality(DOMAIN key)
<1>1. Ahead(key, i) \in SUBSET DOMAIN key /\ Ahead(key, i) # DOMAIN key
    BY EarlierIrreflexive DEF Ahead
<1>2. /\ Cardinality(Ahead(key, i)) <= Cardinality(DOMAIN key)
      /\ Cardinality(Ahead(key, i)) # Cardinality(DOMAIN key)
    BY <1>1, AheadFinite, FS_Subset
<1> QED BY <1>2, AheadFinite

\* Each place has a position: they are as many as the places.
LEMMA SomeAtEachPlace ==
    ASSUME NEW key, IsKey(key), NEW k \in 1 .. Cardinality(DOMAIN key)
    PROVE  \E i \in DOMAIN key : Cardinality(Ahead(key, i)) = k - 1
<1> DEFINE place == [i \in DOMAIN key |-> Cardinality(Ahead(key, i)) + 1]
           S == DOMAIN key
           T == 1 .. Cardinality(DOMAIN key)
<1>1. IsFiniteSet(S) /\ Cardinality(S) \in Nat
    BY AheadFinite
<1>2. IsFiniteSet(T) /\ Cardinality(T) = Cardinality(S)
    BY <1>1, FS_Interval
<1>3. place \in [S -> T]
    BY AheadInRange
<1>4. \A i, j \in S : place[i] = place[j] => i = j
    <2> TAKE i, j \in S
    <2>1. Cardinality(Ahead(key, i)) \in Nat /\ Cardinality(Ahead(key, j)) \in Nat
        BY AheadFinite
    <2> QED BY <2>1, OneAtEachPlace
<1>5. place \in Injection(S, T)
    BY <1>3, <1>4 DEF Injection, IsInjective
<1> HIDE DEF T, S
<1>6. place \in Surjection(S, T)
    <2> HIDE DEF place
    <2> QED BY <1>2, <1>5, FS_Injection
<1>7. PICK i \in S : place[i] = k
    BY <1>6 DEF Surjection, T
<1> QED BY <1>7, AheadFinite DEF S

\* The position of each place, and the place of each position.
LEMMA PositionAtPlace ==
    ASSUME NEW key, IsKey(key), NEW k \in 1 .. Cardinality(DOMAIN key)
    PROVE  /\ PositionAt(key, k) \in DOMAIN key
           /\ Cardinality(Ahead(key, PositionAt(key, k))) = k - 1
<1> DEFINE Sits(i) == Cardinality(Ahead(key, i)) = k - 1
<1>1. PositionAt(key, k) = CHOOSE i \in DOMAIN key : Sits(i)
    BY DEF PositionAt
<1>2. \E i \in DOMAIN key : Sits(i)
    BY SomeAtEachPlace
<1> HIDE DEF Sits
<1>3. PositionAt(key, k) \in DOMAIN key /\ Sits(PositionAt(key, k))
    BY <1>1, <1>2
<1> QED BY <1>3 DEF Sits

LEMMA PlaceOfPosition ==
    ASSUME NEW key, IsKey(key), NEW i \in DOMAIN key
    PROVE  \E k \in 1 .. Cardinality(DOMAIN key) : PositionAt(key, k) = i
<1> DEFINE k == Cardinality(Ahead(key, i)) + 1
<1>1. k \in 1 .. Cardinality(DOMAIN key) /\ k - 1 = Cardinality(Ahead(key, i))
    BY AheadInRange, AheadFinite
<1> HIDE DEF k
<1>2. PositionAt(key, k) = i
    BY <1>1, PositionAtPlace, OneAtEachPlace
<1> QED BY <1>1, <1>2

\* Two places have two positions.
LEMMA PositionsDiffer ==
    ASSUME NEW key, IsKey(key),
           NEW k \in 1 .. Cardinality(DOMAIN key), NEW l \in 1 .. Cardinality(DOMAIN key),
           PositionAt(key, k) = PositionAt(key, l)
    PROVE  k = l
<1>1. k - 1 = l - 1 /\ k \in Nat /\ l \in Nat
    BY PositionAtPlace, AheadFinite
<1> QED BY <1>1

\* No two positions have the same key: nothing is left for the order of s to decide.
NoTies(key) == \A i, j \in DOMAIN key : key[i] = key[j] => i = j

\* What is sorted by keys without ties does not depend on the positions it had.
LEMMA SortedSame ==
    ASSUME NEW s, NEW key, IsKey(key), NoTies(key),
           NEW t, NEW other, IsKey(other), NoTies(other),
           {<<key[i], s[i]>> : i \in DOMAIN key} = {<<other[i], t[i]>> : i \in DOMAIN other}
    PROVE  Sorted(s, key) = Sorted(t, other)
<1> DEFINE twin == [i \in DOMAIN key |-> CHOOSE j \in DOMAIN other :
                                            other[j] = key[i] /\ t[j] = s[i]]
<1>1. \A i \in DOMAIN key : /\ twin[i] \in DOMAIN other
                            /\ other[twin[i]] = key[i] /\ t[twin[i]] = s[i]
    <2> TAKE i \in DOMAIN key
    <2>1. <<key[i], s[i]>> \in {<<other[j], t[j]>> : j \in DOMAIN other}
        OBVIOUS
    <2>2. \E j \in DOMAIN other : other[j] = key[i] /\ t[j] = s[i]
        BY <2>1
    <2> QED BY <2>2
<1>2. \A j \in DOMAIN other : \E i \in DOMAIN key : twin[i] = j
    <2> TAKE j \in DOMAIN other
    <2>1. <<other[j], t[j]>> \in {<<key[i], s[i]>> : i \in DOMAIN key}
        OBVIOUS
    <2>2. PICK i \in DOMAIN key : other[j] = key[i]
        BY <2>1
    <2> QED BY <1>1, <2>2 DEF NoTies
<1>3. DOMAIN twin = DOMAIN key /\ twin = [i \in DOMAIN twin |-> twin[i]]
    OBVIOUS
<1> HIDE DEF twin
<1>4. \A i, j \in DOMAIN key : twin[i] = twin[j] => i = j
    BY <1>1 DEF NoTies
<1>5. twin \in Bijection(DOMAIN key, DOMAIN other)
    <2>1. twin \in [DOMAIN key -> DOMAIN other]
        BY <1>1, <1>3
    <2> QED BY <2>1, <1>2, <1>4 DEF Bijection, Injection, Surjection, IsInjective
<1>6. Cardinality(DOMAIN key) = Cardinality(DOMAIN other)
    BY <1>5, AheadFinite, FS_Bijection DEF ExistsBijection
<1>7. ASSUME NEW i \in DOMAIN key
      PROVE  Cardinality(Ahead(other, twin[i])) = Cardinality(Ahead(key, i))
    <2>1. \A j \in DOMAIN key : j \in Ahead(key, i) <=> twin[j] \in Ahead(other, twin[i])
        <3> TAKE j \in DOMAIN key
        <3>1. key[i] = key[j] => i = j
            BY DEF NoTies
        <3>2. i \in Nat /\ j \in Nat /\ ~(i < i)
            BY DEF IsKey
        <3>3. Earlier(key, j, i) <=> Less(key[j], key[i])
            BY <3>1, <3>2 DEF Earlier
        <3>4. other[twin[i]] = other[twin[j]] => i = j
            BY <1>1, <3>1
        <3>5. twin[i] \in Nat /\ ~(twin[i] < twin[i])
            BY <1>1 DEF IsKey
        <3>6. Earlier(other, twin[j], twin[i]) <=> Less(other[twin[j]], other[twin[i]])
            BY <3>4, <3>5 DEF Earlier
        <3> QED BY <3>3, <3>6, <1>1 DEF Ahead
    <2> DEFINE part == [j \in Ahead(key, i) |-> twin[j]]
    <2>2. \A j \in Ahead(key, i) : j \in DOMAIN key /\ twin[j] \in Ahead(other, twin[i])
        BY <2>1 DEF Ahead
    <2>3. \A l \in Ahead(other, twin[i]) : \E j \in Ahead(key, i) : twin[j] = l
        <3> TAKE l \in Ahead(other, twin[i])
        <3>1. l \in DOMAIN other
            BY DEF Ahead
        <3>2. PICK j \in DOMAIN key : twin[j] = l
            BY <3>1, <1>2
        <3> QED BY <3>2, <2>1
    <2>4. part \in Bijection(Ahead(key, i), Ahead(other, twin[i]))
        BY <2>2, <2>3, <1>4 DEF Bijection, Injection, Surjection, IsInjective
    <2> QED BY <2>4, AheadFinite, FS_Bijection DEF ExistsBijection
<1>8. \A k \in 1 .. Cardinality(DOMAIN key) : s[PositionAt(key, k)] = t[PositionAt(other, k)]
    <2> TAKE k \in 1 .. Cardinality(DOMAIN key)
    <2>1. /\ PositionAt(key, k) \in DOMAIN key
          /\ Cardinality(Ahead(key, PositionAt(key, k))) = k - 1
        BY PositionAtPlace
    <2>2. /\ PositionAt(other, k) \in DOMAIN other
          /\ Cardinality(Ahead(other, PositionAt(other, k))) = k - 1
        BY <1>6, PositionAtPlace
    <2>3. PositionAt(other, k) = twin[PositionAt(key, k)]
        BY <2>1, <2>2, <1>1, <1>7, OneAtEachPlace
    <2> QED BY <2>1, <2>3, <1>1
<1> QED BY <1>6, <1>8, SortedDef

-----------------------------------------------------------------------------
\* What is ranged over in some order and then sorted.

\* The sequence `order` has the elements of S, each once.
Enumerates(order, S) ==
    /\ order \in Seq(S)
    /\ \A i, j \in DOMAIN order : order[i] = order[j] => i = j
    /\ \A x \in S : \E i \in DOMAIN order : order[i] = x

LEMMA SequencePositions ==
    ASSUME NEW S, NEW s \in Seq(S)
    PROVE  /\ Len(s) \in Nat /\ DOMAIN s = 1 .. Len(s) /\ IsFiniteSet(DOMAIN s)
           /\ \A i \in DOMAIN s : i \in Nat /\ s[i] \in S
<1>1. Len(s) \in Nat /\ DOMAIN s = 1 .. Len(s) /\ \A i \in DOMAIN s : s[i] \in S
    BY LenProperties, ElementOfSeq
<1>2. IsFiniteSet(1 .. Len(s))
    BY <1>1, FS_Interval
<1> QED BY <1>1, <1>2

\* Each element of T has a key of its own.
Separates(f, T) == f \in [T -> Seq(Nat)] /\ \A x, y \in T : f[x] = f[y] => x = y

\* The elements of T have the keys that f gives them and the entries that g does.
Carries(s, key, order, T, f, g) ==
    /\ DOMAIN key = {i \in DOMAIN order : order[i] \in T}
    /\ \A i \in DOMAIN key : key[i] = f[order[i]] /\ s[i] = g[order[i]]

\* And nothing else has one.
Arranges(s, key, T, f, g) ==
    /\ IsKey(key) /\ NoTies(key)
    /\ {<<key[i], s[i]>> : i \in DOMAIN key} = {<<f[x], g[x]>> : x \in T}

LEMMA CarriesArranges ==
    ASSUME NEW S, NEW order, Enumerates(order, S), NEW T \in SUBSET S,
           NEW f, Separates(f, T), NEW g, NEW s, NEW key, Carries(s, key, order, T, f, g)
    PROVE  Arranges(s, key, T, f, g)
<1>1. IsFiniteSet(DOMAIN order) /\ \A i \in DOMAIN order : i \in Nat
    BY SequencePositions DEF Enumerates
<1>2. /\ DOMAIN key = {i \in DOMAIN order : order[i] \in T}
      /\ \A i \in DOMAIN key : key[i] = f[order[i]] /\ s[i] = g[order[i]]
      /\ DOMAIN key \in SUBSET DOMAIN order /\ \A i \in DOMAIN key : order[i] \in T
      /\ f \in [T -> Seq(Nat)] /\ \A x, y \in T : f[x] = f[y] => x = y
    BY DEF Carries, Separates
<1>3. IsKey(key)
    <2>1. IsFiniteSet(DOMAIN key)
        BY <1>1, <1>2, FS_Subset
    <2>2. DOMAIN key \in SUBSET Nat
        BY <1>1, <1>2
    <2>3. \A i \in DOMAIN key : key[i] \in Seq(Nat)
        BY <1>2
    <2> QED BY <2>1, <2>2, <2>3 DEF IsKey
<1>4. NoTies(key)
    <2> SUFFICES ASSUME NEW i \in DOMAIN key, NEW j \in DOMAIN key, key[i] = key[j]
                 PROVE  i = j
        BY DEF NoTies
    <2>1. order[i] = order[j]
        BY <1>2
    <2> QED BY <1>2, <2>1 DEF Enumerates
<1>5. ASSUME NEW i \in DOMAIN key
      PROVE  <<key[i], s[i]>> \in {<<f[x], g[x]>> : x \in T}
    BY <1>2
<1>6. ASSUME NEW x \in T
      PROVE  <<f[x], g[x]>> \in {<<key[i], s[i]>> : i \in DOMAIN key}
    <2>1. PICK i \in DOMAIN order : order[i] = x
        BY DEF Enumerates
    <2>2. i \in DOMAIN key
        BY <1>2, <2>1
    <2>3. key[i] = f[x] /\ s[i] = g[x]
        BY <1>2, <2>1, <2>2
    <2> QED BY <2>2, <2>3
<1> QED BY <1>3, <1>4, <1>5, <1>6 DEF Arranges

\* So they come out the same from each order.
LEMMA SortedByElement ==
    ASSUME NEW S, NEW T \in SUBSET S, NEW f, Separates(f, T), NEW g,
           NEW order, Enumerates(order, S), NEW other, Enumerates(other, S),
           NEW s, NEW key, Carries(s, key, order, T, f, g),
           NEW t, NEW okey, Carries(t, okey, other, T, f, g)
    PROVE  Sorted(s, key) = Sorted(t, okey)
<1>1. Arranges(s, key, T, f, g) /\ Arranges(t, okey, T, f, g)
    BY CarriesArranges
<1> QED BY <1>1, SortedSame DEF Arranges

\* A number is a key of its own.
LEMMA NumberKey ==
    ASSUME NEW n \in Nat
    PROVE  <<n>> \in Seq(Nat)
OBVIOUS

\* What the labels of a container need: KeyOrder has each of their keys.
LEMMA KeyPositions ==
    ASSUME NEW k \in ToSet(KeyOrder), KeyOrder \in Seq(ToSet(KeyOrder))
    PROVE  KeyPosition(k) \in DOMAIN KeyOrder /\ KeyPosition(k) \in Nat
           /\ KeyOrder[KeyPosition(k)] = k
<1>1. \E i \in DOMAIN KeyOrder : KeyOrder[i] = k
    BY DEF ToSet
<1>2. KeyPosition(k) \in DOMAIN KeyOrder /\ KeyOrder[KeyPosition(k)] = k
    BY <1>1, Zenon DEF KeyPosition
<1> QED BY <1>2, SequencePositions

(* The labels of a container are listed in one order, whatever order Go     *)
(* ranged over the map in (toLabels).                                       *)
LEMMA LabelsSame ==
    ASSUME KeyOrder \in Seq(ToSet(KeyOrder)), NEW S \in SUBSET ToSet(KeyOrder),
           NEW order, Enumerates(order, S), NEW other, Enumerates(other, S)
    PROVE  toLabels(order) = toLabels(other)
<1> DEFINE f == [k \in S |-> <<KeyPosition(k)>>]
           g == [k \in S |-> k]
           Key(o) == [i \in DOMAIN o |-> <<KeyPosition(o[i])>>]
<1>1. f \in [S -> Seq(Nat)]
    BY KeyPositions, NumberKey
<1>2. \A k, l \in S : f[k] = f[l] => k = l
    <2> TAKE k, l \in S
    <2>1. f[k] = f[l] => KeyPosition(k) = KeyPosition(l)
        OBVIOUS
    <2> QED BY <2>1, KeyPositions
<1>3. ASSUME NEW o, Enumerates(o, S)
      PROVE  Carries(o, Key(o), o, S, f, g)
    <2>1. \A i \in DOMAIN o : o[i] \in S
        BY <1>3, SequencePositions DEF Enumerates
    <2>2. DOMAIN Key(o) = {i \in DOMAIN o : o[i] \in S}
        BY <2>1
    <2>3. \A i \in DOMAIN Key(o) : Key(o)[i] = f[o[i]] /\ o[i] = g[o[i]]
        BY <2>1
    <2> HIDE DEF f, g, Key
    <2> QED BY <2>2, <2>3 DEF Carries
<1>4. \A o : toLabels(o) = Sorted(o, Key(o))
    BY DEF toLabels
<1> HIDE DEF f, g, Key
<1>5. Separates(f, S)
    BY <1>1, <1>2 DEF Separates
<1>6. Sorted(order, Key(order)) = Sorted(other, Key(other))
    BY <1>1, <1>3, <1>5, SortedByElement
<1> QED BY <1>4, <1>6

(* The attachments of a container are listed in one order, whatever order   *)
(* Go ranged over the map in (toDetail).                                    *)
LEMMA AttachmentsSame ==
    ASSUME NEW networks, DOMAIN networks \in SUBSET Nat,
           NEW order, Enumerates(order, DOMAIN networks),
           NEW other, Enumerates(other, DOMAIN networks)
    PROVE  toAttachments(networks, order) = toAttachments(networks, other)
<1> DEFINE S == DOMAIN networks
           T == {n \in S : networks[n] # None}
           f == [n \in T |-> <<n>>]
           g == [n \in T |-> [Name |-> n, NetworkID |-> networks[n].id]]
           There(o) == {i \in DOMAIN o : networks[o[i]] # None}
           Entry(o) == [i \in There(o) |-> [Name |-> o[i], NetworkID |-> networks[o[i]].id]]
           Key(o) == [i \in There(o) |-> <<o[i]>>]
<1>1. f \in [T -> Seq(Nat)] /\ T \in SUBSET S
    BY NumberKey
<1>2. \A k, l \in T : f[k] = f[l] => k = l
    OBVIOUS
<1>3. ASSUME NEW o, Enumerates(o, S)
      PROVE  Carries(Entry(o), Key(o), o, T, f, g)
    <2>1. \A i \in DOMAIN o : o[i] \in S
        BY <1>3, SequencePositions DEF Enumerates
    <2>2. DOMAIN Key(o) = {i \in DOMAIN o : o[i] \in T}
        BY <2>1
    <2>3. \A i \in DOMAIN Key(o) : Key(o)[i] = f[o[i]] /\ Entry(o)[i] = g[o[i]]
        BY <2>1
    <2> HIDE DEF f, g, Key, Entry, T
    <2> QED BY <2>2, <2>3 DEF Carries
<1>4. \A o : toAttachments(networks, o) = Sorted(Entry(o), Key(o))
    BY DEF toAttachments
<1> HIDE DEF f, g, Key, Entry, T
<1>5. Separates(f, T)
    BY <1>1, <1>2 DEF Separates
<1>6. Sorted(Entry(order), Key(order)) = Sorted(Entry(other), Key(other))
    BY <1>1, <1>3, <1>5, SortedByElement
<1> QED BY <1>4, <1>6

(* The routers of a container are considered in one order, and so the same  *)
(* link is made of the same labels (serviceURL).                            *)
LEMMA LinkSame ==
    ASSUME NEW labels, NEW S, \A k \in S : k[2] \in Nat,
           NEW order, Enumerates(order, S), NEW other, Enumerates(other, S)
    PROVE  serviceURL(labels, order) = serviceURL(labels, other)
<1> DEFINE T == {k \in S : k = RuleKey(k[2])}
           f == [k \in T |-> <<k[2]>>]
           g == [k \in T |-> k[2]]
           Entry(o) == [i \in DOMAIN o |-> o[i][2]]
           Key(o) == [i \in {j \in DOMAIN o : o[j] = RuleKey(Entry(o)[j])} |-> <<Entry(o)[i]>>]
<1>1. f \in [T -> Seq(Nat)] /\ T \in SUBSET S
    BY NumberKey
<1>2. \A k, l \in T : f[k] = f[l] => k = l
    <2> TAKE k, l \in T
    <2>1. f[k] = f[l] => k[2] = l[2]
        OBVIOUS
    <2>2. k = RuleKey(k[2]) /\ l = RuleKey(l[2])
        OBVIOUS
    <2> QED BY <2>1, <2>2
<1>3. ASSUME NEW o, Enumerates(o, S)
      PROVE  Carries(Entry(o), Key(o), o, T, f, g)
    <2>1. \A i \in DOMAIN o : o[i] \in S
        BY <1>3, SequencePositions DEF Enumerates
    <2>2. DOMAIN Key(o) = {i \in DOMAIN o : o[i] \in T}
        BY <2>1
    <2>3. \A i \in DOMAIN Key(o) : Key(o)[i] = f[o[i]] /\ Entry(o)[i] = g[o[i]]
        BY <2>1
    <2> HIDE DEF f, g, Key, Entry, T
    <2> QED BY <2>2, <2>3 DEF Carries
<1>4. \A o : Routers(o) = Sorted(Entry(o), Key(o))
    BY DEF Routers
<1> HIDE DEF f, g, Key, Entry, T
<1>5. Separates(f, T)
    BY <1>1, <1>2 DEF Separates
<1>6. Sorted(Entry(order), Key(order)) = Sorted(Entry(other), Key(other))
    BY <1>1, <1>3, <1>5, SortedByElement
<1>7. Routers(order) = Routers(other)
    BY <1>4, <1>6
<1> QED BY <1>7, Zenon DEF serviceURL

-----------------------------------------------------------------------------
\* Ports.

\* A port as the runtime reports it.
RuntimePort == [public : Nat, private : Nat, type : DOMAIN ProtocolRank]

LEMMA ProtocolRanks ==
    /\ \A p \in DOMAIN ProtocolRank : ProtocolRank[p] \in Nat
    /\ \A p, q \in DOMAIN ProtocolRank : ProtocolRank[p] = ProtocolRank[q] => p = q
BY DEF ProtocolRank

\* Ports that compare as equal are equal: all three parts are compared.
LEMMA PortKeys ==
    /\ \A p \in RuntimePort : PortKey(toPort(p)) \in Seq(Nat)
    /\ \A p, q \in RuntimePort :
         PortKey(toPort(p)) = PortKey(toPort(q)) => toPort(p) = toPort(q)
<1>1. ASSUME NEW p \in RuntimePort
      PROVE  PortKey(toPort(p)) = <<p.private, p.public, ProtocolRank[p.type]>>
    BY DEF PortKey, toPort
<1>2. ASSUME NEW p \in RuntimePort
      PROVE  /\ p.private \in Nat /\ p.public \in Nat /\ ProtocolRank[p.type] \in Nat
             /\ p.type \in DOMAIN ProtocolRank
    BY ProtocolRanks DEF RuntimePort
<1>3. ASSUME NEW p \in RuntimePort
      PROVE  PortKey(toPort(p)) \in Seq(Nat)
    <2>1. <<p.private, p.public, ProtocolRank[p.type]>> \in Seq(Nat)
        BY <1>2
    <2> QED BY <1>1, <2>1
<1>4. ASSUME NEW p \in RuntimePort, NEW q \in RuntimePort,
             PortKey(toPort(p)) = PortKey(toPort(q))
      PROVE  toPort(p) = toPort(q)
    <2>1. <<p.private, p.public, ProtocolRank[p.type]>>
            = <<q.private, q.public, ProtocolRank[q.type]>>
        BY <1>1, <1>4
    <2>2. p.private = q.private /\ p.public = q.public /\ p.type = q.type
        BY <2>1, <1>2, ProtocolRanks
    <2> QED BY <2>2 DEF toPort
<1> QED BY <1>3, <1>4

\* Of equal entries of a sequence one is fresh.
LEMMA FreshEntry ==
    ASSUME NEW S, NEW s \in Seq(S)
    PROVE  /\ Fresh(s) \in SUBSET DOMAIN s
           /\ \A i \in DOMAIN s : \E j \in Fresh(s) : s[j] = s[i]
           /\ \A i, j \in Fresh(s) : s[i] = s[j] => i = j
<1>1. DOMAIN s = 1 .. Len(s) /\ Len(s) \in Nat
    BY SequencePositions
<1>2. Fresh(s) \in SUBSET DOMAIN s
    BY DEF Fresh
<1>3. ASSUME NEW i \in DOMAIN s
      PROVE  \E j \in Fresh(s) : s[j] = s[i]
    <2> DEFINE Same == {j \in DOMAIN s : s[j] = s[i]}
    <2>1. Same \in SUBSET Nat /\ i \in Same
        BY <1>1
    <2>2. PICK j \in Same : \A k \in Same : j <= k
        BY <2>1, LeastNumber
    <2>3. j \in DOMAIN s /\ s[j] = s[i]
        OBVIOUS
    <2>4. \A k \in 1 .. j - 1 : s[k] # s[j]
        <3> SUFFICES ASSUME NEW k \in 1 .. j - 1, s[k] = s[j]
                     PROVE  FALSE
            OBVIOUS
        <3>1. k \in Same /\ k < j
            BY <1>1, <2>3
        <3> QED BY <3>1, <2>2, <2>1
    <2> QED BY <2>3, <2>4 DEF Fresh
<1>4. ASSUME NEW i \in Fresh(s), NEW j \in Fresh(s), s[i] = s[j]
      PROVE  i = j
    <2>1. /\ i \in DOMAIN s /\ \A k \in 1 .. i - 1 : s[k] # s[i]
          /\ j \in DOMAIN s /\ \A k \in 1 .. j - 1 : s[k] # s[j]
        BY DEF Fresh
    <2>2. i \in 1 .. Len(s) /\ j \in 1 .. Len(s)
        BY <2>1, <1>1
    <2>3. ~(i \in 1 .. j - 1) /\ ~(j \in 1 .. i - 1)
        BY <2>1, <1>4
    <2> QED BY <1>1, <2>2, <2>3
<1> QED BY <1>2, <1>3, <1>4

\* What toPorts sorts, and by what.
Mapped(ports) == [i \in DOMAIN ports |-> toPort(ports[i])]
PortKeysOf(ports) == [i \in Fresh(Mapped(ports)) |-> PortKey(Mapped(ports)[i])]

\* Each port has one key, whatever ports there are beside it.
LEMMA PortsArranged ==
    ASSUME NEW ports \in Seq(RuntimePort)
    PROVE  /\ toPorts(ports) = Sorted(Mapped(ports), PortKeysOf(ports))
           /\ IsKey(PortKeysOf(ports)) /\ NoTies(PortKeysOf(ports))
           /\ {<<PortKeysOf(ports)[i], Mapped(ports)[i]>> : i \in DOMAIN PortKeysOf(ports)}
                = {<<PortKey(toPort(p)), toPort(p)>> : p \in ToSet(ports)}
<1> DEFINE s == Mapped(ports)
           key == PortKeysOf(ports)
<1>1. toPorts(ports) = Sorted(s, key)
    BY DEF toPorts, Mapped, PortKeysOf
<1>2. /\ IsFiniteSet(DOMAIN ports) /\ DOMAIN s = DOMAIN ports
      /\ \A i \in DOMAIN ports : i \in Nat /\ ports[i] \in RuntimePort /\ s[i] = toPort(ports[i])
    BY SequencePositions DEF Mapped
<1>3. s \in Seq({toPort(p) : p \in RuntimePort})
    <2>1. DOMAIN s = 1 .. Len(ports) /\ Len(ports) \in Nat
        BY <1>2, SequencePositions
    <2>2. s \in [1 .. Len(ports) -> {toPort(p) : p \in RuntimePort}]
        BY <1>2, <2>1 DEF Mapped
    <2> QED BY <2>1, <2>2, FunctionIsSequence
<1>4. /\ DOMAIN key = Fresh(s) /\ \A i \in DOMAIN key : key[i] = PortKey(s[i])
    BY DEF PortKeysOf
<1>5. /\ Fresh(s) \in SUBSET DOMAIN s
      /\ \A i \in DOMAIN s : \E j \in Fresh(s) : s[j] = s[i]
      /\ \A i, j \in Fresh(s) : s[i] = s[j] => i = j
    BY <1>3, FreshEntry
<1> HIDE DEF s, key
<1>6. IsKey(key)
    <2>1. IsFiniteSet(DOMAIN key)
        BY <1>2, <1>4, <1>5, FS_Subset
    <2>2. DOMAIN key \in SUBSET Nat
        BY <1>2, <1>4, <1>5
    <2>3. \A i \in DOMAIN key : key[i] \in Seq(Nat)
        BY <1>2, <1>4, <1>5, PortKeys
    <2> QED BY <2>1, <2>2, <2>3 DEF IsKey
<1>7. NoTies(key)
    <2> SUFFICES ASSUME NEW i \in DOMAIN key, NEW j \in DOMAIN key, key[i] = key[j]
                 PROVE  i = j
        BY DEF NoTies
    <2>1. /\ i \in DOMAIN ports /\ j \in DOMAIN ports
          /\ PortKey(s[i]) = PortKey(s[j])
        BY <1>2, <1>4, <1>5
    <2>2. s[i] = s[j]
        BY <2>1, <1>2, PortKeys
    <2> QED BY <2>2, <1>4, <1>5
<1>8. ASSUME NEW i \in DOMAIN key
      PROVE  <<key[i], s[i]>> \in {<<PortKey(toPort(p)), toPort(p)>> : p \in ToSet(ports)}
    <2>1. i \in DOMAIN ports /\ key[i] = PortKey(toPort(ports[i])) /\ s[i] = toPort(ports[i])
        BY <1>2, <1>4, <1>5
    <2>2. ports[i] \in ToSet(ports)
        BY <2>1 DEF ToSet
    <2> QED BY <2>1, <2>2
<1>9. ASSUME NEW p \in ToSet(ports)
      PROVE  <<PortKey(toPort(p)), toPort(p)>> \in {<<key[i], s[i]>> : i \in DOMAIN key}
    <2>1. PICK i \in DOMAIN ports : ports[i] = p
        BY DEF ToSet
    <2>2. PICK j \in Fresh(s) : s[j] = s[i]
        BY <1>2, <1>5, <2>1
    <2>3. j \in DOMAIN key /\ key[j] = PortKey(toPort(p)) /\ s[j] = toPort(p)
        BY <1>2, <1>4, <2>1, <2>2
    <2> QED BY <2>3
<1>10. {<<key[i], s[i]>> : i \in DOMAIN key}
         = {<<PortKey(toPort(p)), toPort(p)>> : p \in ToSet(ports)}
    BY <1>8, <1>9
<1> QED BY <1>1, <1>6, <1>7, <1>10 DEF s, key

(* The ports of a service depend on what the runtime reports, and neither   *)
(* on the order nor on how often it does (toPorts: otherwise "two identical *)
(* observations of one container compare as different").                    *)
LEMMA PortsSame ==
    ASSUME NEW ports \in Seq(RuntimePort), NEW others \in Seq(RuntimePort),
           ToSet(ports) = ToSet(others)
    PROVE  toPorts(ports) = toPorts(others)
<1>1. /\ toPorts(ports) = Sorted(Mapped(ports), PortKeysOf(ports))
      /\ IsKey(PortKeysOf(ports)) /\ NoTies(PortKeysOf(ports))
      /\ {<<PortKeysOf(ports)[i], Mapped(ports)[i]>> : i \in DOMAIN PortKeysOf(ports)}
           = {<<PortKey(toPort(p)), toPort(p)>> : p \in ToSet(ports)}
    BY PortsArranged
<1>2. /\ toPorts(others) = Sorted(Mapped(others), PortKeysOf(others))
      /\ IsKey(PortKeysOf(others)) /\ NoTies(PortKeysOf(others))
      /\ {<<PortKeysOf(others)[i], Mapped(others)[i]>> : i \in DOMAIN PortKeysOf(others)}
           = {<<PortKey(toPort(p)), toPort(p)>> : p \in ToSet(ports)}
    BY PortsArranged
<1> QED BY <1>1, <1>2, SortedSame

\* What a concatenation has.
LEMMA ConcatToSet ==
    ASSUME NEW S, NEW a \in Seq(S), NEW b \in Seq(S)
    PROVE  a \o b \in Seq(S) /\ ToSet(a \o b) = ToSet(a) \cup ToSet(b)
<1>1. /\ Len(a) \in Nat /\ DOMAIN a = 1 .. Len(a)
      /\ Len(b) \in Nat /\ DOMAIN b = 1 .. Len(b)
    BY SequencePositions
<1>2. /\ a \o b \in Seq(S) /\ Len(a \o b) = Len(a) + Len(b)
      /\ \A i \in 1 .. Len(a) + Len(b) :
           (a \o b)[i] = IF i <= Len(a) THEN a[i] ELSE b[i - Len(a)]
    BY ConcatProperties
<1>3. DOMAIN (a \o b) = 1 .. Len(a) + Len(b)
    BY <1>2, SequencePositions
<1>4. ASSUME NEW i \in DOMAIN (a \o b)
      PROVE  (a \o b)[i] \in ToSet(a) \cup ToSet(b)
    <2>1. CASE i <= Len(a)
        BY <2>1, <1>1, <1>2, <1>3 DEF ToSet
    <2>2. CASE ~(i <= Len(a))
        <3>1. i - Len(a) \in DOMAIN b /\ (a \o b)[i] = b[i - Len(a)]
            BY <2>2, <1>1, <1>2, <1>3
        <3> QED BY <3>1 DEF ToSet
    <2> QED BY <2>1, <2>2
<1>5. ASSUME NEW i \in DOMAIN a
      PROVE  a[i] \in ToSet(a \o b)
    <2>1. i \in DOMAIN (a \o b) /\ (a \o b)[i] = a[i]
        BY <1>1, <1>2, <1>3
    <2> QED BY <2>1 DEF ToSet
<1>6. ASSUME NEW i \in DOMAIN b
      PROVE  b[i] \in ToSet(a \o b)
    <2>1. i + Len(a) \in DOMAIN (a \o b) /\ (a \o b)[i + Len(a)] = b[i]
        BY <1>1, <1>2, <1>3
    <2> QED BY <2>1 DEF ToSet
<1> QED BY <1>2, <1>4, <1>5, <1>6 DEF ToSet

\* f has the concatenations of the first of the sequences in ss, up to the m-th.
Flattens(f, ss, m) == f = [i \in 1 .. m |-> IF i = 1 THEN ss[i] ELSE f[i - 1] \o ss[i]]

\* There is such a function, or there would be a least m that has none.
LEMMA FlattenExists ==
    ASSUME NEW ss, NEW n \in Nat
    PROVE  \E f : Flattens(f, ss, n)
<1> DEFINE T == {m \in Nat : ~\E f : Flattens(f, ss, m)}
<1>1. SUFFICES ASSUME T # {} PROVE FALSE
    OBVIOUS
<1>2. PICK m \in T : \A k \in T : m <= k
    BY <1>1, LeastNumber
<1>3. m \in Nat /\ ~\E f : Flattens(f, ss, m)
    OBVIOUS
<1>4. CASE m = 0
    <2> DEFINE f == [i \in 1 .. m |-> ss[i]]
    <2>1. 1 .. m = {}
        BY <1>4
    <2>2. f = [i \in 1 .. m |-> IF i = 1 THEN ss[i] ELSE f[i - 1] \o ss[i]]
        BY <2>1
    <2> HIDE DEF f
    <2> QED BY <2>2, <1>3 DEF Flattens
<1>5. CASE m # 0
    <2>1. m - 1 \in Nat /\ m - 1 \notin T
        BY <1>2, <1>3, <1>5
    <2>2. PICK g : Flattens(g, ss, m - 1)
        BY <2>1
    <2>3. \A i \in 1 .. m - 1 : g[i] = IF i = 1 THEN ss[i] ELSE g[i - 1] \o ss[i]
        BY <2>2 DEF Flattens
    <2> DEFINE f == [i \in 1 .. m |-> IF i = 1 THEN ss[i]
                                      ELSE IF i < m THEN g[i] ELSE g[i - 1] \o ss[i]]
    <2>4. ASSUME NEW i \in 1 .. m
          PROVE  f[i] = IF i = 1 THEN ss[i] ELSE f[i - 1] \o ss[i]
        <3>1. CASE i = 1
            BY <3>1
        <3>2. CASE i # 1
            <4>1. i - 1 \in 1 .. m /\ i - 1 < m /\ i - 1 \in 1 .. m - 1
                BY <1>3, <3>2
            <4>2. f[i - 1] = g[i - 1]
                BY <4>1, <2>3
            <4>3. i < m => i \in 1 .. m - 1
                BY <1>3
            <4>4. f[i] = g[i - 1] \o ss[i]
                BY <4>3, <3>2, <2>3
            <4> QED BY <4>2, <4>4, <3>2
        <3> QED BY <3>1, <3>2
    <2>5. f = [i \in 1 .. m |-> f[i]]
        OBVIOUS
    <2> HIDE DEF f
    <2>6. f = [i \in 1 .. m |-> IF i = 1 THEN ss[i] ELSE f[i - 1] \o ss[i]]
        BY <2>4, <2>5
    <2> QED BY <2>6, <1>3 DEF Flattens
<1> QED BY <1>4, <1>5

\* FlattenSeq keeps what the sequences have and adds nothing.
LEMMA FlattenToSet ==
    ASSUME NEW S, NEW ss \in Seq(Seq(S))
    PROVE  /\ FlattenSeq(ss) \in Seq(S)
           /\ ToSet(FlattenSeq(ss)) = UNION {ToSet(ss[i]) : i \in DOMAIN ss}
<1>1. Len(ss) \in Nat /\ DOMAIN ss = 1 .. Len(ss) /\ \A i \in DOMAIN ss : ss[i] \in Seq(S)
    BY SequencePositions
<1>2. CASE Len(ss) = 0
    <2>1. FlattenSeq(ss) = ss
        BY <1>2 DEF FlattenSeq
    <2>2. DOMAIN ss = {} /\ ss = << >>
        BY <1>1, <1>2, EmptySeq
    <2> QED BY <2>1, <2>2 DEF ToSet
<1>3. CASE Len(ss) # 0
    <2> DEFINE f == CHOOSE f : Flattens(f, ss, Len(ss))
               Union(i) == UNION {ToSet(ss[j]) : j \in 1 .. i}
               Wrong == {i \in 1 .. Len(ss) : ~(f[i] \in Seq(S) /\ ToSet(f[i]) = Union(i))}
    <2>1. FlattenSeq(ss) = f[Len(ss)]
        BY <1>3, Zenon DEF FlattenSeq, Flattens
    <2>2. Flattens(f, ss, Len(ss))
        BY <1>1, FlattenExists
    <2> HIDE DEF f
    <2>3. \A i \in 1 .. Len(ss) : f[i] = IF i = 1 THEN ss[i] ELSE f[i - 1] \o ss[i]
        BY <2>2 DEF Flattens
    <2>4. Wrong = {}
        <3> SUFFICES ASSUME Wrong # {} PROVE FALSE
            OBVIOUS
        <3>1. Wrong \in SUBSET Nat
            BY <1>1
        <3>2. PICK i \in Wrong : \A k \in Wrong : i <= k
            BY <3>1, LeastNumber
        <3>3. i \in 1 .. Len(ss) /\ ss[i] \in Seq(S)
            BY <1>1
        <3>4. CASE i = 1
            <4>1. f[i] = ss[i] /\ Union(i) = ToSet(ss[i])
                BY <2>3, <3>3, <3>4
            <4> QED BY <4>1, <3>3
        <3>5. CASE i # 1
            <4>1. i - 1 \in 1 .. Len(ss) /\ i - 1 \notin Wrong /\ i \in Nat
                <5>1. i - 1 \in 1 .. Len(ss) /\ i \in Nat /\ ~(i <= i - 1)
                    BY <1>1, <3>3, <3>5
                <5> HIDE DEF Wrong
                <5> QED BY <5>1, <3>2
            <4>2. f[i - 1] \in Seq(S) /\ ToSet(f[i - 1]) = Union(i - 1)
                BY <4>1
            <4>3. f[i] = f[i - 1] \o ss[i]
                BY <2>3, <3>3, <3>5
            <4>4. f[i] \in Seq(S) /\ ToSet(f[i]) = Union(i - 1) \cup ToSet(ss[i])
                BY <3>3, <4>2, <4>3, ConcatToSet
            <4>5. \A j : j \in 1 .. i <=> j \in 1 .. i - 1 \/ j = i
                BY <3>3, <4>1
            <4>6. Union(i) = Union(i - 1) \cup ToSet(ss[i])
                BY <4>5
            <4> QED BY <4>4, <4>6, <3>3
        <3> QED BY <3>4, <3>5
    <2>5. Len(ss) \in 1 .. Len(ss)
        BY <1>1, <1>3
    <2>6. f[Len(ss)] \in Seq(S) /\ ToSet(f[Len(ss)]) = Union(Len(ss))
        BY <2>4, <2>5
    <2> QED BY <2>1, <2>6, <1>1
<1> QED BY <1>2, <1>3

\* One entry of a port map, keyed by number and protocol: a binding is a host
\* port, or None.
LEMMA BindingPorts ==
    ASSUME NEW port \in Nat \X DOMAIN ProtocolRank, NEW bindings \in Seq(Nat \cup {None})
    PROVE  portsFromBinding(port, bindings) \in Seq(RuntimePort)
<1> DEFINE Public(binding) == IF binding = None THEN 0 ELSE binding
           Port(public) == [public |-> public, private |-> port[1], type |-> port[2]]
<1>1. \A n \in Nat : Port(n) \in RuntimePort
    BY DEF RuntimePort
<1>2. \A b \in Nat \cup {None} : Public(b) \in Nat
    OBVIOUS
<1>3. portsFromBinding(port, bindings)
        = IF bindings = <<>> THEN <<Port(0)>>
          ELSE [i \in DOMAIN bindings |-> Port(Public(bindings[i]))]
    BY DEF portsFromBinding
<1> HIDE DEF Public, Port
<1>4. <<Port(0)>> \in Seq(RuntimePort)
    BY <1>1
<1>5. [i \in DOMAIN bindings |-> Port(Public(bindings[i]))] \in Seq(RuntimePort)
    <2>1. \A i \in DOMAIN bindings : Port(Public(bindings[i])) \in RuntimePort
        BY <1>1, <1>2, SequencePositions
    <2>2. [i \in DOMAIN bindings |-> Port(Public(bindings[i]))]
            \in [1 .. Len(bindings) -> RuntimePort]
        BY <2>1, SequencePositions
    <2> QED BY <2>2, SequencePositions, FunctionIsSequence
<1> QED BY <1>3, <1>4, <1>5

\* A map of such entries.
IsPortMap(map) ==
    /\ DOMAIN map \in SUBSET (Nat \X DOMAIN ProtocolRank)
    /\ \A port \in DOMAIN map : map[port] \in Seq(Nat \cup {None})

\* The ports it holds.
PortsIn(map) == UNION {ToSet(portsFromBinding(port, map[port])) : port \in DOMAIN map}

\* The ports of a map do not depend on the order Go ranged over it in.
LEMMA PortsOfMap ==
    ASSUME NEW map, IsPortMap(map), NEW order, Enumerates(order, DOMAIN map)
    PROVE  \E ports \in Seq(RuntimePort) : /\ ToSet(ports) = PortsIn(map)
                                           /\ toPortsFromBindings(map, order) = toPorts(ports)
<1> DEFINE ss == [i \in DOMAIN order |-> portsFromBinding(order[i], map[order[i]])]
<1>1. /\ Len(order) \in Nat /\ DOMAIN order = 1 .. Len(order)
      /\ \A i \in DOMAIN order : order[i] \in DOMAIN map
    BY SequencePositions DEF Enumerates
<1>2. \A i \in DOMAIN order : ss[i] \in Seq(RuntimePort)
    BY <1>1, BindingPorts DEF IsPortMap
<1>3. ss \in Seq(Seq(RuntimePort)) /\ DOMAIN ss = DOMAIN order
    <2>1. ss \in [1 .. Len(order) -> Seq(RuntimePort)]
        BY <1>1, <1>2
    <2> QED BY <1>1, <2>1, FunctionIsSequence
<1>4. {ToSet(ss[i]) : i \in DOMAIN ss}
        = {ToSet(portsFromBinding(port, map[port])) : port \in DOMAIN map}
    <2>1. \A i \in DOMAIN ss : ss[i] = portsFromBinding(order[i], map[order[i]])
        OBVIOUS
    <2>2. \A port \in DOMAIN map : \E i \in DOMAIN ss : order[i] = port
        BY <1>3 DEF Enumerates
    <2> HIDE DEF ss
    <2>3. \A port \in DOMAIN map : \E i \in DOMAIN ss :
            ToSet(ss[i]) = ToSet(portsFromBinding(port, map[port]))
        BY <2>1, <2>2
    <2> QED BY <1>1, <1>3, <2>1, <2>3
<1>5. toPortsFromBindings(map, order) = toPorts(FlattenSeq(ss))
    BY DEF toPortsFromBindings
<1> HIDE DEF ss
<1>6. /\ FlattenSeq(ss) \in Seq(RuntimePort)
      /\ ToSet(FlattenSeq(ss)) = UNION {ToSet(ss[i]) : i \in DOMAIN ss}
    BY <1>3, FlattenToSet
<1> QED BY <1>4, <1>5, <1>6 DEF PortsIn

-----------------------------------------------------------------------------
\* Nothing is lost and nothing is doubled by sorting.

LEMMA SortedEntry ==
    ASSUME NEW s, NEW key, IsKey(key)
    PROVE  /\ Cardinality(DOMAIN key) \in Nat
           /\ DOMAIN Sorted(s, key) = 1 .. Cardinality(DOMAIN key)
           /\ \A k \in 1 .. Cardinality(DOMAIN key) :
                /\ PositionAt(key, k) \in DOMAIN key
                /\ Sorted(s, key)[k] = s[PositionAt(key, k)]
<1>1. Sorted(s, key) = [k \in 1 .. Cardinality(DOMAIN key) |-> s[PositionAt(key, k)]]
    BY SortedDef
<1>2. \A k \in 1 .. Cardinality(DOMAIN key) : PositionAt(key, k) \in DOMAIN key
    BY PositionAtPlace
<1> QED BY <1>1, <1>2, AheadFinite

LEMMA OnePlace ==
    ASSUME NEW key, IsKey(key), NEW i \in DOMAIN key
    PROVE  Cardinality({k \in 1 .. Cardinality(DOMAIN key) : PositionAt(key, k) = i}) = 1
<1>1. PICK k \in 1 .. Cardinality(DOMAIN key) : PositionAt(key, k) = i
    BY PlaceOfPosition
<1>2. {l \in 1 .. Cardinality(DOMAIN key) : PositionAt(key, l) = i} = {k}
    BY <1>1, PositionsDiffer
<1> QED BY <1>2, FS_Singleton

\* Positions that have a number each are sorted by it.
LEMMA NumberedKey ==
    ASSUME NEW S, NEW T \in SUBSET S, IsFiniteSet(S), S \in SUBSET Nat,
           NEW f, \A i \in T : f[i] \in Nat
    PROVE  IsKey([i \in T |-> <<f[i]>>])
<1>1. IsFiniteSet(T)
    BY FS_Subset
<1> QED BY <1>1, NumberKey DEF IsKey

(* Each variable of the environment is listed once, and nothing else is     *)
(* (redactEnvironment).                                                     *)
LEMMA EnvironmentOnce ==
    ASSUME NEW S, NEW env \in Seq(S), \A i \in DOMAIN env : env[i].key \in Nat,
           \A i, j \in DOMAIN env : env[i].key = env[j].key => i = j,
           NEW i \in DOMAIN env
    PROVE  Cardinality({k \in DOMAIN redactEnvironment(env) :
                            redactEnvironment(env)[k].Key = env[i].key}) = 1
<1> DEFINE list == redactEnvironment(env)
           f == [j \in DOMAIN env |-> env[j].key]
           s == [j \in DOMAIN env |->
                    [Key |-> env[j].key,
                     Value |-> IF isSecret(env[j].key) THEN "redacted" ELSE env[j].value]]
           key == [j \in DOMAIN env |-> <<f[j]>>]
<1>1. list = Sorted(s, key)
    BY DEF redactEnvironment
<1>2. IsKey(key) /\ DOMAIN key = DOMAIN env
    <2>1. \A j \in DOMAIN env : f[j] \in Nat
        OBVIOUS
    <2>2. IsFiniteSet(DOMAIN env) /\ DOMAIN env \in SUBSET Nat
        BY SequencePositions
    <2> HIDE DEF f
    <2> QED BY <2>1, <2>2, NumberedKey
<1>3. \A j \in DOMAIN env : s[j].Key = env[j].key
    OBVIOUS
<1> HIDE DEF list, f, s, key
<1>4. {k \in DOMAIN list : list[k].Key = env[i].key}
        = {k \in 1 .. Cardinality(DOMAIN key) : PositionAt(key, k) = i}
    BY <1>1, <1>2, <1>3, SortedEntry
<1> QED BY <1>2, <1>4, OnePlace DEF list

(* Each mount is listed once (toMounts).                                    *)
LEMMA MountsOnce ==
    ASSUME NEW S, NEW mounts \in Seq(S), \A i \in DOMAIN mounts : mounts[i].destination \in Nat,
           \A i, j \in DOMAIN mounts : mounts[i].destination = mounts[j].destination => i = j,
           NEW i \in DOMAIN mounts
    PROVE  Cardinality({k \in DOMAIN toMounts(mounts) :
                            toMounts(mounts)[k].Destination = mounts[i].destination}) = 1
<1> DEFINE list == toMounts(mounts)
           f == [j \in DOMAIN mounts |-> mounts[j].destination]
           s == [j \in DOMAIN mounts |->
                    [Type |-> mounts[j].type, Destination |-> mounts[j].destination,
                     Source |-> IF mounts[j].name = None THEN mounts[j].source
                                ELSE mounts[j].name]]
           key == [j \in DOMAIN mounts |-> <<f[j]>>]
<1>1. list = Sorted(s, key)
    BY DEF toMounts
<1>2. IsKey(key) /\ DOMAIN key = DOMAIN mounts
    <2>1. \A j \in DOMAIN mounts : f[j] \in Nat
        OBVIOUS
    <2>2. IsFiniteSet(DOMAIN mounts) /\ DOMAIN mounts \in SUBSET Nat
        BY SequencePositions
    <2> HIDE DEF f
    <2> QED BY <2>1, <2>2, NumberedKey
<1>3. \A j \in DOMAIN mounts : s[j].Destination = mounts[j].destination
    OBVIOUS
<1> HIDE DEF list, f, s, key
<1>4. {k \in DOMAIN list : list[k].Destination = mounts[i].destination}
        = {k \in 1 .. Cardinality(DOMAIN key) : PositionAt(key, k) = i}
    BY <1>1, <1>2, <1>3, SortedEntry
<1> QED BY <1>2, <1>4, OnePlace DEF list

(* Each network with an endpoint is listed once (toDetail).                 *)
LEMMA AttachmentsOnce ==
    ASSUME NEW networks, DOMAIN networks \in SUBSET Nat,
           NEW order, Enumerates(order, DOMAIN networks),
           NEW n \in DOMAIN networks, networks[n] # None
    PROVE  Cardinality({k \in DOMAIN toAttachments(networks, order) :
                            toAttachments(networks, order)[k].Name = n}) = 1
<1> DEFINE list == toAttachments(networks, order)
           there == {j \in DOMAIN order : networks[order[j]] # None}
           s == [j \in there |-> [Name |-> order[j], NetworkID |-> networks[order[j]].id]]
           key == [j \in there |-> <<order[j]>>]
<1>1. list = Sorted(s, key)
    BY DEF toAttachments
<1>2. IsKey(key) /\ DOMAIN key = there
    <2>1. /\ IsFiniteSet(DOMAIN order) /\ DOMAIN order \in SUBSET Nat
          /\ \A j \in there : order[j] \in Nat
        BY SequencePositions DEF Enumerates
    <2>2. there \in SUBSET DOMAIN order
        OBVIOUS
    <2> HIDE DEF there
    <2> QED BY <2>1, <2>2, NumberedKey
<1>3. PICK i \in there : order[i] = n /\ \A j \in there : order[j] = n => i = j
    BY DEF Enumerates
<1>4. \A j \in there : s[j].Name = order[j]
    OBVIOUS
<1> HIDE DEF list, s, key, there
<1>5. {k \in DOMAIN list : list[k].Name = n}
        = {k \in 1 .. Cardinality(DOMAIN key) : PositionAt(key, k) = i}
    BY <1>1, <1>2, <1>3, <1>4, SortedEntry
<1> QED BY <1>2, <1>3, <1>5, OnePlace DEF list

(* The labels are each listed once (toLabels).                              *)
LEMMA LabelsEnumerate ==
    ASSUME KeyOrder \in Seq(ToSet(KeyOrder)), NEW S \in SUBSET ToSet(KeyOrder),
           NEW order, Enumerates(order, S)
    PROVE  Enumerates(toLabels(order), S)
<1> DEFINE list == toLabels(order)
           f == [i \in DOMAIN order |-> KeyPosition(order[i])]
           key == [i \in DOMAIN order |-> <<f[i]>>]
           n == Cardinality(DOMAIN key)
<1>1. list = Sorted(order, key)
    BY DEF toLabels
<1>2. IsKey(key) /\ DOMAIN key = DOMAIN order
    <2>1. \A i \in DOMAIN order : f[i] \in Nat
        BY SequencePositions, KeyPositions DEF Enumerates
    <2>2. IsFiniteSet(DOMAIN order) /\ DOMAIN order \in SUBSET Nat
        BY SequencePositions DEF Enumerates
    <2> HIDE DEF f
    <2> QED BY <2>1, <2>2, NumberedKey
<1> HIDE DEF list, f, key
<1>3. /\ n \in Nat /\ DOMAIN list = 1 .. n
      /\ \A k \in 1 .. n : PositionAt(key, k) \in DOMAIN order /\ list[k] = order[PositionAt(key, k)]
    BY <1>1, <1>2, SortedEntry
<1>4. list = [k \in 1 .. n |-> list[k]]
    <2>1. list = [k \in 1 .. n |-> order[PositionAt(key, k)]]
        BY <1>1, SortedDef
    <2> QED BY <2>1
<1>5. list \in Seq(S)
    <2>1. list \in [1 .. n -> S]
        <3>1. \A k \in 1 .. n : list[k] \in S
            BY <1>3, SequencePositions DEF Enumerates
        <3> HIDE DEF n
        <3> QED BY <3>1, <1>4
    <2> QED BY <1>3, <2>1, FunctionIsSequence
<1>6. \A k, l \in 1 .. n : list[k] = list[l] => k = l
    BY <1>2, <1>3, PositionsDiffer DEF Enumerates
<1>7. ASSUME NEW x \in S
      PROVE  \E k \in 1 .. n : list[k] = x
    <2>1. PICK i \in DOMAIN order : order[i] = x
        BY DEF Enumerates
    <2> QED BY <2>1, <1>2, <1>3, PlaceOfPosition
<1> QED BY <1>3, <1>5, <1>6, <1>7 DEF Enumerates, list

FamilyOf(k) == IF k[1] \in {"compose", "oci", "traefik"} THEN k[1] ELSE "other"

(* Each label is in one group, once, and at a position that KeyOrder has    *)
(* (GroupLabels).                                                           *)
LEMMA GroupedOnce ==
    ASSUME KeyOrder \in Seq(ToSet(KeyOrder)), NEW S \in SUBSET ToSet(KeyOrder),
           NEW keys, Enumerates(keys, S), NEW x \in S
    PROVE  Cardinality({at \in (DOMAIN GroupLabels(keys)) \X (DOMAIN KeyOrder) :
                            /\ at[2] \in DOMAIN GroupLabels(keys)[at[1]]
                            /\ GroupLabels(keys)[at[1]][at[2]] = x}) = 1
<1> DEFINE groups == GroupLabels(keys)
           Of(title) == {i \in DOMAIN keys : FamilyOf(keys[i]) = title}
           Key(title) == [i \in Of(title) |-> <<i>>]
           n(title) == Cardinality(DOMAIN Key(title))
<1>1. /\ DOMAIN groups = {FamilyOf(k) : k \in ToSet(keys)}
      /\ \A title \in DOMAIN groups : groups[title] = Sorted(keys, Key(title))
    BY DEF GroupLabels, EntriesAt, FamilyOf
<1>2. /\ IsFiniteSet(DOMAIN keys) /\ DOMAIN keys \in SUBSET Nat
      /\ \A i \in DOMAIN keys : keys[i] \in S
    BY SequencePositions DEF Enumerates
<1>3. \A title : IsKey(Key(title)) /\ DOMAIN Key(title) = Of(title)
    <2> TAKE title
    <2>1. Of(title) \in SUBSET DOMAIN keys /\ IsFiniteSet(Of(title))
        BY <1>2, FS_Subset
    <2>2. \A i \in Of(title) : <<i>> \in Seq(Nat)
        BY <1>2, NumberKey
    <2> QED BY <1>2, <2>1, <2>2 DEF IsKey
<1>4. PICK i \in DOMAIN keys : keys[i] = x
    BY DEF Enumerates
<1>5. FamilyOf(x) \in DOMAIN groups /\ i \in Of(FamilyOf(x))
    BY <1>1, <1>4 DEF ToSet
<1>6. \A title : n(title) \in Nat /\ n(title) <= Len(KeyOrder) /\ Len(KeyOrder) \in Nat
    <2> TAKE title
    <2>1. /\ Cardinality(Of(title)) \in Nat /\ Cardinality(Of(title)) <= Cardinality(DOMAIN keys)
          /\ Cardinality(DOMAIN keys) \in Nat
        BY <1>2, FS_Subset, FS_CardinalityType
    <2>2. /\ IsFiniteSet(DOMAIN KeyOrder) /\ Cardinality(DOMAIN KeyOrder) = Len(KeyOrder)
          /\ Len(KeyOrder) \in Nat
        <3>1. /\ IsFiniteSet(DOMAIN KeyOrder) /\ DOMAIN KeyOrder = 1 .. Len(KeyOrder)
              /\ Len(KeyOrder) \in Nat
            BY SequencePositions
        <3>2. \A m \in Nat : Cardinality(1 .. m) = m
            BY FS_Interval
        <3> QED BY <3>1, <3>2
    <2>3. Cardinality(DOMAIN keys) <= Cardinality(DOMAIN KeyOrder)
        <3> DEFINE place == [j \in DOMAIN keys |-> KeyPosition(keys[j])]
        <3>1. place \in [DOMAIN keys -> DOMAIN KeyOrder]
            BY <1>2, KeyPositions
        <3>2. \A j, k \in DOMAIN keys : place[j] = place[k] => j = k
            <4> TAKE j, k \in DOMAIN keys
            <4>1. /\ KeyOrder[KeyPosition(keys[j])] = keys[j]
                  /\ KeyOrder[KeyPosition(keys[k])] = keys[k]
                BY <1>2, KeyPositions
            <4> QED BY <4>1 DEF Enumerates
        <3> HIDE DEF place
        <3>3. place \in Injection(DOMAIN keys, DOMAIN KeyOrder)
            BY <3>1, <3>2 DEF Injection, IsInjective
        <3> QED BY <3>3, <2>2, FS_Injection
    <2> QED BY <1>3, <2>1, <2>2, <2>3
<1> HIDE DEF groups, Of, Key
<1>7. PICK k \in 1 .. n(FamilyOf(x)) : PositionAt(Key(FamilyOf(x)), k) = i
    BY <1>3, <1>5, PlaceOfPosition
<1>8. {at \in (DOMAIN groups) \X (DOMAIN KeyOrder) :
         at[2] \in DOMAIN groups[at[1]] /\ groups[at[1]][at[2]] = x} = {<<FamilyOf(x), k>>}
    <2>1. ASSUME NEW title \in DOMAIN groups, NEW l \in DOMAIN groups[title], groups[title][l] = x
          PROVE  title = FamilyOf(x) /\ l = k
        <3>1. l \in 1 .. n(title) /\ PositionAt(Key(title), l) \in Of(title)
              /\ keys[PositionAt(Key(title), l)] = x
            BY <2>1, <1>1, <1>3, SortedEntry
        <3>2. PositionAt(Key(title), l) = i
            BY <3>1, <1>4 DEF Enumerates, Of
        <3>3. title = FamilyOf(x)
            BY <3>1 DEF Of
        <3> QED BY <1>3, <1>7, <3>1, <3>2, <3>3, PositionsDiffer
    <2>2. /\ k \in DOMAIN groups[FamilyOf(x)] /\ groups[FamilyOf(x)][k] = x
        BY <1>1, <1>3, <1>4, <1>5, <1>7, SortedEntry
    <2>3. k \in DOMAIN KeyOrder
        BY <1>6, <1>7, SequencePositions
    <2> QED BY <1>5, <2>1, <2>2, <2>3
<1> QED BY <1>8, FS_Singleton DEF groups

-----------------------------------------------------------------------------
\* The link.

\* The routers with a rule label, each at one place.
LEMMA RoutersAre ==
    ASSUME NEW S, \A k \in S : k[2] \in Nat, NEW order, Enumerates(order, S)
    PROVE  /\ DOMAIN Routers(order) \in SUBSET Nat
           /\ \A r : (\E i \in DOMAIN Routers(order) : Routers(order)[i] = r)
                       <=> RuleKey(r) \in S
<1> DEFINE list == Routers(order)
           router == [i \in DOMAIN order |-> order[i][2]]
           ruled == {j \in DOMAIN order : order[j] = RuleKey(router[j])}
           key == [i \in ruled |-> <<router[i]>>]
           n == Cardinality(DOMAIN key)
<1>1. list = Sorted(router, key)
    BY DEF Routers
<1>2. /\ IsFiniteSet(DOMAIN order) /\ DOMAIN order \in SUBSET Nat
      /\ \A i \in DOMAIN order : order[i] \in S
    BY SequencePositions DEF Enumerates
<1>3. IsKey(key) /\ DOMAIN key = ruled
    <2>1. \A i \in ruled : router[i] \in Nat
        BY <1>2
    <2>2. ruled \in SUBSET DOMAIN order
        OBVIOUS
    <2> HIDE DEF ruled, router
    <2> QED BY <1>2, <2>1, <2>2, NumberedKey
<1>4. \A r : RuleKey(r)[2] = r
    BY DEF RuleKey
<1>5. \A r : (\E i \in ruled : router[i] = r) <=> RuleKey(r) \in S
    <2> TAKE r
    <2>1. ASSUME NEW i \in ruled, router[i] = r
          PROVE  RuleKey(r) \in S
        BY <1>2, <2>1
    <2>2. ASSUME RuleKey(r) \in S
          PROVE  \E i \in ruled : router[i] = r
        <3>1. PICK i \in DOMAIN order : order[i] = RuleKey(r)
            BY <2>2 DEF Enumerates
        <3>2. router[i] = r
            BY <1>4, <3>1
        <3> QED BY <3>1, <3>2
    <2> QED BY <2>1, <2>2
<1> HIDE DEF list, router, ruled, key
<1>6. /\ n \in Nat /\ DOMAIN list = 1 .. n
      /\ \A k \in 1 .. n : PositionAt(key, k) \in ruled /\ list[k] = router[PositionAt(key, k)]
    BY <1>1, <1>3, SortedEntry
<1>7. \A r : (\E k \in 1 .. n : list[k] = r) <=> (\E i \in ruled : router[i] = r)
    BY <1>3, <1>6, PlaceOfPosition
<1>8. DOMAIN list \in SUBSET Nat
    BY <1>6
<1>9. \A r : (\E k \in DOMAIN list : list[k] = r) <=> RuleKey(r) \in S
    BY <1>5, <1>6, <1>7
<1> QED BY <1>8, <1>9 DEF list

(* There is a link when any router names a host, and a secure one when any  *)
(* of those is (serviceURL).                                                *)
LEMMA LinkIsBest ==
    ASSUME NEW labels, \A k \in DOMAIN labels : k[2] \in Nat,
           NEW order, Enumerates(order, DOMAIN labels)
    PROVE  LET named == {r \in Nat : RuleKey(r) \in DOMAIN labels /\ labels[RuleKey(r)] # None}
               url == serviceURL(labels, order)
           IN \/ named = {} /\ url = None
              \/ /\ named # {}
                 /\ \E r \in named :
                      url = [secure |-> \E s \in named : secure(labels, s),
                             host |-> labels[RuleKey(r)]]
<1> DEFINE routers == Routers(order)
           Host(i) == labels[RuleKey(routers[i])]
           at == {i \in DOMAIN routers : Host(i) # None}
           safe == {i \in at : secure(labels, routers[i])}
           best == IF safe # {} THEN safe ELSE at
           url == serviceURL(labels, order)
           named == {r \in Nat : RuleKey(r) \in DOMAIN labels /\ labels[RuleKey(r)] # None}
<1>1. url = IF at = {} THEN None
            ELSE [secure |-> safe # {},
                  host |-> Host(CHOOSE i \in best : \A j \in best : i <= j)]
    BY Zenon DEF serviceURL
<1>2. /\ DOMAIN routers \in SUBSET Nat
      /\ \A r : (\E i \in DOMAIN routers : routers[i] = r) <=> RuleKey(r) \in DOMAIN labels
    BY RoutersAre
<1>3. \A r : RuleKey(r)[2] = r
    BY DEF RuleKey
<1> HIDE DEF routers
<1>4. \A r : r \in named <=> \E i \in at : routers[i] = r
    <2>1. \A r : RuleKey(r) \in DOMAIN labels => r \in Nat
        BY <1>3
    <2> QED BY <1>2, <2>1
<1>5. safe # {} <=> \E r \in named : secure(labels, r)
    BY <1>4
<1> HIDE DEF named
<1>6. ASSUME at # {}
      PROVE  \E r \in named :
               url = [secure |-> \E s \in named : secure(labels, s), host |-> labels[RuleKey(r)]]
    <2> DEFINE Least(i) == \A j \in best : i <= j
    <2>1. best \in SUBSET at /\ best \in SUBSET Nat /\ best # {}
        BY <1>2, <1>6
    <2> HIDE DEF best
    <2>2. \E i \in best : Least(i)
        BY <2>1, LeastNumber
    <2> HIDE DEF Least
    <2>3. PICK i \in best : i = CHOOSE j \in best : Least(j)
        BY <2>2
    <2>4. (CHOOSE j \in best : Least(j)) = CHOOSE j \in best : \A k \in best : j <= k
        BY DEF Least
    <2>5. routers[i] \in named
        BY <1>4, <2>1
    <2>6. url = [secure |-> safe # {}, host |-> labels[RuleKey(routers[i])]]
        BY <1>1, <1>6, <2>3, <2>4
    <2>7. (safe # {}) = \E s \in named : secure(labels, s)
        BY <1>5
    <2> QED BY <2>5, <2>6, <2>7
<1>7. at = {} <=> named = {}
    BY <1>4
<1> QED BY <1>1, <1>6, <1>7, Zenon DEF named

-----------------------------------------------------------------------------
(* Entries taken in their order, and sequences put end to end.              *)

\* Where the k-th of the entries at these positions comes from.
PlaceIn(positions, k) == PositionAt([i \in positions |-> <<i>>], k)

\* Of one position each, the smaller sorts first.
LEMMA LessNumber ==
    ASSUME NEW m \in Nat, NEW n \in Nat
    PROVE  Less(<<m>>, <<n>>) <=> m < n
BY DEF Less

(* The entries at some positions are listed once each, and in their order    *)
(* (a slice built by appending).                                             *)
LEMMA EntriesInOrder ==
    ASSUME NEW n \in Nat, NEW P \in SUBSET (1 .. n), NEW s
    PROVE  /\ Cardinality(P) \in Nat /\ DOMAIN EntriesAt(s, P) = 1 .. Cardinality(P)
           /\ \A k \in 1 .. Cardinality(P) :
                PlaceIn(P, k) \in P /\ EntriesAt(s, P)[k] = s[PlaceIn(P, k)]
           /\ \A k, l \in 1 .. Cardinality(P) : k < l => PlaceIn(P, k) < PlaceIn(P, l)
           /\ \A p \in P : \E k \in 1 .. Cardinality(P) : PlaceIn(P, k) = p
<1> DEFINE key == [i \in P |-> <<i>>]
<1>1. P \in SUBSET Nat /\ \A i \in P : key[i] = <<i>>
    OBVIOUS
<1>2. IsKey(key)
    <2>1. IsFiniteSet(1 .. n)
        BY FS_Interval
    <2>2. IsFiniteSet(P)
        BY <2>1, FS_Subset
    <2> QED BY <1>1, <2>2, NumberKey DEF IsKey
<1>3. DOMAIN key = P /\ EntriesAt(s, P) = Sorted(s, key)
    BY DEF EntriesAt
<1>4. \A k : PlaceIn(P, k) = PositionAt(key, k)
    BY DEF PlaceIn
<1> HIDE DEF key
<1>5. /\ Cardinality(P) \in Nat /\ DOMAIN EntriesAt(s, P) = 1 .. Cardinality(P)
      /\ \A k \in 1 .. Cardinality(P) :
           PlaceIn(P, k) \in P /\ EntriesAt(s, P)[k] = s[PlaceIn(P, k)]
    BY <1>2, <1>3, <1>4, SortedEntry
<1>6. \A p \in P : \E k \in 1 .. Cardinality(P) : PlaceIn(P, k) = p
    BY <1>2, <1>3, <1>4, PlaceOfPosition
<1>7. ASSUME NEW k \in 1 .. Cardinality(P), NEW l \in 1 .. Cardinality(P), k < l
      PROVE  PlaceIn(P, k) < PlaceIn(P, l)
    <2> DEFINE p == PlaceIn(P, k)
               q == PlaceIn(P, l)
    <2>1. /\ p \in P /\ Cardinality(Ahead(key, p)) = k - 1
          /\ q \in P /\ Cardinality(Ahead(key, q)) = l - 1
        BY <1>2, <1>3, <1>4, PositionAtPlace
    <2> HIDE DEF p, q
    <2>2. p \in Nat /\ q \in Nat
        BY <1>1, <2>1
    <2>3. p # q
        BY <2>1, <1>5, <1>7
    <2>4. CASE q < p
        <3>1. Earlier(key, q, p)
            BY <1>1, <2>1, <2>2, <2>4, LessNumber DEF Earlier
        <3>2. Cardinality(Ahead(key, q)) < Cardinality(Ahead(key, p))
            BY <1>2, <1>3, <2>1, <3>1, FewerAhead
        <3> QED BY <2>1, <3>2, <1>5, <1>7
    <2>5. CASE p < q
        BY <2>5 DEF p, q
    <2> QED BY <2>2, <2>3, <2>4, <2>5
<1> QED BY <1>5, <1>6, <1>7

\* The k-th entry of `whole` is entry col[k] of the row[k]-th of the first n
\* sequences, and whole goes through them row by row.
Runs(row, col, whole, ss, n) ==
    /\ \A k \in DOMAIN whole : /\ row[k] \in 1 .. n /\ col[k] \in DOMAIN ss[row[k]]
                               /\ whole[k] = ss[row[k]][col[k]]
    /\ \A k, l \in DOMAIN whole :
         k < l => row[k] < row[l] \/ (row[k] = row[l] /\ col[k] < col[l])
    /\ \A i \in 1 .. n : \A j \in DOMAIN ss[i] :
         \E k \in DOMAIN whole : row[k] = i /\ col[k] = j

LEMMA RunsExtends ==
    ASSUME NEW S, NEW whole \in Seq(S), NEW n \in Nat, NEW ss, ss[n + 1] \in Seq(S),
           NEW row, NEW col, Runs(row, col, whole, ss, n)
    PROVE  \E r, c : Runs(r, c, whole \o ss[n + 1], ss, n + 1)
<1> DEFINE next == ss[n + 1]
           new == whole \o next
           len == Len(whole)
           r == [k \in DOMAIN new |-> IF k <= len THEN row[k] ELSE n + 1]
           c == [k \in DOMAIN new |-> IF k <= len THEN col[k] ELSE k - len]
<1>1. /\ len \in Nat /\ DOMAIN whole = 1 .. len
      /\ Len(next) \in Nat /\ DOMAIN next = 1 .. Len(next)
    BY SequencePositions
<1>2. /\ DOMAIN new = 1 .. len + Len(next)
      /\ \A k \in DOMAIN new : new[k] = IF k <= len THEN whole[k] ELSE next[k - len]
    BY ConcatProperties, <1>1
<1>3. /\ \A k \in DOMAIN new : k <= len => r[k] = row[k] /\ c[k] = col[k]
      /\ \A k \in DOMAIN new : ~(k <= len) => r[k] = n + 1 /\ c[k] = k - len
    OBVIOUS
<1> HIDE DEF r, c, next, new, len
<1>4. ASSUME NEW k \in DOMAIN new
      PROVE  /\ r[k] \in 1 .. n + 1 /\ c[k] \in DOMAIN ss[r[k]]
             /\ new[k] = ss[r[k]][c[k]]
             /\ k <= len => k \in DOMAIN whole /\ r[k] \in 1 .. n
    <2>1. CASE k <= len
        <3>1. k \in DOMAIN whole /\ r[k] = row[k] /\ c[k] = col[k] /\ new[k] = whole[k]
            BY <1>1, <1>2, <1>3, <2>1
        <3>2. /\ row[k] \in 1 .. n /\ col[k] \in DOMAIN ss[row[k]]
              /\ whole[k] = ss[row[k]][col[k]]
            BY <3>1 DEF Runs
        <3> QED BY <3>1, <3>2
    <2>2. CASE ~(k <= len)
        <3>1. r[k] = n + 1 /\ c[k] = k - len /\ new[k] = next[k - len] /\ k - len \in DOMAIN next
            BY <1>1, <1>2, <1>3, <2>2
        <3>2. ss[r[k]] = next
            BY <3>1 DEF next
        <3> QED BY <3>1, <3>2, <2>2
    <2> QED BY <2>1, <2>2
<1>5. ASSUME NEW k \in DOMAIN new, NEW l \in DOMAIN new, k < l
      PROVE  r[k] < r[l] \/ (r[k] = r[l] /\ c[k] < c[l])
    <2>1. k \in Nat /\ l \in Nat
        BY <1>1, <1>2
    <2>2. CASE l <= len
        <3>1. k <= len
            BY <1>1, <1>5, <2>1, <2>2
        <3>2. /\ r[k] = row[k] /\ c[k] = col[k] /\ k \in DOMAIN whole
              /\ r[l] = row[l] /\ c[l] = col[l] /\ l \in DOMAIN whole
            BY <1>3, <1>4, <2>2, <3>1
        <3> QED BY <3>2, <1>5 DEF Runs
    <2>3. CASE ~(l <= len) /\ k <= len
        BY <1>3, <1>4, <2>3
    <2>4. CASE ~(l <= len) /\ ~(k <= len)
        BY <1>1, <1>3, <1>5, <2>1, <2>4
    <2> QED BY <2>2, <2>3, <2>4
<1>6. ASSUME NEW i \in 1 .. n + 1, NEW j \in DOMAIN ss[i]
      PROVE  \E k \in DOMAIN new : r[k] = i /\ c[k] = j
    <2>1. CASE i \in 1 .. n
        <3>1. PICK k \in DOMAIN whole : row[k] = i /\ col[k] = j
            BY <2>1 DEF Runs
        <3>2. k \in DOMAIN new /\ k <= len
            BY <1>1, <1>2
        <3> QED BY <3>1, <3>2, <1>3
    <2>2. CASE i = n + 1
        <3>1. ss[i] = next
            BY <2>2 DEF next
        <3>2. j + len \in DOMAIN new /\ ~(j + len <= len) /\ (j + len) - len = j
            BY <1>1, <1>2, <3>1
        <3>3. r[j + len] = n + 1 /\ c[j + len] = j
            BY <3>2, <1>3
        <3> QED BY <3>2, <3>3, <2>2
    <2> QED BY <2>1, <2>2
<1>7. Runs(r, c, new, ss, n + 1)
    BY <1>4, <1>5, <1>6 DEF Runs
<1> QED BY <1>7 DEF new, next

(* FlattenSeq goes through the sequences one after the other, and through     *)
(* each in its order.                                                        *)
LEMMA FlattenRuns ==
    ASSUME NEW S, NEW ss \in Seq(Seq(S))
    PROVE  \E row, col : Runs(row, col, FlattenSeq(ss), ss, Len(ss))
<1>1. Len(ss) \in Nat /\ DOMAIN ss = 1 .. Len(ss) /\ \A i \in DOMAIN ss : ss[i] \in Seq(S)
    BY SequencePositions
<1>2. CASE Len(ss) = 0
    <2>1. FlattenSeq(ss) = ss
        BY <1>2 DEF FlattenSeq
    <2>2. DOMAIN ss = {} /\ 1 .. Len(ss) = {}
        BY <1>1, <1>2
    <2>3. Runs(<< >>, << >>, FlattenSeq(ss), ss, Len(ss))
        BY <2>1, <2>2 DEF Runs
    <2> QED BY <2>3
<1>3. CASE Len(ss) # 0
    <2> DEFINE f == CHOOSE f : Flattens(f, ss, Len(ss))
               Wrong == {i \in 1 .. Len(ss) :
                             ~(f[i] \in Seq(S) /\ \E r, c : Runs(r, c, f[i], ss, i))}
    <2>1. FlattenSeq(ss) = f[Len(ss)]
        BY <1>3, Zenon DEF FlattenSeq, Flattens
    <2>2. Flattens(f, ss, Len(ss))
        BY <1>1, FlattenExists
    <2> HIDE DEF f
    <2>3. \A i \in 1 .. Len(ss) : f[i] = IF i = 1 THEN ss[i] ELSE f[i - 1] \o ss[i]
        BY <2>2 DEF Flattens
    <2>4. Wrong = {}
        <3> SUFFICES ASSUME Wrong # {} PROVE FALSE
            OBVIOUS
        <3>1. Wrong \in SUBSET Nat
            BY <1>1
        <3>2. PICK i \in Wrong : \A k \in Wrong : i <= k
            BY <3>1, LeastNumber
        <3>3. i \in 1 .. Len(ss) /\ ss[i] \in Seq(S)
            BY <1>1
        <3>4. CASE i = 1
            <4> DEFINE r == [k \in DOMAIN ss[1] |-> 1]
                       c == [k \in DOMAIN ss[1] |-> k]
            <4>1. f[i] = ss[i]
                BY <2>3, <3>3, <3>4
            <4>2. Runs(r, c, ss[1], ss, 1)
                BY DEF Runs
            <4> HIDE DEF r, c
            <4> QED BY <4>1, <4>2, <3>3, <3>4
        <3>5. CASE i # 1
            <4>1. i - 1 \in 1 .. Len(ss) /\ i - 1 \notin Wrong /\ i - 1 \in Nat /\ (i - 1) + 1 = i
                <5>1. i - 1 \in 1 .. Len(ss) /\ i \in Nat /\ ~(i <= i - 1)
                    BY <1>1, <3>3, <3>5
                <5> HIDE DEF Wrong
                <5> QED BY <5>1, <3>2
            <4>2. f[i - 1] \in Seq(S) /\ \E r, c : Runs(r, c, f[i - 1], ss, i - 1)
                BY <4>1
            <4>3. f[i] = f[i - 1] \o ss[i]
                BY <2>3, <3>3, <3>5
            <4>4. f[i] \in Seq(S)
                BY <3>3, <4>2, <4>3, ConcatToSet
            <4>5. PICK r, c : Runs(r, c, f[i - 1], ss, i - 1)
                BY <4>2
            <4> DEFINE n == i - 1
            <4>6. n \in Nat /\ n + 1 = i
                BY <4>1
            <4>7. ss[n + 1] \in Seq(S) /\ f[n] \in Seq(S) /\ Runs(r, c, f[n], ss, n)
                BY <4>2, <4>5, <4>6, <3>3
            <4> HIDE DEF n
            <4>8. \E r2, c2 : Runs(r2, c2, f[n] \o ss[n + 1], ss, n + 1)
                BY <4>6, <4>7, RunsExtends
            <4>9. \E r2, c2 : Runs(r2, c2, f[i], ss, i)
                BY <4>8, <4>6, <4>3 DEF n
            <4> QED BY <4>4, <4>9, <3>3
        <3> QED BY <3>4, <3>5
    <2>5. Len(ss) \in 1 .. Len(ss)
        BY <1>1, <1>3
    <2>6. \E r, c : Runs(r, c, f[Len(ss)], ss, Len(ss))
        BY <2>4, <2>5
    <2> QED BY <2>1, <2>6
<1> QED BY <1>2, <1>3
=============================================================================

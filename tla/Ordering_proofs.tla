--------------------------- MODULE Ordering_proofs --------------------------
(***************************************************************************)
(* What the helpers on lists return, for every list: numbers in ascending  *)
(* order, the elements at some places, the elements without repetitions,   *)
(* sums, the elements of a list of lists, the elements in order of keys.   *)
(***************************************************************************)
EXTENDS Ordering, FiniteSetTheorems, SequenceTheorems, TLAPS

Ascends(t) == \A i, j \in DOMAIN t : i < j => t[i] < t[j]

\* How many numbers of a set are up to one of them.
Rank(S, p) == Cardinality({q \in S : q <= p})

\* The ranks in a finite set grow with the numbers, and are positions in it.
LEMMA RanksGrow ==
    ASSUME NEW S \in SUBSET Nat, IsFiniteSet(S)
    PROVE  /\ \A p \in S : Rank(S, p) \in 1..Cardinality(S)
           /\ \A p, q \in S : p < q => Rank(S, p) < Rank(S, q)
<1>1. \A p \in S : Rank(S, p) \in 1..Cardinality(S)
  <2> SUFFICES ASSUME NEW p \in S
               PROVE  Rank(S, p) \in 1..Cardinality(S)
    OBVIOUS
  <2> DEFINE below == {q \in S : q <= p}
  <2>1. IsFiniteSet(below) /\ Cardinality(below) <= Cardinality(S)
    BY FS_Subset, below \in SUBSET S
  <2>2. p \in below
    OBVIOUS
  <2>3. Cardinality(below) # 0
    BY <2>1, <2>2, FS_EmptySet
  <2>4. Cardinality(below) \in Nat /\ Cardinality(S) \in Nat
    BY <2>1, FS_CardinalityType
  <2>5. QED
    BY <2>1, <2>3, <2>4 DEF Rank
<1>2. \A p, q \in S : p < q => Rank(S, p) < Rank(S, q)
  <2> SUFFICES ASSUME NEW p \in S, NEW q \in S, p < q
               PROVE  Rank(S, p) < Rank(S, q)
    OBVIOUS
  <2> DEFINE low == {r \in S : r <= p}
             high == {r \in S : r <= q}
  <2>1. low \subseteq high /\ q \in high /\ q \notin low
    <3>1. \A r \in S : r <= p => r <= q
      OBVIOUS
    <3>2. ~(q <= p) /\ q <= q
      OBVIOUS
    <3>3. QED
      BY <3>1, <3>2
  <2>2. IsFiniteSet(high)
    BY FS_Subset, high \in SUBSET S
  <2>3. /\ IsFiniteSet(low) /\ Cardinality(low) <= Cardinality(high)
        /\ Cardinality(low) # Cardinality(high)
    <3> HIDE DEF low, high
    <3> QED
      BY <2>1, <2>2, FS_Subset
  <2>4. Cardinality(low) \in Nat /\ Cardinality(high) \in Nat
    BY <2>2, <2>3, FS_CardinalityType
  <2>5. QED
    BY <2>3, <2>4 DEF Rank
<1>3. QED
  BY <1>1, <1>2

\* Each position in a finite set of numbers is the rank of just one of them.
LEMMA EachRankOnce ==
    ASSUME NEW S \in SUBSET Nat, IsFiniteSet(S), NEW n \in 1..Cardinality(S)
    PROVE  /\ \E p \in S : Rank(S, p) = n
           /\ \A p, q \in S : Rank(S, p) = Rank(S, q) => p = q
<1>1. \A p, q \in S : Rank(S, p) = Rank(S, q) => p = q
  <2> SUFFICES ASSUME NEW p \in S, NEW q \in S, Rank(S, p) = Rank(S, q)
               PROVE  p = q
    OBVIOUS
  <2>1. Rank(S, p) \in 1..Cardinality(S)
    BY RanksGrow
  <2>2. ~(p < q) /\ ~(q < p)
    BY <2>1, RanksGrow, FS_CardinalityType
  <2>3. QED
    BY <2>2
<1> DEFINE f == [p \in S |-> Rank(S, p)]
           places == 1..Cardinality(S)
<1>2. Cardinality(S) \in Nat
  BY FS_CardinalityType
<1>3. IsFiniteSet(places) /\ Cardinality(places) = Cardinality(S)
  BY <1>2, FS_Interval
<1>4. f \in [S -> places]
  BY RanksGrow
<1>5. f \in Injection(S, places)
  BY <1>1, <1>4 DEF Injection, IsInjective
<1>6. f \in Surjection(S, places)
  <2> HIDE DEF f, places
  <2> QED
    BY <1>3, <1>5, FS_Injection
<1>7. \E p \in S : f[p] = n
  BY <1>6 DEF Surjection
<1>8. QED
  BY <1>1, <1>7

\* sorted(S) has each number of the set once, the lesser before the greater.
LEMMA AscendingIsSorted ==
    ASSUME NEW S \in SUBSET Nat, IsFiniteSet(S)
    PROVE  /\ Ascending(S) \in Seq(S)
           /\ Len(Ascending(S)) = Cardinality(S)
           /\ DOMAIN Ascending(S) = 1..Cardinality(S)
           /\ Ascends(Ascending(S))
           /\ \A p \in S : \E n \in DOMAIN Ascending(S) : Ascending(S)[n] = p
           /\ \A n \in DOMAIN Ascending(S) : Rank(S, Ascending(S)[n]) = n
<1> DEFINE a == Ascending(S)
           size == Cardinality(S)
<1>1. size \in Nat
  BY FS_CardinalityType
<1>2. \A n \in 1..size : a[n] \in S /\ Rank(S, a[n]) = n
  <2> SUFFICES ASSUME NEW n \in 1..size
               PROVE  a[n] \in S /\ Rank(S, a[n]) = n
    OBVIOUS
  <2>1. a[n] = CHOOSE p \in S : Rank(S, p) = n
    BY DEF Ascending, Rank
  <2>2. \E p \in S : Rank(S, p) = n
    BY EachRankOnce
  <2>3. QED
    BY <2>1, <2>2
<1>3. DOMAIN a = 1..size
  BY DEF Ascending
<1>4. a \in [1..size -> S]
  BY <1>2 DEF Ascending
<1> HIDE DEF a
<1>5. a \in Seq(S) /\ Len(a) = size
  BY <1>1, <1>4
<1>6. Ascends(a)
  <2> SUFFICES ASSUME NEW i \in 1..size, NEW j \in 1..size, i < j
               PROVE  a[i] < a[j]
    BY <1>3 DEF Ascends
  <2>1. /\ a[i] \in S /\ a[j] \in S /\ a[i] \in Nat /\ a[j] \in Nat
        /\ Rank(S, a[i]) = i /\ Rank(S, a[j]) = j
    BY <1>2
  <2>2. \A p, q \in S : p < q => Rank(S, p) < Rank(S, q)
    BY RanksGrow
  <2>. HIDE DEF size
  <2>4. ~(a[j] < a[i]) /\ a[i] # a[j]
    BY <2>1, <2>2, <1>1
  <2>5. QED
    BY <2>1, <2>4
<1>7. \A p \in S : \E n \in DOMAIN a : a[n] = p
  <2> SUFFICES ASSUME NEW p \in S
               PROVE  \E n \in DOMAIN a : a[n] = p
    OBVIOUS
  <2>1. Rank(S, p) \in 1..size
    BY RanksGrow
  <2>2. a[Rank(S, p)] \in S /\ Rank(S, a[Rank(S, p)]) = Rank(S, p)
    BY <1>2, <2>1
  <2>3. a[Rank(S, p)] = p
    <3>1. \A q \in S : Rank(S, q) = Rank(S, p) => q = p
      BY <2>1, EachRankOnce
    <3>2. QED
      BY <2>2, <3>1
  <2>4. QED
    BY <1>3, <2>1, <2>3
<1>8. QED
  BY <1>2, <1>3, <1>5, <1>6, <1>7 DEF a

\* A sequence that ascends, of numbers below the rest of a set, is where that
\* set's sorted numbers begin.
LEMMA BeginsAscending ==
    ASSUME NEW S \in SUBSET Nat, IsFiniteSet(S), NEW t \in Seq(S), Ascends(t),
           \A q \in S : (\E k \in DOMAIN t : t[k] = q) \/ (\A k \in DOMAIN t : t[k] < q)
    PROVE  /\ Len(t) <= Cardinality(S)
           /\ \A k \in DOMAIN t : Ascending(S)[k] = t[k]
           /\ (\A q \in S : \E k \in DOMAIN t : t[k] = q) => Len(t) = Cardinality(S)
<1>1. Cardinality(S) \in Nat
  BY FS_CardinalityType
<1>2. Len(t) \in Nat /\ DOMAIN t = 1..Len(t) /\ \A k \in 1..Len(t) : t[k] \in S /\ t[k] \in Nat
  <2>1. Len(t) \in Nat /\ DOMAIN t = 1..Len(t)
    BY LenProperties
  <2>2. \A k \in 1..Len(t) : t[k] \in S
    BY ElementOfSeq
  <2>3. QED
    BY <2>1, <2>2
<1>3. \A i, j \in 1..Len(t) : t[i] <= t[j] <=> i <= j
  <2> SUFFICES ASSUME NEW i \in 1..Len(t), NEW j \in 1..Len(t)
               PROVE  t[i] <= t[j] <=> i <= j
    OBVIOUS
  <2>1. t[i] \in Nat /\ t[j] \in Nat /\ i \in Nat /\ j \in Nat
    BY <1>2
  <2>2. /\ i < j => t[i] < t[j]
        /\ j < i => t[j] < t[i]
    BY <1>2 DEF Ascends
  <2>3. i = j \/ i < j \/ j < i
    BY <2>1
  <2>4. QED
    BY <2>1, <2>2, <2>3
<1>4. \A k \in 1..Len(t) : Rank(S, t[k]) = k
  <2> SUFFICES ASSUME NEW k \in 1..Len(t)
               PROVE  Rank(S, t[k]) = k
    OBVIOUS
  <2> DEFINE below == {q \in S : q <= t[k]}
             f == [i \in 1..k |-> t[i]]
  <2>1. k \in Nat /\ 1..k \subseteq 1..Len(t)
    BY <1>2
  <2>2. \A q \in S : q \in below => \E i \in 1..k : t[i] = q
    <3> SUFFICES ASSUME NEW q \in S, q \in below
                 PROVE  \E i \in 1..k : t[i] = q
      OBVIOUS
    <3>1. q <= t[k] /\ q \in Nat /\ t[k] \in Nat
      BY <1>2
    <3>2. PICK i \in 1..Len(t) : t[i] = q
      BY <1>2, <3>1
    <3>3. i <= k
      BY <1>3, <3>1, <3>2
    <3>4. i \in 1..k
      BY <2>1, <3>3
    <3>5. QED
      BY <3>2, <3>4
  <2>3. f \in [1..k -> below]
    <3> SUFFICES ASSUME NEW i \in 1..k
                 PROVE  t[i] \in below
      OBVIOUS
    <3>1. i \in 1..Len(t) /\ i <= k
      BY <2>1
    <3>2. QED
      BY <1>2, <1>3, <3>1
  <2>4. f \in Surjection(1..k, below)
    BY <2>2, <2>3 DEF Surjection
  <2>5. f \in Injection(1..k, below)
    <3>1. \A i, j \in 1..k : t[i] = t[j] => i = j
      <4> SUFFICES ASSUME NEW i \in 1..k, NEW j \in 1..k, t[i] = t[j]
                   PROVE  i = j
        OBVIOUS
      <4>1. i \in 1..Len(t) /\ j \in 1..Len(t) /\ t[i] \in Nat
        BY <1>2, <2>1
      <4>2. i <= j /\ j <= i
        BY <1>3, <4>1
      <4>3. QED
        BY <4>1, <4>2
    <3>2. QED
      BY <2>3, <3>1 DEF Injection, IsInjective
  <2>6. IsFiniteSet(1..k) /\ Cardinality(1..k) = k
    BY <2>1, FS_Interval
  <2>7. Cardinality(below) = k
    <3> HIDE DEF f, below
    <3> QED
      BY <2>4, <2>5, <2>6, FS_Surjection
  <2>8. QED
    BY <2>7 DEF Rank
<1>5. \A k \in 1..Len(t) : k \in 1..Cardinality(S)
  BY <1>2, <1>4, RanksGrow
<1>6. Len(t) <= Cardinality(S)
  <2>1. CASE Len(t) = 0
    BY <1>1, <2>1
  <2>2. CASE Len(t) # 0
    <3>1. Len(t) \in 1..Len(t)
      BY <1>2, <2>2
    <3>2. QED
      BY <1>1, <1>5, <3>1
  <2>3. QED
    BY <2>1, <2>2
<1>7. \A k \in 1..Len(t) : Ascending(S)[k] = t[k]
  <2> SUFFICES ASSUME NEW k \in 1..Len(t)
               PROVE  Ascending(S)[k] = t[k]
    OBVIOUS
  <2>1. k \in 1..Cardinality(S)
    BY <1>5
  <2>2. Ascending(S)[k] \in S /\ Rank(S, Ascending(S)[k]) = k
    <3> DEFINE a == Ascending(S)
    <3>1. a \in Seq(S) /\ k \in DOMAIN a /\ Rank(S, a[k]) = k
      BY <2>1, AscendingIsSorted
    <3> HIDE DEF a
    <3>2. a[k] \in S
      BY <3>1, ElementOfSeq
    <3>3. QED
      BY <3>1, <3>2 DEF a
  <2>3. \A p, q \in S : Rank(S, p) = Rank(S, q) => p = q
    BY <2>1, EachRankOnce
  <2>4. QED
    BY <1>2, <1>4, <2>2, <2>3
<1>8. ASSUME \A q \in S : \E k \in DOMAIN t : t[k] = q
      PROVE  Len(t) = Cardinality(S)
  <2> DEFINE f == [i \in 1..Len(t) |-> t[i]]
  <2>1. f \in Surjection(1..Len(t), S)
    BY <1>2, <1>8 DEF Surjection
  <2>2. IsFiniteSet(1..Len(t)) /\ Cardinality(1..Len(t)) = Len(t)
    <3>1. Len(t) \in Nat
      BY <1>2
    <3> DEFINE m == Len(t)
    <3> HIDE DEF m
    <3>2. m \in Nat
      BY <3>1 DEF m
    <3>3. IsFiniteSet(1..m) /\ Cardinality(1..m) = m
      BY <3>2, FS_Interval
    <3>4. QED
      BY <3>3 DEF m
  <2>3. Cardinality(S) <= Len(t)
    <3> HIDE DEF f
    <3> QED
      BY <2>1, <2>2, FS_Surjection
  <2>4. QED
    BY <1>1, <1>2, <1>6, <2>3
<1>9. QED
  BY <1>2, <1>6, <1>7, <1>8

\* A set of numbers up to one is finite and, unless empty, has a least one.
LEMMA LeastOf ==
    ASSUME NEW S \in SUBSET Nat, IsFiniteSet(S), S # {}
    PROVE  \E p \in S : \A q \in S : p <= q
<1> DEFINE a == Ascending(S)
<1>1. Cardinality(S) \in Nat /\ Cardinality(S) # 0
  BY FS_CardinalityType, FS_EmptySet
<1>2. /\ a \in Seq(S) /\ DOMAIN a = 1..Cardinality(S) /\ Len(a) = Cardinality(S) /\ Ascends(a)
      /\ \A q \in S : \E n \in DOMAIN a : a[n] = q
  BY AscendingIsSorted
<1> HIDE DEF a
<1>3. 1 \in DOMAIN a
  BY <1>1, <1>2
<1>4. a[1] \in S
  BY <1>2, <1>3, ElementOfSeq
<1>5. \A q \in S : a[1] <= q
  <2> SUFFICES ASSUME NEW q \in S
               PROVE  a[1] <= q
    OBVIOUS
  <2>1. PICK n \in DOMAIN a : a[n] = q
    BY <1>2
  <2>2. n \in Nat /\ (n = 1 \/ 1 < n)
    BY <1>1, <1>2
  <2>3. n = 1 \/ a[1] < a[n]
    BY <1>3, <2>2, <1>2 DEF Ascends
  <2>4. a[1] \in Nat /\ q \in Nat
    BY <1>4
  <2>5. QED
    BY <2>1, <2>3, <2>4
<1>6. QED
  BY <1>4, <1>5

-----------------------------------------------------------------------------
(* Elements at some places *)

LEMMA PlacesAreFinite ==
    ASSUME NEW T, NEW s \in Seq(T), NEW places \in SUBSET DOMAIN s
    PROVE  places \in SUBSET Nat /\ IsFiniteSet(places)
<1>1. DOMAIN s = 1..Len(s) /\ Len(s) \in Nat
  BY ElementOfSeq
<1>2. IsFiniteSet(1..Len(s))
  BY <1>1, FS_Interval
<1>3. QED
  BY <1>1, <1>2, FS_Subset

\* The elements at some places of a list, and no others, in the list's order.
LEMMA PickedInOrder ==
    ASSUME NEW T, NEW s \in Seq(T), NEW places \in SUBSET DOMAIN s
    PROVE  /\ Picked(s, places) \in Seq(T)
           /\ Len(Picked(s, places)) = Cardinality(places)
           /\ DOMAIN Picked(s, places) = DOMAIN Ascending(places)
           /\ \A n \in DOMAIN Picked(s, places) :
                 /\ Ascending(places)[n] \in places
                 /\ Picked(s, places)[n] = s[Ascending(places)[n]]
           /\ ToSet(Picked(s, places)) = {s[i] : i \in places}
<1> DEFINE at == Ascending(places)
           picked == Picked(s, places)
<1>1. places \in SUBSET Nat /\ IsFiniteSet(places)
  BY PlacesAreFinite
<1>2. /\ at \in Seq(places) /\ Len(at) = Cardinality(places)
      /\ DOMAIN at = 1..Cardinality(places)
      /\ \A i \in places : \E n \in DOMAIN at : at[n] = i
  BY <1>1, AscendingIsSorted
<1>3. Cardinality(places) \in Nat
  BY <1>1, FS_CardinalityType
<1>4. picked = [n \in DOMAIN at |-> s[at[n]]]
  BY DEF Picked
<1> HIDE DEF at, picked
<1>5. \A n \in DOMAIN at : at[n] \in places
  BY <1>2, ElementOfSeq
<1>6. \A i \in DOMAIN s : s[i] \in T
  BY ElementOfSeq
<1>7. picked \in [1..Cardinality(places) -> T]
  BY <1>2, <1>4, <1>5, <1>6
<1>8. picked \in Seq(T) /\ Len(picked) = Cardinality(places)
  BY <1>3, <1>7
<1>9. ToSet(picked) = {s[i] : i \in places}
  BY <1>2, <1>4, <1>5 DEF ToSet
<1>10. QED
  BY <1>4, <1>5, <1>8, <1>9 DEF at, picked

-----------------------------------------------------------------------------
(* Without repetitions *)

\* Where the elements of a list occur first.
Firsts(s) == {i \in DOMAIN s : \A j \in 1..(i - 1) : s[j] # s[i]}

LEMMA FromKeysPicks ==
    ASSUME NEW T, NEW s \in Seq(T)
    PROVE  FromKeys(s) = Picked(s, Firsts(s))
<1>1. SubSeq(s, 1, Len(s)) = s /\ Len(s) \in Nat
  BY ElementOfSeq
<1>2. FirstOf(s, Len(s)) = s
  BY <1>1 DEF FirstOf
<1>3. FromKeys(s) = CHOOSE r \in {Picked(t, Firsts(t)) : t \in {s}} : TRUE
  BY <1>2 DEF FromKeys, FirstsBy, Once, Firsts
<1>4. QED
  BY <1>3

\* dict.fromkeys keeps each element of a list once, and the first in front.
LEMMA FromKeysIsUnique ==
    ASSUME NEW T, NEW s \in Seq(T)
    PROVE  /\ FromKeys(s) \in Seq(T)
           /\ IsInjective(FromKeys(s))
           /\ ToSet(FromKeys(s)) = ToSet(s)
           /\ s # <<>> => FromKeys(s) # <<>>
<1> DEFINE firsts == Firsts(s)
           at == Ascending(firsts)
           keys == FromKeys(s)
<1>1. /\ firsts \in SUBSET DOMAIN s
      /\ firsts \in SUBSET Nat /\ IsFiniteSet(firsts)
  <2>1. firsts \in SUBSET DOMAIN s
    BY DEF Firsts
  <2>2. QED
    BY <2>1, PlacesAreFinite
<1>2. /\ keys \in Seq(T) /\ Len(keys) = Cardinality(firsts) /\ DOMAIN keys = DOMAIN at
      /\ \A n \in DOMAIN keys : at[n] \in firsts /\ keys[n] = s[at[n]]
      /\ ToSet(keys) = {s[i] : i \in firsts}
  <2> HIDE DEF firsts
  <2>1. keys = Picked(s, firsts)
    BY FromKeysPicks DEF firsts
  <2> HIDE DEF keys, at
  <2>2. QED
    BY <1>1, <2>1, PickedInOrder DEF at
<1>3. DOMAIN s = 1..Len(s) /\ Len(s) \in Nat
  BY ElementOfSeq
<1>4. \A i, j \in firsts : s[i] = s[j] => i = j
  <2> SUFFICES ASSUME NEW i \in firsts, NEW j \in firsts, s[i] = s[j]
               PROVE  i = j
    OBVIOUS
  <2>1. i \in 1..Len(s) /\ j \in 1..Len(s)
    BY <1>3 DEF Firsts
  <2>2. i \notin 1..(j - 1) /\ j \notin 1..(i - 1)
    BY DEF Firsts
  <2>3. QED
    BY <1>3, <2>1, <2>2
<1>5. IsInjective(keys)
  <2>1. Ascends(at) /\ DOMAIN at = 1..Cardinality(firsts) /\ Cardinality(firsts) \in Nat
    <3> HIDE DEF firsts
    <3> QED
      BY <1>1, AscendingIsSorted, FS_CardinalityType
  <2> HIDE DEF keys, at, firsts
  <2> SUFFICES ASSUME NEW m \in DOMAIN keys, NEW n \in DOMAIN keys, keys[m] = keys[n]
               PROVE  m = n
    BY DEF IsInjective
  <2>2. at[m] = at[n] /\ at[m] \in Nat
    BY <1>1, <1>2, <1>4
  <2>3. ~(m < n) /\ ~(n < m)
    BY <1>2, <2>1, <2>2 DEF Ascends
  <2>4. QED
    BY <1>2, <2>1, <2>3
<1>6. \A i \in DOMAIN s : \E k \in firsts : s[k] = s[i]
  <2> SUFFICES ASSUME NEW i \in DOMAIN s
               PROVE  \E k \in firsts : s[k] = s[i]
    OBVIOUS
  <2> DEFINE same == {j \in DOMAIN s : s[j] = s[i]}
  <2>1. same \in SUBSET Nat /\ IsFiniteSet(same) /\ same # {}
    <3>1. same \in SUBSET DOMAIN s /\ i \in same
      OBVIOUS
    <3> HIDE DEF same
    <3>2. QED
      BY <3>1, PlacesAreFinite
  <2>2. PICK k \in same : \A j \in same : k <= j
    <3> HIDE DEF same
    <3> QED
      BY <2>1, LeastOf
  <2>3. k \in firsts
    <3> SUFFICES ASSUME NEW j \in 1..(k - 1), s[j] = s[k]
                 PROVE  FALSE
      BY DEF Firsts
    <3>1. k \in 1..Len(s)
      BY <1>3
    <3>2. j \in same /\ j \in Nat /\ j < k
      BY <1>3, <3>1
    <3>3. QED
      BY <2>2, <3>1, <3>2
  <2>4. QED
    BY <2>3
<1>7. ToSet(keys) = ToSet(s)
  <2> HIDE DEF keys
  <2>1. \A k \in firsts : k \in DOMAIN s
    BY DEF Firsts
  <2> HIDE DEF firsts
  <2>2. QED
    BY <1>2, <1>6, <2>1 DEF ToSet
<1>8. ASSUME s # <<>>
      PROVE  keys # <<>>
  <2> HIDE DEF keys
  <2>1. Len(s) # 0
    BY <1>3, <1>8
  <2>2. 1 \in DOMAIN s
    BY <1>3, <2>1
  <2>3. s[1] \in ToSet(keys)
    BY <1>7, <2>2 DEF ToSet
  <2>4. QED
    BY <2>3 DEF ToSet
<1>9. QED
  BY <1>2, <1>5, <1>7, <1>8 DEF keys

\* A list that starts with another has the latter's elements, each once, in front.
LEMMA FromKeysBegins ==
    ASSUME NEW T, NEW s \in Seq(T), NEW t \in Seq(T)
    PROVE  /\ Len(FromKeys(s)) = Cardinality(ToSet(s))
           /\ SubSeq(FromKeys(s \o t), 1, Cardinality(ToSet(s))) = FromKeys(s)
<1> DEFINE f == FromKeys(s)
           g == FromKeys(s \o t)
           atF == Ascending(Firsts(s))
           atG == Ascending(Firsts(s \o t))
<1>1. PICK both \in Seq(T) : both = s \o t
  BY ConcatProperties
<1>2. /\ DOMAIN s = 1..Len(s) /\ Len(s) \in Nat
      /\ DOMAIN both = 1..Len(both) /\ Len(both) \in Nat /\ Len(s) <= Len(both)
      /\ \A i \in DOMAIN s : both[i] = s[i]
  BY <1>1, ConcatProperties, LenProperties
<1>3. PICK firsts \in SUBSET DOMAIN s : firsts = Firsts(s)
  BY DEF Firsts
<1>4. PICK all \in SUBSET DOMAIN both : all = Firsts(both)
  BY DEF Firsts
<1>5. /\ f = Picked(s, firsts) /\ g = Picked(both, all)
      /\ atF = Ascending(firsts) /\ atG = Ascending(all)
  BY <1>1, <1>3, <1>4, FromKeysPicks
<1> HIDE DEF f, g, atF, atG
<1>6. /\ firsts \in SUBSET Nat /\ IsFiniteSet(firsts) /\ all \in SUBSET Nat /\ IsFiniteSet(all)
  BY PlacesAreFinite
<1>7. /\ f \in Seq(T) /\ Len(f) = Cardinality(firsts) /\ DOMAIN f = DOMAIN atF
      /\ \A n \in DOMAIN f : atF[n] \in firsts /\ f[n] = s[atF[n]]
      /\ g \in Seq(T) /\ Len(g) = Cardinality(all) /\ DOMAIN g = DOMAIN atG
      /\ \A n \in DOMAIN g : g[n] = both[atG[n]]
  BY <1>5, PickedInOrder
<1>8. firsts = {i \in all : i <= Len(s)}
  <2>1. ASSUME NEW i \in DOMAIN s
        PROVE  i \in firsts <=> i \in all
    <3>1. i \in DOMAIN both /\ \A j \in 1..(i - 1) : j \in DOMAIN s
      BY <1>2
    <3>2. QED
      BY <1>2, <1>3, <1>4, <3>1 DEF Firsts
  <2>2. QED
    BY <1>2, <2>1
<1>9. /\ atF \in Seq(firsts) /\ Ascends(atF) /\ Len(atF) = Cardinality(firsts)
      /\ \A p \in firsts : \E n \in DOMAIN atF : atF[n] = p
  BY <1>5, <1>6, AscendingIsSorted
<1>10. Cardinality(firsts) <= Cardinality(all) /\ \A k \in DOMAIN atF : atG[k] = atF[k]
  <2>1. atF \in Seq(all)
    BY <1>8, <1>9
  <2>2. \A k \in DOMAIN atF : atF[k] \in firsts
    BY <1>9, ElementOfSeq
  <2>3. ASSUME NEW q \in all
        PROVE  (\E k \in DOMAIN atF : atF[k] = q) \/ (\A k \in DOMAIN atF : atF[k] < q)
    <3>1. CASE q <= Len(s)
      BY <1>8, <1>9, <3>1
    <3>2. CASE ~(q <= Len(s))
      <4>1. \A p \in firsts : p \in Nat /\ p <= Len(s)
        BY <1>6, <1>8
      <4>2. q \in Nat
        BY <1>6
      <4>3. \A k \in DOMAIN atF : atF[k] < q
        BY <1>2, <2>2, <3>2, <4>1, <4>2
      <4>4. QED
        BY <4>3
    <3>3. QED
      BY <3>1, <3>2
  <2>4. QED
    BY <1>5, <1>6, <1>9, <2>1, <2>3, BeginsAscending
<1>11. /\ Len(f) \in Nat /\ Len(g) \in Nat /\ Len(f) <= Len(g)
       /\ DOMAIN f = 1..Len(f) /\ DOMAIN g = 1..Len(g)
  BY <1>7, <1>10, LenProperties
<1>12. \A k \in 1..Len(f) : g[k] = f[k]
  <2> SUFFICES ASSUME NEW k \in 1..Len(f)
               PROVE  g[k] = f[k]
    OBVIOUS
  <2>1. k \in DOMAIN f /\ k \in DOMAIN g
    BY <1>11
  <2>2. atF[k] \in DOMAIN s /\ f[k] = s[atF[k]] /\ g[k] = both[atG[k]] /\ atG[k] = atF[k]
    BY <1>7, <1>10, <2>1
  <2>3. QED
    BY <1>2, <2>2
<1>13. SubSeq(g, 1, Len(f)) = f
  BY <1>7, <1>11, <1>12, SubSeqProperties
<1>14. Cardinality(ToSet(s)) = Len(f)
  <2>1. IsInjective(f) /\ ToSet(f) = ToSet(s)
    BY FromKeysIsUnique DEF f
  <2>2. f \in [1..Len(f) -> ToSet(s)]
    <3>1. f \in [1..Len(f) -> T]
      BY <1>7, LenProperties
    <3>2. \A n \in 1..Len(f) : f[n] \in ToSet(s)
      BY <1>11, <2>1 DEF ToSet
    <3>3. QED
      BY <3>1, <3>2
  <2>3. /\ \A m, n \in 1..Len(f) : f[m] = f[n] => m = n
        /\ \A x \in ToSet(s) : \E n \in 1..Len(f) : f[n] = x
    BY <1>11, <2>1 DEF IsInjective, ToSet
  <2> DEFINE I == 1..Len(f)
  <2> HIDE DEF I
  <2>4. f \in Bijection(I, ToSet(s))
    <3>1. f \in Injection(I, ToSet(s))
      BY <2>1, <2>2 DEF I, Injection
    <3>2. f \in Surjection(I, ToSet(s))
      BY <2>2, <2>3 DEF I, Surjection
    <3>3. QED
      BY <3>1, <3>2 DEF Bijection
  <2>5. QED
    BY <1>11, <2>4, FS_CountingElements DEF ExistsBijection, I
<1>15. QED
  BY <1>13, <1>14 DEF f, g

\* A list without repetitions is kept as it is.
LEMMA FromKeysOfUnique ==
    ASSUME NEW T, NEW s \in Seq(T), IsInjective(s)
    PROVE  FromKeys(s) = s
<1>1. DOMAIN s = 1..Len(s) /\ Len(s) \in Nat
  BY LenProperties
<1>2. Firsts(s) = 1..Len(s)
  <2> SUFFICES ASSUME NEW i \in 1..Len(s), NEW j \in 1..(i - 1)
               PROVE  s[j] # s[i]
    BY <1>1 DEF Firsts
  <2>1. j \in DOMAIN s /\ j # i
    BY <1>1
  <2>2. QED
    BY <1>1, <2>1 DEF IsInjective
<1>3. PICK all \in SUBSET DOMAIN s : all = 1..Len(s)
  BY <1>1
<1>4. /\ FromKeys(s) = Picked(s, all) /\ all \in SUBSET Nat /\ IsFiniteSet(all)
  BY <1>2, <1>3, FromKeysPicks, PlacesAreFinite
<1>5. PICK t : t = [k \in 1..Len(s) |-> k]
  OBVIOUS
<1>6. /\ DOMAIN t = 1..Len(s) /\ t \in Seq(all)
      /\ \A k \in 1..Len(s) : t[k] = k
  BY <1>1, <1>3, <1>5
<1>7. \A k \in DOMAIN t : Ascending(all)[k] = t[k]
  BY <1>1, <1>3, <1>4, <1>6, BeginsAscending DEF Ascends
<1>8. /\ Picked(s, all) \in Seq(T) /\ Len(Picked(s, all)) = Cardinality(all)
      /\ \A n \in DOMAIN Picked(s, all) : Picked(s, all)[n] = s[Ascending(all)[n]]
  BY PickedInOrder
<1>9. Cardinality(all) = Len(s)
  <2>1. Len(s) \in Int /\ 1 \in Int /\ Len(s) - 1 + 1 = Len(s) /\ (1 > Len(s) => Len(s) = 0)
    BY <1>1
  <2>2. Cardinality(1..Len(s)) = IF 1 > Len(s) THEN 0 ELSE Len(s) - 1 + 1
    BY <2>1, FS_Interval
  <2>3. QED
    BY <1>3, <2>1, <2>2
<1>10. QED
  BY <1>1, <1>4, <1>6, <1>7, <1>8, <1>9

-----------------------------------------------------------------------------
(* Sums *)

\* What holds of 0 and of the next number up to a limit holds up to it.
LEMMA UpTo ==
    ASSUME NEW n \in Nat, NEW S, 0 \in S, \A k \in 0..n : k < n /\ k \in S => k + 1 \in S
    PROVE  0..n \subseteq S
<1> DEFINE bad == {k \in 0..n : k \notin S}
<1> SUFFICES ASSUME bad # {} PROVE FALSE
  OBVIOUS
<1>1. bad \in SUBSET Nat
  OBVIOUS
<1>2. IsFiniteSet(0..n)
  BY FS_Interval
<1>3. IsFiniteSet(bad)
  BY <1>2, FS_Subset
<1>4. PICK least \in bad : \A q \in bad : least <= q
  BY <1>1, <1>3, LeastOf
<1>5. least \in 0..n /\ least \notin S /\ least # 0
  OBVIOUS
<1>6. least - 1 \in 0..n /\ least - 1 < n /\ least - 1 \notin bad /\ (least - 1) + 1 = least
  BY <1>4, <1>5
<1>7. QED
  BY <1>5, <1>6

\* The sums of the parts of s, as FoldLeft makes them.
Fold(it, s, k) ==
    /\ it \in [SUBSET (1..k) -> Nat]
    /\ \A part \in SUBSET (1..k) :
          it[part] = IF part = {} THEN 0 ELSE it[part \ {Max(part)}] + s[Max(part)]

LEMMA NextFold ==
    ASSUME NEW s \in Seq(Nat), NEW k \in Nat, k + 1 <= Len(s), NEW it, Fold(it, s, k)
    PROVE  \E next : Fold(next, s, k + 1)
<1> DEFINE next == [part \in SUBSET (1..(k + 1)) |->
                       IF k + 1 \in part THEN it[part \ {k + 1}] + s[k + 1] ELSE it[part]]
<1>1. s[k + 1] \in Nat
  BY ElementOfSeq
<1>2. \A part \in SUBSET (1..(k + 1)) :
          /\ k + 1 \notin part => part \in SUBSET (1..k)
          /\ part \ {k + 1} \in SUBSET (1..k)
          /\ part \ {Max(part)} \in SUBSET (1..(k + 1))
          /\ k + 1 \notin part => part \ {Max(part)} \in SUBSET (1..k)
  <2> SUFFICES ASSUME NEW part \in SUBSET (1..(k + 1))
               PROVE  /\ k + 1 \notin part => part \in SUBSET (1..k)
                      /\ part \ {k + 1} \in SUBSET (1..k)
                      /\ part \ {Max(part)} \in SUBSET (1..(k + 1))
                      /\ k + 1 \notin part => part \ {Max(part)} \in SUBSET (1..k)
    OBVIOUS
  <2>1. \A q \in part : q \in 1..(k + 1) /\ (q # k + 1 => q \in 1..k)
    OBVIOUS
  <2>2. PICK most : most = Max(part)
    OBVIOUS
  <2>3. QED
    BY <2>1, <2>2
<1>3. next \in [SUBSET (1..(k + 1)) -> Nat]
  <2>1. \A part \in SUBSET (1..(k + 1)) :
            (IF k + 1 \in part THEN it[part \ {k + 1}] + s[k + 1] ELSE it[part]) \in Nat
    BY <1>1, <1>2 DEF Fold
  <2>2. QED
    BY <2>1
<1>4. ASSUME NEW part \in SUBSET (1..(k + 1))
      PROVE  next[part] = IF part = {} THEN 0 ELSE next[part \ {Max(part)}] + s[Max(part)]
  <2>1. CASE k + 1 \in part
    <3>1. Max(part) = k + 1
      <4>1. \A q \in part : q \in Nat /\ q <= k + 1
        OBVIOUS
      <4>2. \A q \in part : k + 1 >= q
        BY <4>1
      <4>3. \A q \in part : q >= k + 1 => q = k + 1
        BY <4>1
      <4>4. QED
        BY <2>1, <4>2, <4>3, Zenon DEF Max
    <3>2. next[part] = it[part \ {k + 1}] + s[k + 1]
      BY <2>1
    <3>3. next[part \ {k + 1}] = it[part \ {k + 1}]
      BY <1>2
    <3>4. QED
      BY <2>1, <3>1, <3>2, <3>3
  <2>2. CASE k + 1 \notin part
    <3>1. next[part] = it[part]
      BY <2>2
    <3>2. next[part \ {Max(part)}] = it[part \ {Max(part)}]
      BY <1>2, <2>2
    <3>3. QED
      BY <1>2, <2>2, <3>1, <3>2 DEF Fold
  <2>3. QED
    BY <2>1, <2>2
<1>5. Fold(next, s, k + 1)
  BY <1>3, <1>4 DEF Fold
<1>6. QED
  BY <1>5

LEMMA FoldExists ==
    ASSUME NEW s \in Seq(Nat)
    PROVE  \E it : Fold(it, s, Len(s))
<1> DEFINE S == {k \in Nat : \E it : Fold(it, s, k)}
<1>1. Len(s) \in Nat
  BY LenProperties
<1>2. 0 \in S
  <2>1. SUBSET (1..0) = {{}}
    OBVIOUS
  <2>2. Fold([part \in {{}} |-> 0], s, 0)
    BY <2>1 DEF Fold
  <2>3. QED
    BY <2>2
<1>3. \A k \in 0..Len(s) : k < Len(s) /\ k \in S => k + 1 \in S
  BY <1>1, NextFold
<1>4. 0..Len(s) \subseteq S
  BY <1>1, <1>2, <1>3, UpTo
<1>5. QED
  BY <1>1, <1>4

\* Total adds up one after another.
Sums(p, s) ==
    /\ p \in [0..Len(s) -> Nat] /\ p[0] = 0
    /\ \A k \in 1..Len(s) : p[k] = p[k - 1] + s[k]

LEMMA TotalIsSum ==
    ASSUME NEW s \in Seq(Nat)
    PROVE  \E p : Sums(p, s) /\ Total(s) = p[Len(s)]
<1> DEFINE F(it) == [part \in SUBSET DOMAIN s |->
                        IF part = {} THEN 0 ELSE it[part \ {Max(part)}] + s[Max(part)]]
           it == CHOOSE f : f = F(f)
<1>1. Len(s) \in Nat /\ DOMAIN s = 1..Len(s)
  BY LenProperties
<1>2. \E f : f = F(f)
  <2>1. PICK f : Fold(f, s, Len(s))
    BY FoldExists
  <2>2. f = F(f)
    BY <1>1, <2>1 DEF Fold
  <2>3. QED
    BY <2>2
<1>3. it = F(it)
  BY <1>2
<1>4. Total(s) = it[DOMAIN s]
  BY DEF Total, FoldLeft, MapThenFoldSet
<1> HIDE DEF it
<1>5. it[{}] = 0
  BY <1>3
<1>6. \A k \in 1..Len(s) : it[1..k] = it[1..(k - 1)] + s[k]
  <2> SUFFICES ASSUME NEW k \in 1..Len(s) PROVE it[1..k] = it[1..(k - 1)] + s[k]
    OBVIOUS
  <2>1. 1..k \in SUBSET DOMAIN s /\ 1..k # {} /\ k \in 1..k
    BY <1>1
  <2>2. Max(1..k) = k
    BY DEF Max
  <2>3. (1..k) \ {k} = 1..(k - 1)
    BY <1>1
  <2>4. QED
    BY <1>3, <2>1, <2>2, <2>3
<1> DEFINE p == [k \in 0..Len(s) |-> it[1..k]]
<1>7. p[0] = 0
  <2>1. 1..0 = {}
    OBVIOUS
  <2>2. QED
    BY <1>1, <1>5, <2>1
<1>8. \A k \in 1..Len(s) : p[k] = p[k - 1] + s[k]
  BY <1>1, <1>6
<1>9. p \in [0..Len(s) -> Nat]
  <2> DEFINE S == {k \in 0..Len(s) : p[k] \in Nat}
  <2>1. 0 \in S
    BY <1>1, <1>7
  <2>2. \A k \in 0..Len(s) : k < Len(s) /\ k \in S => k + 1 \in S
    <3> SUFFICES ASSUME NEW k \in 0..Len(s), k < Len(s), p[k] \in Nat
                 PROVE  k + 1 \in 0..Len(s) /\ p[k + 1] \in Nat
      OBVIOUS
    <3>1. k + 1 \in 1..Len(s) /\ (k + 1) - 1 = k
      BY <1>1
    <3>2. s[k + 1] \in Nat
      BY <3>1, ElementOfSeq
    <3>3. p[k + 1] = p[k] + s[k + 1]
      BY <1>8, <3>1
    <3>4. QED
      BY <3>1, <3>2, <3>3, <1>1
  <2> HIDE DEF S
  <2>3. 0..Len(s) \subseteq S
    BY <1>1, <2>1, <2>2, UpTo
  <2> USE DEF S
  <2>4. QED
    BY <2>3
<1>10. p[Len(s)] = it[DOMAIN s]
  BY <1>1
<1>11. QED
  BY <1>4, <1>7, <1>8, <1>9, <1>10 DEF Sums

\* Two accounts of one sum agree.
LEMMA SumsAreOne ==
    ASSUME NEW s \in Seq(Nat), NEW p, NEW q, Sums(p, s), NEW m \in 0..Len(s),
           q[0] = p[0], \A k \in 1..m : q[k] = q[k - 1] + s[k]
    PROVE  \A k \in 0..m : q[k] = p[k]
<1> DEFINE S == {k \in 0..m : q[k] = p[k]}
<1>1. Len(s) \in Nat /\ m \in Nat /\ m <= Len(s)
  BY LenProperties
<1>2. 0 \in S
  BY <1>1
<1>3. \A k \in 0..m : k < m /\ k \in S => k + 1 \in S
  <2> SUFFICES ASSUME NEW k \in 0..m, k < m, q[k] = p[k]
               PROVE  k + 1 \in 0..m /\ q[k + 1] = p[k + 1]
    OBVIOUS
  <2>1. k + 1 \in 1..m /\ k + 1 \in 1..Len(s) /\ (k + 1) - 1 = k
    BY <1>1
  <2>2. q[k + 1] = q[k] + s[k + 1] /\ p[k + 1] = p[k] + s[k + 1]
    BY <2>1 DEF Sums
  <2>3. QED
    BY <2>1, <2>2
<1> HIDE DEF S
<1>4. 0..m \subseteq S
  BY <1>1, <1>2, <1>3, UpTo
<1>5. QED
  BY <1>4 DEF S

LEMMA TotalOfNone == Total(<<>>) = 0
<1>1. <<>> \in Seq(Nat) /\ Len(<<>>) = 0
  OBVIOUS
<1>2. QED
  BY <1>1, TotalIsSum DEF Sums

LEMMA TotalIsNat ==
    ASSUME NEW s \in Seq(Nat)
    PROVE  Total(s) \in Nat
<1>1. PICK p : Sums(p, s) /\ Total(s) = p[Len(s)]
  BY TotalIsSum
<1>2. Len(s) \in 0..Len(s)
  BY LenProperties
<1>3. QED
  BY <1>1, <1>2 DEF Sums

\* The sum of two lists, one after the other.
LEMMA TotalOfBoth ==
    ASSUME NEW s \in Seq(Nat), NEW t \in Seq(Nat)
    PROVE  Total(s \o t) = Total(s) + Total(t)
<1> DEFINE m == Len(s)  n == Len(t)
<1>1. /\ s \o t \in Seq(Nat) /\ m \in Nat /\ n \in Nat /\ Len(s \o t) = m + n
      /\ \A k \in 1..m : (s \o t)[k] = s[k]
      /\ \A k \in 1..n : (s \o t)[m + k] = t[k]
      /\ \A k \in 1..n : t[k] \in Nat
  BY ConcatProperties, LenProperties, ElementOfSeq
<1>2. PICK p : Sums(p, s) /\ Total(s) = p[m]
  BY TotalIsSum
<1>3. PICK q : Sums(q, t) /\ Total(t) = q[n]
  BY TotalIsSum
<1>4. PICK r : Sums(r, s \o t) /\ Total(s \o t) = r[m + n]
  BY <1>1, TotalIsSum
<1>5. m \in 0..m /\ p[m] \in Nat
  BY <1>1, <1>2 DEF Sums
<1>6. r[m] = p[m]
  <2>1. \A k \in 1..m : r[k] = r[k - 1] + s[k]
    <3> SUFFICES ASSUME NEW k \in 1..m PROVE r[k] = r[k - 1] + s[k]
      OBVIOUS
    <3>1. k \in 1..Len(s \o t) /\ (s \o t)[k] = s[k]
      BY <1>1
    <3>2. QED
      BY <1>4, <3>1 DEF Sums
  <2>2. r[0] = p[0]
    BY <1>2, <1>4 DEF Sums
  <2>3. \A k \in 0..m : r[k] = p[k]
    BY <1>2, <1>5, <2>1, <2>2, SumsAreOne
  <2>4. QED
    BY <1>5, <2>3
<1>7. r[m + n] = p[m] + q[n]
  <2> DEFINE later == [k \in 0..n |-> p[m] + q[k]]
             S == {k \in 0..n : r[m + k] = p[m] + q[k]}
  <2>1. 0 \in S
    BY <1>1, <1>3, <1>5, <1>6 DEF Sums
  <2>2. \A k \in 0..n : k < n /\ k \in S => k + 1 \in S
    <3> SUFFICES ASSUME NEW k \in 0..n, k < n, r[m + k] = p[m] + q[k]
                 PROVE  k + 1 \in 0..n /\ r[m + (k + 1)] = p[m] + q[k + 1]
      OBVIOUS
    <3>1. /\ k + 1 \in 1..n /\ (k + 1) - 1 = k /\ k \in 0..n
          /\ m + (k + 1) \in 1..(m + n) /\ (m + (k + 1)) - 1 = m + k
      BY <1>1
    <3>2. q[k + 1] = q[k] + t[k + 1] /\ q[k] \in Nat
      BY <1>3, <3>1 DEF Sums
    <3>3. (s \o t)[m + (k + 1)] = t[k + 1] /\ t[k + 1] \in Nat
      BY <1>1, <3>1
    <3>4. r[m + (k + 1)] = r[m + k] + t[k + 1]
      BY <1>1, <1>4, <3>1, <3>3 DEF Sums
    <3>5. QED
      BY <1>5, <3>1, <3>2, <3>3, <3>4
  <2> HIDE DEF S
  <2>3. 0..n \subseteq S
    BY <1>1, <2>1, <2>2, UpTo
  <2>4. n \in S
    BY <1>1, <2>3
  <2>5. QED
    BY <2>4 DEF S
<1>8. QED
  BY <1>2, <1>3, <1>4, <1>7

LEMMA TotalOfOne ==
    ASSUME NEW n \in Nat
    PROVE  Total(<<n>>) = n
<1>1. <<n>> \in Seq(Nat) /\ Len(<<n>>) = 1 /\ <<n>>[1] = n
  OBVIOUS
<1>2. PICK p : Sums(p, <<n>>) /\ Total(<<n>>) = p[1]
  BY <1>1, TotalIsSum
<1>3. p[1] = p[1 - 1] + n /\ p[0] = 0
  BY <1>1, <1>2 DEF Sums
<1>4. QED
  BY <1>2, <1>3

\* One more chunk.
LEMMA TotalOfNext ==
    ASSUME NEW s \in Seq(Nat), NEW k \in Nat, k < Len(s)
    PROVE  Total(SubSeq(s, 1, k + 1)) = Total(SubSeq(s, 1, k)) + s[k + 1]
<1> DEFINE head == SubSeq(s, 1, k)
<1>1. Len(s) \in Nat /\ s[k + 1] \in Nat
  BY LenProperties, ElementOfSeq
<1>2. head \in Seq(Nat) /\ <<s[k + 1]>> \in Seq(Nat)
  BY <1>1
<1>3. SubSeq(s, 1, k + 1) = head \o <<s[k + 1]>>
  BY <1>1
<1>4. QED
  BY <1>1, <1>2, <1>3, TotalOfBoth, TotalOfOne

-----------------------------------------------------------------------------
(* Lists of lists *)

\* FlattenSeq has the elements of all lists, and no others.
Pieces(f, ss, k) == f = [i \in 1..k |-> IF i = 1 THEN ss[i] ELSE f[i - 1] \o ss[i]]

LEMMA PiecesExist ==
    ASSUME NEW ss, Len(ss) \in Nat
    PROVE  \E f : Pieces(f, ss, Len(ss))
<1> DEFINE S == {k \in Nat : \E f : Pieces(f, ss, k)}
<1>1. 0 \in S
  <2>1. Pieces([i \in 1..0 |-> 0], ss, 0)
    BY DEF Pieces
  <2>2. QED
    BY <2>1
<1>2. ASSUME NEW k \in Nat, NEW f, Pieces(f, ss, k)
      PROVE  \E g : Pieces(g, ss, k + 1)
  <2> DEFINE g == [i \in 1..(k + 1) |-> IF i = k + 1
                      THEN IF i = 1 THEN ss[i] ELSE f[k] \o ss[i] ELSE f[i]]
  <2>1. ASSUME NEW i \in 1..(k + 1)
        PROVE  g[i] = IF i = 1 THEN ss[i] ELSE g[i - 1] \o ss[i]
    <3>1. CASE i = k + 1
      <4>1. i # 1 => i - 1 = k /\ k \in 1..(k + 1) /\ k # k + 1
        BY <3>1
      <4>2. i # 1 => g[i - 1] = f[k]
        BY <4>1
      <4>3. QED
        BY <3>1, <4>2
    <3>2. CASE i # k + 1
      <4>1. i \in 1..k
        BY <3>2
      <4>2. i # 1 => i - 1 \in 1..(k + 1) /\ i - 1 # k + 1
        BY <4>1
      <4>3. f[i] = IF i = 1 THEN ss[i] ELSE f[i - 1] \o ss[i]
        BY <1>2, <4>1 DEF Pieces
      <4>4. g[i] = f[i] /\ (i # 1 => g[i - 1] = f[i - 1])
        BY <3>2, <4>2
      <4>5. QED
        BY <4>3, <4>4
    <3>3. QED
      BY <3>1, <3>2
  <2>2. Pieces(g, ss, k + 1)
    BY <2>1, Zenon DEF Pieces
  <2>3. QED
    BY <2>2
<1>3. \A k \in 0..Len(ss) : k < Len(ss) /\ k \in S => k + 1 \in S
  BY <1>2
<1> HIDE DEF S
<1>4. 0..Len(ss) \subseteq S
  BY <1>1, <1>3, UpTo
<1>5. Len(ss) \in S
  BY <1>4
<1>6. QED
  BY <1>5 DEF S

LEMMA FlattenHasPieces ==
    ASSUME NEW T, NEW ss \in Seq(Seq(T)), ss # <<>>
    PROVE  \E f : Pieces(f, ss, Len(ss)) /\ FlattenSeq(ss) = f[Len(ss)]
<1> DEFINE F(f) == [i \in 1..Len(ss) |-> IF i = 1 THEN ss[i] ELSE f[i - 1] \o ss[i]]
           f == CHOOSE g : g = F(g)
<1>1. Len(ss) \in Nat /\ Len(ss) # 0
  BY LenProperties, EmptySeq
<1>2. f = F(f)
  BY <1>1, PiecesExist DEF Pieces
<1>3. FlattenSeq(ss) = f[Len(ss)]
  BY <1>1 DEF FlattenSeq
<1> HIDE DEF f
<1>4. Pieces(f, ss, Len(ss))
  BY <1>2 DEF Pieces
<1>5. QED
  BY <1>3, <1>4

\* A list of elements of a set has that set's elements and nothing else.
LEMMA SeqOfItsElements ==
    ASSUME NEW T, NEW U, NEW s \in Seq(T), ToSet(s) \subseteq U
    PROVE  s \in Seq(U)
<1>1. Len(s) \in Nat /\ s \in [1..Len(s) -> T] /\ DOMAIN s = 1..Len(s)
  BY LenProperties
<1>2. \A i \in 1..Len(s) : s[i] \in U
  BY <1>1 DEF ToSet
<1>3. s \in [1..Len(s) -> U]
  BY <1>1, <1>2
<1>4. QED
  BY <1>1, <1>3

\* The elements of two lists, one after the other.
LEMMA ToSetOfBoth ==
    ASSUME NEW T, NEW s \in Seq(T), NEW t \in Seq(T)
    PROVE  ToSet(s \o t) = ToSet(s) \cup ToSet(t)
<1>1. /\ Len(s) \in Nat /\ Len(t) \in Nat /\ DOMAIN s = 1..Len(s) /\ DOMAIN t = 1..Len(t)
      /\ s \o t \in Seq(T) /\ DOMAIN (s \o t) = 1..(Len(s) + Len(t))
      /\ \A k \in 1..Len(s) : (s \o t)[k] = s[k]
      /\ \A k \in 1..Len(t) : (s \o t)[Len(s) + k] = t[k]
  BY ConcatProperties, LenProperties
<1>2. ASSUME NEW k \in DOMAIN (s \o t)
      PROVE  (s \o t)[k] \in ToSet(s) \cup ToSet(t)
  <2>1. CASE k \in DOMAIN s
    BY <1>1, <2>1 DEF ToSet
  <2>2. CASE k \notin DOMAIN s
    <3>1. k - Len(s) \in 1..Len(t) /\ Len(s) + (k - Len(s)) = k
      BY <1>1, <2>2
    <3>2. (s \o t)[k] = t[k - Len(s)]
      BY <1>1, <3>1
    <3>3. QED
      BY <1>1, <3>1, <3>2 DEF ToSet
  <2>3. QED
    BY <2>1, <2>2
<1>3. ASSUME NEW k \in DOMAIN s
      PROVE  s[k] \in ToSet(s \o t)
  BY <1>1 DEF ToSet
<1>4. ASSUME NEW k \in DOMAIN t
      PROVE  t[k] \in ToSet(s \o t)
  <2>1. Len(s) + k \in DOMAIN (s \o t)
    BY <1>1
  <2>2. QED
    BY <1>1, <2>1 DEF ToSet
<1>5. QED
  BY <1>2, <1>3, <1>4 DEF ToSet

LEMMA FlattenedElements ==
    ASSUME NEW T, NEW ss \in Seq(Seq(T))
    PROVE  /\ FlattenSeq(ss) \in Seq(T)
           /\ ToSet(FlattenSeq(ss)) = UNION {ToSet(ss[i]) : i \in DOMAIN ss}
<1>1. CASE ss = <<>>
  BY <1>1 DEF FlattenSeq, ToSet
<1>2. CASE ss # <<>>
  <2>1. PICK f : Pieces(f, ss, Len(ss)) /\ FlattenSeq(ss) = f[Len(ss)]
    BY <1>2, FlattenHasPieces
  <2>2. Len(ss) \in Nat /\ Len(ss) >= 1 /\ \A i \in 1..Len(ss) : ss[i] \in Seq(T)
    BY <1>2, LenProperties, EmptySeq, ElementOfSeq
  <2> DEFINE S == {k \in Nat : k + 1 <= Len(ss) =>
                      /\ f[k + 1] \in Seq(T)
                      /\ ToSet(f[k + 1]) = UNION {ToSet(ss[i]) : i \in 1..(k + 1)}}
  <2>3. 0 \in S
    <3>1. 1 \in 1..Len(ss)
      BY <2>2
    <3>2. f[1] = ss[1] /\ ss[1] \in Seq(T)
      BY <2>1, <2>2, <3>1 DEF Pieces
    <3>3. 1..(0 + 1) = {1}
      OBVIOUS
    <3>4. UNION {ToSet(ss[i]) : i \in 1..(0 + 1)} = ToSet(ss[1])
      BY <3>3
    <3>5. 0 + 1 = 1
      OBVIOUS
    <3>6. QED
      BY <3>2, <3>4, <3>5
  <2>4. \A k \in 0..Len(ss) : k < Len(ss) /\ k \in S => k + 1 \in S
    <3> SUFFICES ASSUME NEW k \in 0..Len(ss), k < Len(ss), k \in S, (k + 1) + 1 <= Len(ss)
                 PROVE  /\ f[(k + 1) + 1] \in Seq(T)
                        /\ ToSet(f[(k + 1) + 1]) = UNION {ToSet(ss[i]) : i \in 1..((k + 1) + 1)}
      <4>1. \A k \in Nat : k + 1 \in Nat
        OBVIOUS
      <4>2. QED
        BY <2>2, <4>1
    <3> DEFINE n == (k + 1) + 1
    <3>1. n \in 1..Len(ss) /\ n # 1 /\ n - 1 = k + 1 /\ k + 1 <= Len(ss)
      BY <2>2
    <3>2. f[n] = f[k + 1] \o ss[n] /\ ss[n] \in Seq(T)
      BY <2>1, <2>2, <3>1 DEF Pieces
    <3>3. f[k + 1] \in Seq(T) /\ ToSet(f[k + 1]) = UNION {ToSet(ss[i]) : i \in 1..(k + 1)}
      BY <3>1
    <3>4. f[n] \in Seq(T) /\ ToSet(f[n]) = ToSet(f[k + 1]) \cup ToSet(ss[n])
      <4>1. ToSet(f[k + 1] \o ss[n]) = ToSet(f[k + 1]) \cup ToSet(ss[n])
        BY <3>2, <3>3, ToSetOfBoth
      <4>2. QED
        BY <3>2, <3>3, <4>1, ConcatProperties
    <3>5. 1..n = (1..(k + 1)) \cup {n}
      BY <3>1
    <3>6. QED
      BY <3>3, <3>4, <3>5
  <2> HIDE DEF S
  <2>5. 0..Len(ss) \subseteq S
    BY <2>2, <2>3, <2>4, UpTo
  <2>6. Len(ss) - 1 \in 0..Len(ss) /\ (Len(ss) - 1) + 1 = Len(ss) /\ DOMAIN ss = 1..Len(ss)
    BY <2>2, LenProperties
  <2>61. Len(ss) - 1 \in S
    BY <2>5, <2>6
  <2>7. QED
    BY <2>1, <2>2, <2>6, <2>61 DEF S
<1>3. QED
  BY <1>1, <1>2

-----------------------------------------------------------------------------
(* Sorting down *)

\* Each place of the keys comes at a place of its own, the greater keys first.
LEMMA PlacesAreOrdered ==
    ASSUME NEW keys \in Seq(Nat)
    PROVE  /\ \A i \in DOMAIN keys : Place(keys, i) \in DOMAIN keys
           /\ \A i, j \in DOMAIN keys : keys[j] > keys[i] \/ (keys[j] = keys[i] /\ j < i) =>
                 Place(keys, j) < Place(keys, i)
<1> DEFINE Before(i) == {j \in DOMAIN keys : keys[j] > keys[i] \/ (keys[j] = keys[i] /\ j <= i)}
<1>1. Len(keys) \in Nat /\ DOMAIN keys = 1..Len(keys) /\ \A i \in DOMAIN keys : keys[i] \in Nat
  BY LenProperties, ElementOfSeq
<1>2. IsFiniteSet(DOMAIN keys) /\ Cardinality(DOMAIN keys) = Len(keys)
  <2>1. PICK n : n = Len(keys)
    OBVIOUS
  <2>2. n \in Nat /\ n \in Int /\ 1 \in Int
    BY <1>1, <2>1
  <2>3. IsFiniteSet(1..n) /\ Cardinality(1..n) = IF 1 > n THEN 0 ELSE n - 1 + 1
    BY <2>2, FS_Interval
  <2>4. IsFiniteSet(1..n) /\ Cardinality(1..n) = n
    BY <2>2, <2>3
  <2>5. QED
    BY <1>1, <2>1, <2>4
<1>3. \A i \in DOMAIN keys : i \in Before(i)
  BY <1>1
<1>4. \A i \in DOMAIN keys : /\ Before(i) \in SUBSET DOMAIN keys
                             /\ Place(keys, i) = Cardinality(Before(i))
  BY DEF Place
<1>5. ASSUME NEW i \in DOMAIN keys, NEW j \in DOMAIN keys,
             keys[j] > keys[i] \/ (keys[j] = keys[i] /\ j < i)
      PROVE  Before(j) \subseteq Before(i) /\ i \notin Before(j)
  <2>1. keys[i] \in Nat /\ keys[j] \in Nat /\ i \in Nat /\ j \in Nat
    BY <1>1
  <2>2. i \notin Before(j)
    BY <1>5, <2>1
  <2>3. ASSUME NEW k \in Before(j) PROVE k \in Before(i)
    <3>1. keys[k] \in Nat /\ k \in Nat /\ k \in DOMAIN keys
      BY <1>1
    <3>2. keys[k] > keys[j] \/ (keys[k] = keys[j] /\ k <= j)
      OBVIOUS
    <3>3. keys[k] > keys[i] \/ (keys[k] = keys[i] /\ k <= i)
      BY <1>5, <2>1, <3>1, <3>2
    <3>4. QED
      BY <3>1, <3>3
  <2>4. QED
    BY <2>2, <2>3
<1> HIDE DEF Before
<1>6. \A i \in DOMAIN keys : IsFiniteSet(Before(i)) /\ Cardinality(Before(i)) \in 1..Len(keys)
  <2> SUFFICES ASSUME NEW i \in DOMAIN keys
               PROVE  IsFiniteSet(Before(i)) /\ Cardinality(Before(i)) \in 1..Len(keys)
    OBVIOUS
  <2>1. IsFiniteSet(Before(i)) /\ Cardinality(Before(i)) <= Len(keys)
    BY <1>2, <1>4, FS_Subset
  <2>2. Cardinality(Before(i)) \in Nat /\ Cardinality(Before(i)) # 0
    BY <1>3, <2>1, FS_CardinalityType, FS_EmptySet
  <2>3. QED
    BY <1>1, <2>1, <2>2
<1>7. ASSUME NEW i \in DOMAIN keys, NEW j \in DOMAIN keys,
             keys[j] > keys[i] \/ (keys[j] = keys[i] /\ j < i)
      PROVE  Place(keys, j) < Place(keys, i)
  <2>1. /\ Before(j) \in SUBSET Before(i) /\ Before(j) # Before(i) /\ IsFiniteSet(Before(i))
        /\ Cardinality(Before(j)) \in Nat /\ Cardinality(Before(i)) \in Nat
    BY <1>3, <1>5, <1>6, <1>7
  <2>2. /\ Cardinality(Before(j)) <= Cardinality(Before(i))
        /\ Cardinality(Before(i)) # Cardinality(Before(j))
    BY <2>1, FS_Subset
  <2>3. Cardinality(Before(j)) < Cardinality(Before(i))
    BY <2>1, <2>2
  <2>4. QED
    BY <1>4, <2>3
<1>8. QED
  BY <1>1, <1>4, <1>6, <1>7

\* The places, the greatest keys first.
LEMMA DescendingPlaces ==
    ASSUME NEW keys \in Seq(Nat)
    PROVE  /\ Descending(keys) \in [DOMAIN keys -> DOMAIN keys]
           /\ \A i \in DOMAIN keys : \E n \in DOMAIN keys : Descending(keys)[n] = i
           /\ \A m, n \in DOMAIN keys : m # n => Descending(keys)[m] # Descending(keys)[n]
           /\ \A m, n \in DOMAIN keys :
                 m < n => keys[Descending(keys)[m]] >= keys[Descending(keys)[n]]
<1> DEFINE at == Descending(keys)
           f == [i \in DOMAIN keys |-> Place(keys, i)]
<1>1. Len(keys) \in Nat /\ DOMAIN keys = 1..Len(keys) /\ \A i \in DOMAIN keys : keys[i] \in Nat
  BY LenProperties, ElementOfSeq
<1>2. IsFiniteSet(DOMAIN keys)
  BY <1>1, FS_Interval
<1>grow. /\ \A i, j \in DOMAIN keys : keys[j] > keys[i] => Place(keys, j) < Place(keys, i)
      /\ \A i, j \in DOMAIN keys : keys[j] = keys[i] /\ j < i => Place(keys, j) < Place(keys, i)
  <2>1. \A i, j \in DOMAIN keys : keys[j] > keys[i] \/ (keys[j] = keys[i] /\ j < i) =>
                 Place(keys, j) < Place(keys, i)
    BY PlacesAreOrdered
  <2>2. QED
    BY <2>1, Zenon
<1>3. \A i, j \in DOMAIN keys : Place(keys, i) = Place(keys, j) => i = j
  <2> SUFFICES ASSUME NEW i \in DOMAIN keys, NEW j \in DOMAIN keys, i # j
               PROVE  Place(keys, i) # Place(keys, j)
    OBVIOUS
  <2>1. keys[i] \in Nat /\ keys[j] \in Nat /\ i \in Nat /\ j \in Nat
    BY <1>1
  <2>2. Place(keys, i) \in DOMAIN keys /\ Place(keys, j) \in DOMAIN keys
    BY PlacesAreOrdered
  <2>3. Place(keys, i) \in Nat /\ Place(keys, j) \in Nat
    BY <1>1, <2>2
  <2>4. CASE i < j
    <3>1. keys[j] > keys[i] \/ keys[i] > keys[j] \/ keys[i] = keys[j]
      BY <2>1
    <3>2. Place(keys, i) < Place(keys, j) \/ Place(keys, j) < Place(keys, i)
      BY <1>grow, <2>4, <3>1
    <3>3. QED
      BY <2>3, <3>2
  <2>5. CASE j < i
    <3>1. keys[j] > keys[i] \/ keys[i] > keys[j] \/ keys[j] = keys[i]
      BY <2>1
    <3>2. Place(keys, i) < Place(keys, j) \/ Place(keys, j) < Place(keys, i)
      BY <1>grow, <2>5, <3>1
    <3>3. QED
      BY <2>3, <3>2
  <2>6. QED
    BY <2>1, <2>4, <2>5
<1>4. f \in [DOMAIN keys -> DOMAIN keys]
  BY PlacesAreOrdered
<1>5. f \in Injection(DOMAIN keys, DOMAIN keys)
  BY <1>3, <1>4 DEF Injection, IsInjective
<1>6. f \in Surjection(DOMAIN keys, DOMAIN keys)
  <2> HIDE DEF f
  <2> QED
    BY <1>2, <1>5, FS_Injection
<1>7. \A n \in DOMAIN keys : \E i \in DOMAIN keys : Place(keys, i) = n
  BY <1>6 DEF Surjection
<1>8. \A n \in DOMAIN keys : at[n] \in DOMAIN keys /\ Place(keys, at[n]) = n
  BY <1>7 DEF Descending
<1>9. DOMAIN at = DOMAIN keys
  BY DEF Descending
<1>10. \A i \in DOMAIN keys : at[Place(keys, i)] = i /\ Place(keys, i) \in DOMAIN keys
  BY <1>3, <1>8, PlacesAreOrdered
<1>11. at \in [DOMAIN keys -> DOMAIN keys]
  BY <1>8, <1>9 DEF Descending
<1> HIDE DEF at
<1>12. ASSUME NEW m \in DOMAIN keys, NEW n \in DOMAIN keys, m < n
       PROVE  keys[at[m]] >= keys[at[n]]
  <2> SUFFICES ASSUME ~(keys[at[m]] >= keys[at[n]]) PROVE FALSE
    OBVIOUS
  <2>1. at[m] \in DOMAIN keys /\ at[n] \in DOMAIN keys /\ keys[at[m]] \in Nat /\ keys[at[n]] \in Nat
    BY <1>1, <1>8
  <2>2. keys[at[n]] > keys[at[m]]
    <3>1. \A p, q \in Nat : p >= q \/ q > p
      OBVIOUS
    <3>2. QED
      BY <2>1, <3>1
  <2>3. Place(keys, at[n]) < Place(keys, at[m])
    <3>1. PICK i \in DOMAIN keys : i = at[m]
      BY <2>1
    <3>2. PICK j \in DOMAIN keys : j = at[n]
      BY <2>1
    <3>3. keys[j] > keys[i]
      BY <2>2, <3>1, <3>2
    <3>4. Place(keys, j) < Place(keys, i)
      BY <1>grow, <3>3
    <3>5. QED
      BY <3>1, <3>2, <3>4
  <2>4. n < m /\ m \in Nat /\ n \in Nat
    BY <1>1, <1>8, <2>3
  <2>5. QED
    BY <1>12, <2>4
<1>13. QED
  BY <1>8, <1>10, <1>11, <1>12 DEF at

InOrder(s, keys) == [n \in DOMAIN s |-> s[Descending(keys)[n]]]

\* A list in the order of its keys has the same elements, each as often.
LEMMA SortedByKeys ==
    ASSUME NEW T, NEW s \in Seq(T), NEW keys \in Seq(Nat), Len(keys) = Len(s),
           NEW r, r = InOrder(s, keys)
    PROVE  /\ r \in Seq(T) /\ Len(r) = Len(s) /\ DOMAIN r = DOMAIN s
           /\ ToSet(r) = ToSet(s)
<1>1. /\ Len(s) \in Nat /\ DOMAIN s = 1..Len(s) /\ DOMAIN keys = DOMAIN s
      /\ \A i \in DOMAIN s : s[i] \in T
  BY LenProperties, ElementOfSeq
<1>2. \A n \in DOMAIN s : Descending(keys)[n] \in DOMAIN s /\ r[n] = s[Descending(keys)[n]]
  BY <1>1, DescendingPlaces DEF InOrder
<1>3. DOMAIN r = DOMAIN s
  BY DEF InOrder
<1>4. r \in [1..Len(s) -> T]
  BY <1>1, <1>2 DEF InOrder
<1>5. r \in Seq(T) /\ Len(r) = Len(s)
  BY <1>1, <1>4, SeqDef, LenProperties
<1>6. ToSet(r) \subseteq ToSet(s)
  BY <1>2, <1>3 DEF ToSet
<1>7. ASSUME NEW i \in DOMAIN s PROVE s[i] \in ToSet(r)
  <2>1. PICK n \in DOMAIN s : Descending(keys)[n] = i
    BY <1>1, DescendingPlaces
  <2>2. QED
    BY <1>2, <1>3, <2>1 DEF ToSet
<1>8. QED
  BY <1>1, <1>4, <1>5, <1>6, <1>7 DEF ToSet

\* The beginning of a list.
LEMMA FirstOfProperties ==
    ASSUME NEW T, NEW s \in Seq(T), NEW n \in Nat
    PROVE  /\ FirstOf(s, n) \in Seq(T)
           /\ Len(FirstOf(s, n)) = IF n < Len(s) THEN n ELSE Len(s)
           /\ DOMAIN FirstOf(s, n) \subseteq DOMAIN s
           /\ \A i \in DOMAIN FirstOf(s, n) : FirstOf(s, n)[i] = s[i]
<1>1. Len(s) \in Nat /\ DOMAIN s = 1..Len(s)
  BY LenProperties
<1>2. PICK m : m = IF n < Len(s) THEN n ELSE Len(s)
  OBVIOUS
<1>3. m \in Nat /\ m <= Len(s) /\ m \in Int /\ 1 \in Int
  <2>1. CASE n < Len(s)
    BY <1>1, <1>2, <2>1
  <2>2. CASE ~(n < Len(s))
    BY <1>1, <1>2, <2>2
  <2>3. QED
    BY <2>1, <2>2
<1>4. \A i \in 1..m : s[i] \in T /\ i \in DOMAIN s
  <2>1. ASSUME NEW i \in 1..m PROVE i \in 1..Len(s)
    <3>1. i \in Nat /\ 1 <= i /\ i <= m
      BY <1>3
    <3>2. QED
      BY <1>1, <1>3, <3>1
  <2>2. \A i \in 1..Len(s) : s[i] \in T
    BY ElementOfSeq
  <2>3. QED
    BY <1>1, <2>1, <2>2
<1>5. /\ SubSeq(s, 1, m) \in Seq(T) /\ Len(SubSeq(s, 1, m)) = IF 1 <= m THEN m - 1 + 1 ELSE 0
      /\ \A i \in 1..(m - 1 + 1) : SubSeq(s, 1, m)[i] = s[1 + i - 1]
  BY <1>3, <1>4, SubSeqProperties
<1>6. Len(SubSeq(s, 1, m)) = m /\ \A i \in 1..m : SubSeq(s, 1, m)[i] = s[i]
  BY <1>3, <1>5
<1>7. DOMAIN SubSeq(s, 1, m) = 1..m
  BY <1>5, <1>6, LenProperties
<1>8. FirstOf(s, n) = SubSeq(s, 1, m)
  BY <1>2 DEF FirstOf
<1>9. QED
  BY <1>2, <1>4, <1>5, <1>6, <1>7, <1>8

\* A list grows by one element.
LEMMA ListGrows ==
    ASSUME NEW s, s \in Seq(ToSet(s)), NEW x
    PROVE  /\ Append(s, x) \in Seq(ToSet(Append(s, x)))
           /\ ToSet(Append(s, x)) = ToSet(s) \cup {x}
<1> DEFINE T == ToSet(s) \cup {x}
<1>1. s \in Seq(T) /\ x \in T
  BY SeqOfItsElements
<1>2. /\ Append(s, x) \in Seq(T) /\ Len(Append(s, x)) = Len(s) + 1
      /\ \A i \in 1..Len(s) : Append(s, x)[i] = s[i]
      /\ Append(s, x)[Len(s) + 1] = x
  BY <1>1, AppendProperties
<1>3. /\ Len(s) \in Nat /\ DOMAIN s = 1..Len(s)
      /\ DOMAIN Append(s, x) = 1..(Len(s) + 1)
  BY <1>1, <1>2, LenProperties
<1>4. ToSet(Append(s, x)) = T
  <2>1. \A i \in 1..(Len(s) + 1) : i \in 1..Len(s) \/ i = Len(s) + 1
    BY <1>3
  <2>2. 1..Len(s) \subseteq 1..(Len(s) + 1) /\ Len(s) + 1 \in 1..(Len(s) + 1)
    BY <1>3
  <2>3. QED
    BY <1>2, <1>3, <2>1, <2>2 DEF ToSet
<1>5. QED
  BY <1>2, <1>4
=============================================================================

------------------------------ MODULE Ordering ------------------------------
(***************************************************************************)
(* What Python's lists do: sorted, comprehensions with a condition,        *)
(* dict.fromkeys, s[:n].                                                   *)
(***************************************************************************)
EXTENDS Naturals, Sequences, FiniteSets, SequencesExt

\* s[:n]
FirstOf(s, n) == SubSeq(s, 1, IF n < Len(s) THEN n ELSE Len(s))

\* F(s), with s evaluated once wherever TLC would evaluate it again and again.
Once(s, F(_)) == CHOOSE r \in {F(t) : t \in {FirstOf(s, Len(s))}} : TRUE

\* sum(s)
Total(s) == FoldLeft(LAMBDA sum, n : sum + n, 0, s)

\* Where each place of the keys comes when they are sorted down, equals in order.
Place(keys, i) ==
    Cardinality({j \in DOMAIN keys : keys[j] > keys[i] \/ (keys[j] = keys[i] /\ j <= i)})

Descending(keys) == [n \in DOMAIN keys |-> CHOOSE i \in DOMAIN keys : Place(keys, i) = n]

\* sorted(s, key=Key, reverse=True)
SortedDown(s, Key(_)) ==
    LET at == Descending([i \in DOMAIN s |-> Key(s[i])]) IN [n \in DOMAIN s |-> s[at[n]]]

IsSortedDown(s, Key(_)) == \A i, j \in DOMAIN s : i < j => Key(s[i]) >= Key(s[j])

\* sorted(S), of a set of numbers.
Ascending(S) ==
    [n \in 1..Cardinality(S) |-> CHOOSE p \in S : Cardinality({q \in S : q <= p}) = n]

\* [s[i] for i in range(len(s)) if i in places]
Picked(s, places) == LET at == Ascending(places) IN [n \in DOMAIN at |-> s[at[n]]]

\* [x for x in s if Test(x)]
Kept(s, Test(_)) == Picked(s, {i \in DOMAIN s : Test(s[i])})

\* The elements of s, in order, that are the first with their key.
FirstsBy(s, Key(_)) ==
    Once(s, LAMBDA t : Picked(t, {i \in DOMAIN t : \A j \in 1..(i - 1) : Key(t[j]) # Key(t[i])}))

\* list(dict.fromkeys(s))
FromKeys(s) == FirstsBy(s, LAMBDA x : x)
=============================================================================

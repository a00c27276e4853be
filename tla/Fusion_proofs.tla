---------------------------- MODULE Fusion_proofs ---------------------------
(***************************************************************************)
(* The digests and the feed, whatever the feeds and the models answer and  *)
(* whatever is saved and committed meanwhile: a saved CVE digest says what *)
(* the feeds said, a threat digest what every feed that answered said, and *)
(* the findings of the feed are the matches that either speaks of.         *)
(***************************************************************************)
EXTENDS Fusion, Ordering_proofs

(* The digests and the feed: types *)

IsList(s) == s \in Seq(ToSet(s))

TablesOK == matches \in Seq(Match) /\ IsList(cve_digests) /\ IsList(threat_digests)

CveRunOK ==
    /\ DOMAIN cve_run = {"at", "nvd"}
    /\ cve_run.at \in {"start", "nvd", "kev"} \cup Ends

ThreatRunOK ==
    /\ DOMAIN threat_run = {"at", "answers", "articles", "ai"}
    /\ threat_run.at \in {"start", "feeds"} \cup Ends
    /\ threat_run.answers \in Seq(FeedAnswers) /\ Len(threat_run.answers) <= Len(Feeds)

FeedOK ==
    /\ DOMAIN feed = {"at", "matches", "threats", "cves", "findings", "began"}
    /\ feed.at \in {"matches", "threats", "cves", "answered"}
    /\ feed.matches \in Seq(Match) /\ Len(feed.matches) <= monitor_limit
    /\ Len(feed.findings) <= limit
    /\ feed.threats \in 0..Len(threat_digests) /\ feed.cves \in 0..Len(cve_digests)

FusionInv == TablesOK /\ CveRunOK /\ ThreatRunOK /\ FeedOK

\* A function on 1..n is a list of n.
LEMMA ListOver ==
    ASSUME NEW n \in Nat, NEW s, DOMAIN s = 1..n, s = [i \in DOMAIN s |-> s[i]]
    PROVE  IsList(s) /\ Len(s) = n
<1>1. s \in [1..n -> ToSet(s)]
  BY DEF ToSet
<1>2. s \in Seq(ToSet(s))
  BY <1>1, SeqDef
<1>3. QED
  BY <1>1, <1>2, LenProperties DEF IsList

\* What is a list, whatever its elements.
LEMMA ListFacts ==
    ASSUME NEW s, IsList(s)
    PROVE  Len(s) \in Nat /\ DOMAIN s = 1..Len(s) /\ s = [i \in DOMAIN s |-> s[i]]
BY LenProperties DEF IsList

\* A sequence of any type is a list of its elements.
LEMMA SeqIsList ==
    ASSUME NEW T, NEW s \in Seq(T)
    PROVE  IsList(s)
<1>1. s \in [1..Len(s) -> T] /\ Len(s) \in Nat /\ DOMAIN s = 1..Len(s)
  BY LenProperties
<1>2. s = [i \in DOMAIN s |-> s[i]]
  BY <1>1
<1>3. QED
  BY <1>1, <1>2, ListOver

\* Appending keeps the list and adds one element at its end.
LEMMA ListAppends ==
    ASSUME NEW s, IsList(s), NEW x
    PROVE  /\ IsList(Append(s, x)) /\ Len(Append(s, x)) = Len(s) + 1
           /\ ToSet(Append(s, x)) = ToSet(s) \cup {x}
           /\ \A i \in 1..Len(s) : Append(s, x)[i] = s[i]
           /\ Append(s, x)[Len(s) + 1] = x
<1>1. s \in Seq(ToSet(s))
  BY DEF IsList
<1>2. Append(s, x) \in Seq(ToSet(Append(s, x))) /\ ToSet(Append(s, x)) = ToSet(s) \cup {x}
  BY <1>1, ListGrows
<1>3. s \in Seq(ToSet(s) \cup {x})
  BY <1>1, SeqOfItsElements
<1>4. QED
  BY <1>2, <1>3, AppendProperties DEF IsList

\* The newest first, and none lost.
LEMMA ReverseKeeps ==
    ASSUME NEW T, NEW s \in Seq(T)
    PROVE  /\ Reverse(s) \in Seq(T) /\ Len(Reverse(s)) = Len(s)
           /\ ToSet(Reverse(s)) = ToSet(s)
<1>1. Len(s) \in Nat /\ DOMAIN s = 1..Len(s) /\ \A i \in 1..Len(s) : s[i] \in T
  BY LenProperties, ElementOfSeq
<1>2. Reverse(s) = [i \in 1..Len(s) |-> s[(Len(s) - i) + 1]]
  BY DEF Reverse
<1>3. \A i \in 1..Len(s) : (Len(s) - i) + 1 \in 1..Len(s)
  BY <1>1
<1>4. Reverse(s) \in [1..Len(s) -> T]
  BY <1>1, <1>2, <1>3
<1>5. Reverse(s) \in Seq(T) /\ Len(Reverse(s)) = Len(s) /\ DOMAIN Reverse(s) = 1..Len(s)
  BY <1>1, <1>4, SeqDef, LenProperties
<1>6. ToSet(Reverse(s)) \subseteq ToSet(s)
  BY <1>1, <1>2, <1>3, <1>5 DEF ToSet
<1>7. ASSUME NEW i \in 1..Len(s) PROVE s[i] \in ToSet(Reverse(s))
  <2>1. (Len(s) - i) + 1 \in 1..Len(s) /\ (Len(s) - ((Len(s) - i) + 1)) + 1 = i
    BY <1>1, <1>3
  <2>2. Reverse(s)[(Len(s) - i) + 1] = s[i]
    BY <1>2, <2>1
  <2>3. QED
    BY <1>5, <2>1, <2>2 DEF ToSet
<1>8. QED
  BY <1>1, <1>5, <1>6, <1>7 DEF ToSet

\* There are as many findings as matches someone else speaks of.
LEMMA FindingsAreListed ==
    ASSUME NEW mm \in Seq(Match), NEW articles, NEW cves
    PROVE  IsList(correlate(mm, articles, cves))
<1> DEFINE Signals(m) == _cve_signals(m, cves) \o _threat_vector_signals(m, articles)
<1>1. PICK places : places = {i \in DOMAIN mm : Signals(mm[i]) # <<>>}
  OBVIOUS
<1>2. PICK correlated : correlated = Picked(mm, places)
  OBVIOUS
<1>3. correlated = Kept(mm, LAMBDA m : Signals(m) # <<>>)
  BY <1>1, <1>2 DEF Kept
<1>4. correlated \in Seq(Match) /\ Len(correlated) \in Nat /\ DOMAIN correlated = 1..Len(correlated)
  BY <1>1, <1>2, PickedInOrder, LenProperties
<1>5. PICK all : all = [i \in DOMAIN correlated |-> Finding(correlated[i], Signals(correlated[i]))]
  OBVIOUS
<1>6. PICK keys : keys = [i \in DOMAIN all |-> all[i].score]
  OBVIOUS
<1>7. correlate(mm, articles, cves) = InOrder(all, keys)
  BY <1>3, <1>5, <1>6 DEF correlate, SortedDown, InOrder
<1>8. DOMAIN InOrder(all, keys) = 1..Len(correlated)
      /\ InOrder(all, keys) = [n \in DOMAIN InOrder(all, keys) |-> InOrder(all, keys)[n]]
  BY <1>4, <1>5 DEF InOrder
<1>9. QED
  BY <1>4, <1>7, <1>8, ListOver

\* The invariant holds of every table there may be to begin with.
LEMMA FusionInitially == FusionInit => FusionInv
<1> SUFFICES ASSUME FusionInit PROVE FusionInv
  OBVIOUS
<1>1. PICK old \in OldCves : cve_digests = [i \in DOMAIN old |-> CveRow(old[i].nvd, old[i].kev, <<>>)]
  BY DEF FusionInit
<1>2. PICK oldies \in OldThreats :
        threat_digests = [i \in DOMAIN oldies |-> ThreatRow(oldies[i], <<>>, OfflineAi)]
  BY DEF FusionInit
<1>3. IsList(old) /\ IsList(oldies)
  BY TableAssumption DEF IsList
<1>4. IsList(cve_digests) /\ Len(cve_digests) \in Nat
  <2>1. DOMAIN cve_digests = 1..Len(old) /\ Len(old) \in Nat
        /\ cve_digests = [i \in DOMAIN cve_digests |-> cve_digests[i]]
    BY <1>1, <1>3, ListFacts
  <2>2. QED
    BY <2>1, ListOver
<1>5. IsList(threat_digests) /\ Len(threat_digests) \in Nat
  <2>1. DOMAIN threat_digests = 1..Len(oldies) /\ Len(oldies) \in Nat
        /\ threat_digests = [i \in DOMAIN threat_digests |-> threat_digests[i]]
    BY <1>2, <1>3, ListFacts
  <2>2. QED
    BY <2>1, ListOver
<1>6. TablesOK
  BY <1>4, <1>5, TableAssumption DEF FusionInit, TablesOK
<1>7. Len(Feeds) \in Nat
  BY FeedsAssumption, LenProperties
<1>8. CveRunOK /\ ThreatRunOK
  BY <1>7 DEF FusionInit, CveRunOK, ThreatRunOK
<1>9. FeedOK
  <2>1. <<>> \in Seq(Match) /\ Len(<<>>) = 0 /\ 0 <= monitor_limit /\ 0 <= limit
    BY LimitAssumption
  <2>2. QED
    BY <1>4, <1>5, <2>1 DEF FusionInit, FeedOK
<1>10. QED
  BY <1>6, <1>8, <1>9 DEF FusionInv

\* A digest under way moves on, or is saved; the feed reads rows of the tables.
LEMMA CveStepKeeps ==
    ASSUME FusionInv, CveNext
    PROVE  /\ FusionInv' /\ UNCHANGED <<matches, threat_digests, threat_run, feed>>
<1>1. UNCHANGED <<matches, threat_digests, threat_run, feed>>
  BY DEF CveNext, CveOffline, AskNvd, NvdAnswer, KevAnswer
<1>2. \/ cve_digests' = cve_digests
      \/ \E row : cve_digests' = Append(cve_digests, row)
  BY DEF CveNext, CveOffline, AskNvd, NvdAnswer, KevAnswer
<1>3. IsList(cve_digests') /\ Len(cve_digests') \in Nat /\ Len(cve_digests) \in Nat
      /\ Len(cve_digests) <= Len(cve_digests')
  <2>1. IsList(cve_digests) /\ Len(cve_digests) \in Nat
    BY ListFacts DEF FusionInv, TablesOK
  <2>2. CASE cve_digests' = cve_digests
    BY <2>1, <2>2
  <2>3. ASSUME NEW row, cve_digests' = Append(cve_digests, row)
        PROVE  IsList(cve_digests') /\ Len(cve_digests') = Len(cve_digests) + 1
    BY <2>1, <2>3, ListAppends
  <2>4. QED
    BY <1>2, <2>1, <2>2, <2>3
<1>4. /\ DOMAIN cve_run' = {"at", "nvd"}
      /\ cve_run'.at \in {"start", "nvd", "kev"} \cup Ends
  BY DEF FusionInv, CveRunOK, CveNext, CveOffline, AskNvd, NvdAnswer, KevAnswer, Ends
<1>5. QED
  BY <1>1, <1>3, <1>4 DEF FusionInv, TablesOK, CveRunOK, ThreatRunOK, FeedOK

\* The threat digest asks, collects and is saved.
LEMMA ThreatStepKeeps ==
    ASSUME FusionInv, ThreatNext
    PROVE  /\ FusionInv' /\ UNCHANGED <<matches, cve_digests, cve_run, feed>>
<1>1. UNCHANGED <<matches, cve_digests, cve_run, feed>>
  BY DEF ThreatNext, ThreatOffline, AskFeeds, FeedAnswer, Narrate
<1>2. \/ threat_digests' = threat_digests
      \/ \E row : threat_digests' = Append(threat_digests, row)
  BY DEF ThreatNext, ThreatOffline, AskFeeds, FeedAnswer, Narrate
<1>3. IsList(threat_digests') /\ Len(threat_digests') \in Nat /\ Len(threat_digests) \in Nat
      /\ Len(threat_digests) <= Len(threat_digests')
  <2>1. IsList(threat_digests) /\ Len(threat_digests) \in Nat
    BY ListFacts DEF FusionInv, TablesOK
  <2>2. CASE threat_digests' = threat_digests
    BY <2>1, <2>2
  <2>3. ASSUME NEW row, threat_digests' = Append(threat_digests, row)
        PROVE  IsList(threat_digests') /\ Len(threat_digests') = Len(threat_digests) + 1
    BY <2>1, <2>3, ListAppends
  <2>4. QED
    BY <1>2, <2>1, <2>2, <2>3
<1>4. /\ DOMAIN threat_run = {"at", "answers", "articles", "ai"}
      /\ threat_run.at \in {"start", "feeds"} \cup Ends
      /\ threat_run.answers \in Seq(FeedAnswers) /\ Len(threat_run.answers) <= Len(Feeds)
      /\ Len(threat_run.answers) \in Nat /\ Len(Feeds) \in Nat
  BY FeedsAssumption, LenProperties DEF FusionInv, CveRunOK, ThreatRunOK
<1>5. ThreatRunOK'
  <2>1. ASSUME NEW answer \in FeedAnswers, FeedAnswer(answer)
        PROVE  ThreatRunOK'
    <3>1. PICK articles :
            threat_run' = [threat_run EXCEPT !.answers = Append(@, answer), !.articles = articles]
      BY <2>1 DEF FeedAnswer
    <3>2. Len(threat_run.answers) + 1 <= Len(Feeds)
      BY <2>1 DEF FeedAnswer
    <3>3. Append(threat_run.answers, answer) \in Seq(FeedAnswers)
          /\ Len(Append(threat_run.answers, answer)) = Len(threat_run.answers) + 1
      BY <1>4, AppendProperties
    <3>4. threat_run'.answers = Append(threat_run.answers, answer)
          /\ threat_run'.at = threat_run.at /\ DOMAIN threat_run' = DOMAIN threat_run
      BY <1>4, <3>1
    <3>5. QED
      BY <1>4, <3>2, <3>3, <3>4 DEF ThreatRunOK
  <2>2. CASE ThreatOffline \/ AskFeeds
    BY <1>4, <2>2 DEF ThreatRunOK, ThreatOffline, AskFeeds, Ends
  <2>3. ASSUME NEW keys, NEW answer, NEW lists, Narrate(keys, answer, lists)
        PROVE  ThreatRunOK'
    <3>1. PICK ai : \/ threat_run' = [threat_run EXCEPT !.at = "saved"]
                    \/ threat_run' = [threat_run EXCEPT !.at = "failed", !.ai = ai]
      BY <2>3 DEF Narrate
    <3>2. QED
      BY <1>4, <3>1 DEF ThreatRunOK, Ends
  <2>4. QED
    BY <2>1, <2>2, <2>3 DEF ThreatNext
<1>6. QED
  BY <1>1, <1>3, <1>5 DEF FusionInv, TablesOK, CveRunOK, FeedOK

\* The feed reads one table after another, as many rows as it may.
LEMMA FeedStepKeeps ==
    ASSUME FusionInv, FeedNext
    PROVE  FusionInv' /\ UNCHANGED <<matches, cve_digests, threat_digests, cve_run, threat_run>>
<1>1. UNCHANGED <<matches, cve_digests, threat_digests, cve_run, threat_run>>
  BY DEF FeedNext, ReadMatches, ReadThreats, ReadCves, digestVars
<1>2. TablesOK' /\ CveRunOK' /\ ThreatRunOK'
  BY <1>1 DEF FusionInv, TablesOK, CveRunOK, ThreatRunOK
<1>3. /\ IsList(threat_digests) /\ IsList(cve_digests) /\ matches \in Seq(Match)
      /\ Len(threat_digests) \in Nat /\ Len(cve_digests) \in Nat
      /\ monitor_limit \in Nat /\ limit \in Nat
      /\ FeedOK
  BY ListFacts, LimitAssumption DEF FusionInv, TablesOK
<1>4. Recent(threat_digests) \in 0..Len(threat_digests) /\ Recent(cve_digests) \in 0..Len(cve_digests)
  BY <1>3 DEF Recent
<1>5. CASE ReadMatches
  <2>1. PICK read, began : /\ read = FirstOf(Reverse(matches), monitor_limit)
                           /\ began = <<Len(threat_digests), Len(cve_digests)>>
    OBVIOUS
  <2>2. feed' = [feed EXCEPT !.at = "threats", !.matches = read, !.began = began]
    BY <1>5, <2>1 DEF ReadMatches
  <2>3. read \in Seq(Match) /\ Len(read) <= monitor_limit
    <3>1. PICK all : all = Reverse(matches)
      OBVIOUS
    <3>2. all \in Seq(Match) /\ Len(all) \in Nat
      BY <1>3, <3>1, ReverseKeeps, LenProperties
    <3>3. read \in Seq(Match) /\ Len(read) = IF monitor_limit < Len(all) THEN monitor_limit ELSE Len(all)
      BY <1>3, <2>1, <3>1, <3>2, FirstOfProperties
    <3>4. QED
      BY <1>3, <3>2, <3>3
  <2>4. QED
    BY <1>1, <1>2, <1>3, <2>2, <2>3 DEF FusionInv, FeedOK
<1>6. CASE ReadThreats
  BY <1>1, <1>2, <1>3, <1>4, <1>6 DEF ReadThreats, FusionInv, FeedOK
<1>7. CASE ReadCves
  <2>1. PICK newest : newest = Recent(cve_digests)
    OBVIOUS
  <2>2. PICK all : all = correlate(feed.matches, ArticlesOf(feed.threats), CvesOf(newest))
    OBVIOUS
  <2>3. PICK findings : findings = FirstOf(all, limit)
    OBVIOUS
  <2>4. feed' = [feed EXCEPT !.at = "answered", !.cves = newest, !.findings = findings]
    BY <1>7, <2>1, <2>2, <2>3 DEF ReadCves
  <2>5. all \in Seq(ToSet(all)) /\ Len(all) \in Nat
    BY <1>3, <2>2, FindingsAreListed, ListFacts DEF FeedOK, IsList
  <2>6. Len(findings) <= limit
    <3>1. Len(findings) = IF limit < Len(all) THEN limit ELSE Len(all)
      BY <1>3, <2>3, <2>5, FirstOfProperties
    <3>2. QED
      BY <1>3, <2>5, <3>1
  <2>7. QED
    BY <1>1, <1>2, <1>3, <1>4, <2>1, <2>4, <2>6 DEF FusionInv, FeedOK
<1>8. QED
  BY <1>1, <1>5, <1>6, <1>7 DEF FeedNext

\* Every step of a digest, of the feed or of the monitor keeps the types.
LEMMA FusionStep == FusionInv /\ [FusionNext]_fusionVars => FusionInv'
<1> SUFFICES ASSUME FusionInv, [FusionNext]_fusionVars PROVE FusionInv'
  OBVIOUS
<1>1. CASE CommitRaises
  BY <1>1 DEF CommitRaises, FusionInv, TablesOK, CveRunOK, ThreatRunOK, FeedOK, Ends
<1>2. ASSUME NEW m \in NewMatches, NewMatch(m)
      PROVE  FusionInv'
  <2>1. matches' = Append(matches, m) /\ m \in Match /\ matches \in Seq(Match)
    BY <1>2, TableAssumption DEF NewMatch, FusionInv, TablesOK
  <2>2. matches' \in Seq(Match)
    BY <2>1, AppendProperties
  <2>3. UNCHANGED <<cve_digests, threat_digests, cve_run, threat_run, feed>>
    BY <1>2 DEF NewMatch, digestVars
  <2>4. QED
    BY <2>2, <2>3 DEF FusionInv, TablesOK, CveRunOK, ThreatRunOK, FeedOK
<1>3. CASE UNCHANGED fusionVars
  BY <1>3 DEF fusionVars, FusionInv, TablesOK, CveRunOK, ThreatRunOK, FeedOK
<1>4. QED
  BY <1>1, <1>2, <1>3, CveStepKeeps, ThreatStepKeeps, FeedStepKeeps DEF FusionNext

\* The tables, the digests under way and the feed keep their types, and the feed
\* reads no more matches and has no more findings than it was asked for (get_feed).
THEOREM FusionTypes == FusionSpec => []FusionTypeOK
<1>1. FusionInv => FusionTypeOK
  BY DEF FusionInv, TablesOK, CveRunOK, ThreatRunOK, FeedOK, FusionTypeOK
<1>2. QED
  BY <1>1, FusionInitially, FusionStep, PTL DEF FusionSpec

-----------------------------------------------------------------------------
(* Counting *)

\* Two sets have one size when each element of one is that of one of the other.
LEMMA SameSize ==
    ASSUME NEW S, IsFiniteSet(S), NEW T, NEW f \in [S -> T],
           \A x, y \in S : f[x] = f[y] => x = y, \A t \in T : \E x \in S : f[x] = t
    PROVE  IsFiniteSet(T) /\ Cardinality(T) = Cardinality(S)
<1>1. f \in Bijection(S, T)
  BY DEF Bijection, Injection, Surjection, IsInjective
<1>2. ExistsBijection(S, T)
  BY <1>1 DEF ExistsBijection
<1>3. QED
  BY <1>2, FS_Bijection

\* A list has finitely many places and elements, and none only when it is empty.
LEMMA ListIsFinite ==
    ASSUME NEW s, IsList(s)
    PROVE  /\ IsFiniteSet(DOMAIN s) /\ Cardinality(DOMAIN s) = Len(s)
           /\ IsFiniteSet(ToSet(s)) /\ (s = <<>> <=> DOMAIN s = {})
<1>1. PICK n : n = Len(s)
  OBVIOUS
<1>2. n \in Int /\ n \in Nat /\ 1 \in Int /\ DOMAIN s = 1..n
  BY <1>1, ListFacts
<1>3. IsFiniteSet(1..n) /\ Cardinality(1..n) = n
  BY <1>2, FS_Interval
<1>4. s \in Surjection(DOMAIN s, ToSet(s))
  <2>1. s \in [DOMAIN s -> ToSet(s)]
    BY ListFacts DEF ToSet
  <2>2. QED
    BY <2>1 DEF Surjection, ToSet
<1>5. IsFiniteSet(ToSet(s))
  BY <1>2, <1>3, <1>4, FS_Surjection
<1>6. s = <<>> <=> DOMAIN s = {}
  <2>1. s \in Seq(ToSet(s))
    BY DEF IsList
  <2>2. s = <<>> <=> Len(s) = 0
    BY <2>1, EmptySeq
  <2>3. QED
    BY <1>1, <1>2, <2>2
<1>7. QED
  BY <1>1, <1>2, <1>3, <1>5, <1>6

\* Picking places of a list yields what is at them, as many as there are places.
LEMMA PickedList ==
    ASSUME NEW s, IsList(s), NEW places \in SUBSET DOMAIN s
    PROVE  /\ IsList(Picked(s, places)) /\ Len(Picked(s, places)) = Cardinality(places)
           /\ DOMAIN Picked(s, places) = 1..Cardinality(places)
           /\ DOMAIN Ascending(places) = 1..Cardinality(places)
           /\ ToSet(Picked(s, places)) = {s[i] : i \in places}
           /\ Picked(s, places) = <<>> <=> places = {}
           /\ \A n \in DOMAIN Picked(s, places) :
                 Ascending(places)[n] \in places /\ Picked(s, places)[n] = s[Ascending(places)[n]]
           /\ \A m, n \in DOMAIN Picked(s, places) :
                 Ascending(places)[m] = Ascending(places)[n] => m = n
           /\ \A i \in places : \E n \in DOMAIN Picked(s, places) : Ascending(places)[n] = i
<1>1. s \in Seq(ToSet(s))
  BY DEF IsList
<1>2. PICK r : r = Picked(s, places)
  OBVIOUS
<1>3. PICK at : at = Ascending(places)
  OBVIOUS
<1>4. places \in SUBSET Nat /\ IsFiniteSet(places)
  BY <1>1, PlacesAreFinite
<1>5. r \in Seq(ToSet(s)) /\ Len(r) = Cardinality(places) /\ DOMAIN r = DOMAIN at
  BY <1>1, <1>2, <1>3, PickedInOrder
<1>6. \A n \in DOMAIN r : at[n] \in places /\ r[n] = s[at[n]]
  BY <1>1, <1>2, <1>3, PickedInOrder
<1>7. /\ at \in Seq(places) /\ DOMAIN at = 1..Cardinality(places) /\ Ascends(at)
      /\ \A p \in places : \E n \in DOMAIN at : at[n] = p
  BY <1>3, <1>4, AscendingIsSorted
<1>8. \A m, n \in DOMAIN r : at[m] = at[n] => m = n
  <2> SUFFICES ASSUME NEW m \in DOMAIN r, NEW n \in DOMAIN r, at[m] = at[n], m # n PROVE FALSE
    OBVIOUS
  <2>1. Cardinality(places) \in Nat /\ m \in 1..Cardinality(places) /\ n \in 1..Cardinality(places)
    BY <1>4, <1>5, <1>7, FS_CardinalityType
  <2>2. at[m] \in Nat /\ at[n] \in Nat
    BY <1>4, <1>6
  <2>3. CASE m < n
    BY <1>5, <1>7, <2>1, <2>2, <2>3 DEF Ascends
  <2>4. CASE n < m
    BY <1>5, <1>7, <2>1, <2>2, <2>4 DEF Ascends
  <2>5. QED
    BY <2>1, <2>3, <2>4
<1>9. IsList(r)
  BY <1>5, SeqIsList
<1>10. ToSet(r) = {s[i] : i \in places}
  BY <1>5, <1>6, <1>7 DEF ToSet
<1>11. r = <<>> <=> places = {}
  <2>1. r = <<>> <=> DOMAIN r = {}
    BY <1>9, ListIsFinite
  <2>2. QED
    BY <1>5, <1>6, <1>7, <2>1
<1>12. QED
  BY <1>2, <1>3, <1>5, <1>6, <1>7, <1>8, <1>9, <1>10, <1>11

\* Numbers that are one or three.
LEMMA TotalOfWeights ==
    ASSUME NEW w \in Seq(Nat), \A i \in DOMAIN w : w[i] \in {1, 3}
    PROVE  /\ Cardinality({i \in DOMAIN w : w[i] = 3}) \in Nat
           /\ Total(w) = 2 * Cardinality({i \in DOMAIN w : w[i] = 3}) + Len(w)
<1> DEFINE Threes(k) == {i \in 1..k : w[i] = 3}
<1>1. Len(w) \in Nat /\ DOMAIN w = 1..Len(w)
  BY LenProperties
<1>2. PICK total : total = [k \in 0..Len(w) |-> Total(SubSeq(w, 1, k))]
  OBVIOUS
<1>3. PICK threes : threes = [k \in 0..Len(w) |-> Cardinality(Threes(k))]
  OBVIOUS
<1>4. ASSUME NEW k \in Nat
      PROVE  IsFiniteSet(Threes(k)) /\ Cardinality(Threes(k)) \in Nat
  <2>1. k \in Int /\ 1 \in Int
    BY <1>4
  <2>2. IsFiniteSet(1..k)
    BY <2>1, FS_Interval
  <2>3. Threes(k) \in SUBSET (1..k)
    OBVIOUS
  <2>4. QED
    BY <2>2, <2>3, FS_Subset, FS_CardinalityType
<1>5. total[0] = 0 /\ threes[0] = 0
  <2>1. SubSeq(w, 1, 0) = <<>> /\ Threes(0) = {} /\ 0 \in 0..Len(w)
    BY <1>1
  <2>2. Total(<<>>) = 0 /\ Cardinality({}) = 0
    BY TotalOfNone, FS_EmptySet
  <2>3. total[0] = Total(SubSeq(w, 1, 0)) /\ threes[0] = Cardinality(Threes(0))
    BY <1>2, <1>3, <2>1
  <2>4. QED
    BY <2>1, <2>2, <2>3
<1>6. ASSUME NEW k \in 0..Len(w), k < Len(w)
      PROVE  /\ k + 1 \in 0..Len(w) /\ total[k + 1] = total[k] + w[k + 1] /\ w[k + 1] \in {1, 3}
             /\ threes[k] \in Nat
             /\ threes[k + 1] = IF w[k + 1] = 3 THEN threes[k] + 1 ELSE threes[k]
  <2>1. k \in Nat /\ k + 1 \in 1..Len(w) /\ k + 1 \in Nat
    BY <1>1, <1>6
  <2>2. w[k + 1] \in {1, 3}
    BY <1>1, <2>1
  <2>3. Total(SubSeq(w, 1, k + 1)) = Total(SubSeq(w, 1, k)) + w[k + 1]
    BY <1>6, <2>1, TotalOfNext
  <2>4. total[k] = Total(SubSeq(w, 1, k)) /\ total[k + 1] = Total(SubSeq(w, 1, k + 1))
    BY <1>2, <2>1
  <2>5. threes[k] = Cardinality(Threes(k)) /\ threes[k + 1] = Cardinality(Threes(k + 1))
    BY <1>3, <2>1
  <2>6. IsFiniteSet(Threes(k)) /\ Cardinality(Threes(k)) \in Nat
    BY <1>4, <2>1
  <2>7. CASE w[k + 1] = 3
    <3>1. Threes(k + 1) = Threes(k) \cup {k + 1} /\ k + 1 \notin Threes(k)
      BY <2>1, <2>7
    <3>2. Cardinality(Threes(k + 1)) = Cardinality(Threes(k)) + 1
      BY <2>6, <3>1, FS_AddElement
    <3>3. threes[k + 1] = threes[k] + 1 /\ threes[k] \in Nat
      BY <2>5, <2>6, <3>2
    <3>4. total[k + 1] = total[k] + w[k + 1]
      BY <2>3, <2>4
    <3>5. threes[k + 1] = IF w[k + 1] = 3 THEN threes[k] + 1 ELSE threes[k]
      BY <2>7, <3>3
    <3>6. k + 1 \in 0..Len(w)
      BY <1>1, <2>1
    <3>7. QED
      BY <2>2, <3>3, <3>4, <3>5, <3>6, Zenon
  <2>8. CASE w[k + 1] # 3
    <3>1. Threes(k + 1) = Threes(k)
      BY <2>1, <2>8
    <3>2. threes[k + 1] = threes[k] /\ threes[k] \in Nat
      BY <2>5, <2>6, <3>1
    <3>3. total[k + 1] = total[k] + w[k + 1]
      BY <2>3, <2>4
    <3>4. threes[k + 1] = IF w[k + 1] = 3 THEN threes[k] + 1 ELSE threes[k]
      BY <2>8, <3>2
    <3>5. k + 1 \in 0..Len(w)
      BY <1>1, <2>1
    <3>6. QED
      BY <2>2, <3>2, <3>3, <3>4, <3>5, Zenon
  <2>9. QED
    BY <2>7, <2>8
<1> DEFINE S == {k \in 0..Len(w) : total[k] = 2 * threes[k] + k}
<1>7. 0 \in S
  BY <1>1, <1>5
<1>8. ASSUME NEW k \in 0..Len(w), k < Len(w), k \in S
      PROVE  k + 1 \in S
  <2>1. total[k] = 2 * threes[k] + k
    BY <1>8
  <2>2. PICK n, m : n = threes[k] /\ m = threes[k + 1]
    OBVIOUS
  <2>3. /\ k + 1 \in 0..Len(w) /\ n \in Nat
        /\ \/ m = n + 1 /\ total[k + 1] = total[k] + 3
           \/ m = n /\ total[k + 1] = total[k] + 1
    BY <1>6, <1>8, <2>2
  <2>4. total[k] = 2 * n + k
    BY <2>1, <2>2
  <2>5. total[k + 1] = 2 * m + (k + 1)
    BY <1>1, <2>3, <2>4
  <2>6. QED
    BY <2>2, <2>3, <2>5
<1> HIDE DEF S
<1>9. 0..Len(w) \subseteq S
  BY <1>1, <1>7, <1>8, UpTo
<1>10. Len(w) \in S /\ Len(w) \in 0..Len(w)
  BY <1>1, <1>9
<1>11. total[Len(w)] = 2 * threes[Len(w)] + Len(w)
  BY <1>10 DEF S
<1>12. SubSeq(w, 1, Len(w)) = w
  BY <1>1
<1>13. {i \in DOMAIN w : w[i] = 3} = Threes(Len(w))
  BY <1>1
<1>14. total[Len(w)] = Total(w) /\ threes[Len(w)] = Cardinality(Threes(Len(w)))
  BY <1>2, <1>3, <1>10, <1>12
<1>15. QED
  BY <1>1, <1>4, <1>11, <1>13, <1>14

-----------------------------------------------------------------------------
(* What a match's signals weigh *)

Weights(signals) == [i \in DOMAIN signals |-> WEIGHT[signals[i].kind]]

Kinds == {"exploited_cve", "cve_match", "threat_vector"}

AreSignals(signals) == IsList(signals) /\ \A i \in DOMAIN signals : signals[i].kind \in Kinds

\* The CVEs of a digest: none twice.
AreCves(cves) ==
    /\ IsList(cves)
    /\ \A i \in DOMAIN cves : IsList(cves[i].matched_products)
    /\ \A i, j \in DOMAIN cves : cves[i] = cves[j] => i = j

\* Signals weigh one each, and two more when they are of exploited CVEs.
LEMMA SignalsWeigh ==
    ASSUME NEW s, AreSignals(s)
    PROVE  /\ Weights(s) \in Seq(Nat) /\ Len(Weights(s)) = Len(s) /\ DOMAIN Weights(s) = DOMAIN s
           /\ Cardinality({i \in DOMAIN s : s[i].kind = "exploited_cve"}) \in Nat
           /\ Total(Weights(s)) = 2 * Cardinality({i \in DOMAIN s : s[i].kind = "exploited_cve"}) + Len(s)
<1>1. PICK w : w = Weights(s)
  OBVIOUS
<1>2. Len(s) \in Nat /\ DOMAIN s = 1..Len(s)
  BY ListFacts DEF AreSignals
<1>3. DOMAIN w = DOMAIN s /\ \A i \in DOMAIN s : w[i] = WEIGHT[s[i].kind] /\ s[i].kind \in Kinds
  BY <1>1 DEF Weights, AreSignals
<1>4. /\ WEIGHT["exploited_cve"] = 3 /\ WEIGHT["cve_match"] = 1 /\ WEIGHT["threat_vector"] = 1
  BY DEF WEIGHT
<1>5. \A i \in DOMAIN s : w[i] \in {1, 3} /\ (w[i] = 3 <=> s[i].kind = "exploited_cve")
  BY <1>3, <1>4 DEF Kinds
<1>6. w \in [1..Len(s) -> Nat]
  BY <1>1, <1>2, <1>3, <1>5 DEF Weights
<1>7. w \in Seq(Nat) /\ Len(w) = Len(s)
  BY <1>2, <1>6, SeqDef, LenProperties
<1>8. PICK threes : threes = {i \in DOMAIN w : w[i] = 3}
  OBVIOUS
<1>9. Cardinality(threes) \in Nat /\ Total(w) = 2 * Cardinality(threes) + Len(w)
  BY <1>3, <1>5, <1>7, <1>8, TotalOfWeights
<1>10. threes = {i \in DOMAIN s : s[i].kind = "exploited_cve"}
  BY <1>3, <1>5, <1>8
<1>11. QED
  BY <1>1, <1>3, <1>7, <1>9, <1>10

\* The signals of CVEs are one of each CVE about the match (_cve_signals).
LEMMA CvesWeigh ==
    ASSUME NEW m, NEW cves, AreCves(cves)
    PROVE  /\ AreSignals(_cve_signals(m, cves))
           /\ Cardinality(About(m, cves)) \in Nat
           /\ Cardinality({c \in About(m, cves) : c.is_actively_exploited}) \in Nat
           /\ Total(Weights(_cve_signals(m, cves)))
                 = 2 * Cardinality({c \in About(m, cves) : c.is_actively_exploited})
                      + Cardinality(About(m, cves))
           /\ _cve_signals(m, cves) = <<>> <=> Cardinality(About(m, cves)) = 0
<1> DEFINE Products(c) == Kept(c.matched_products,
                         LAMBDA product : \E n \in {m.keyword, m.domain} : _keyword_in_text(n, product))
<1>1. PICK places : places = {i \in DOMAIN cves : Products(cves[i]) # <<>>}
  OBVIOUS
<1>2. PICK hits : hits = Picked(cves, places)
  OBVIOUS
<1>3. hits = Kept(cves, LAMBDA c : Products(c) # <<>>)
  BY <1>1, <1>2 DEF Kept
<1>4. PICK s : s = _cve_signals(m, cves)
  OBVIOUS
<1>5. s = [i \in DOMAIN hits |->
             [kind |-> IF hits[i].is_actively_exploited THEN "exploited_cve" ELSE "cve_match",
              of |-> hits[i].cve_id, by |-> Products(hits[i])[1]]]
  BY <1>3, <1>4 DEF _cve_signals
<1>6. ASSUME NEW i \in DOMAIN cves
      PROVE  i \in places <=> cves[i] \in About(m, cves)
  <2>1. PICK listed : listed = cves[i].matched_products
    OBVIOUS
  <2>2. IsList(listed)
    BY <2>1 DEF AreCves
  <2>3. PICK named : named = {k \in DOMAIN listed : \E n \in {m.keyword, m.domain} :
                                 _keyword_in_text(n, listed[k])}
    OBVIOUS
  <2>4. Products(cves[i]) = Picked(listed, named)
    BY <2>1, <2>3 DEF Kept
  <2>5. Picked(listed, named) = <<>> <=> named = {}
    BY <2>2, <2>3, PickedList
  <2>6. named # {} <=> cves[i] \in About(m, cves)
    <3>1. cves[i] \in ToSet(cves)
      BY DEF ToSet
    <3>2. named # {} <=> \E p \in ToSet(listed) : {m.keyword, m.domain} \cap Mentions[p] # {}
      BY <2>3 DEF ToSet, _keyword_in_text
    <3>3. QED
      BY <2>1, <3>1, <3>2 DEF About
  <2>7. QED
    BY <1>1, <2>4, <2>5, <2>6
<1>61. IsList(cves) /\ places \in SUBSET DOMAIN cves
  <2>1. places \subseteq DOMAIN cves
    BY <1>1
  <2>2. QED
    BY <2>1 DEF AreCves
<1>7. /\ IsList(hits) /\ DOMAIN hits = 1..Cardinality(places)
      /\ Len(hits) = Cardinality(places) /\ ToSet(hits) = {cves[i] : i \in places}
  BY <1>2, <1>61, PickedList
<1>8. \A k, n \in DOMAIN hits : hits[k] = hits[n] => k = n
  <2> SUFFICES ASSUME NEW k \in DOMAIN hits, NEW n \in DOMAIN hits, hits[k] = hits[n] PROVE k = n
    OBVIOUS
  <2>1. PICK at : at = Ascending(places)
    OBVIOUS
  <2>2. /\ at[k] \in places /\ at[n] \in places /\ hits[k] = cves[at[k]] /\ hits[n] = cves[at[n]]
        /\ at[k] = at[n] => k = n
    BY <1>2, <1>61, <2>1, PickedList
  <2>3. at[k] = at[n]
    BY <1>61, <2>2 DEF AreCves
  <2>4. QED
    BY <2>2, <2>3
<1>9. ToSet(hits) = About(m, cves)
  <2>1. About(m, cves) \subseteq {cves[i] : i \in DOMAIN cves}
    BY DEF About, ToSet
  <2>2. QED
    BY <1>6, <1>7, <1>61, <2>1
<1>10. IsList(s) /\ DOMAIN s = DOMAIN hits /\ Len(s) = Len(hits)
  <2>1. Len(hits) \in Nat /\ DOMAIN hits = 1..Len(hits)
    BY <1>7, ListFacts
  <2>2. DOMAIN s = 1..Len(hits) /\ s = [i \in DOMAIN s |-> s[i]]
    BY <1>5, <2>1
  <2>3. IsList(s) /\ Len(s) = Len(hits)
    BY <2>1, <2>2, ListOver
  <2>4. QED
    BY <1>5, <2>3
<1>11. \A i \in DOMAIN s : /\ s[i].kind \in Kinds
                           /\ s[i].kind = "exploited_cve" <=> hits[i].is_actively_exploited
  BY <1>5 DEF Kinds
<1>12. AreSignals(s)
  BY <1>10, <1>11 DEF AreSignals
<1>13. PICK about, risky : about = About(m, cves) /\ risky = {c \in about : c.is_actively_exploited}
  OBVIOUS
<1>14. PICK flagged : flagged = {i \in DOMAIN s : s[i].kind = "exploited_cve"}
  OBVIOUS
<1>15. IsFiniteSet(DOMAIN hits) /\ Cardinality(DOMAIN hits) = Len(hits) /\ Len(hits) \in Nat
       /\ (s = <<>> <=> DOMAIN s = {})
  BY <1>7, <1>10, ListIsFinite, ListFacts
<1>16. IsFiniteSet(about) /\ Cardinality(about) = Len(hits)
  <2>1. hits \in [DOMAIN hits -> about] /\ \A c \in about : \E n \in DOMAIN hits : hits[n] = c
    BY <1>7, <1>9, <1>13, ListFacts DEF ToSet
  <2>2. QED
    BY <1>8, <1>15, <2>1, SameSize
<1>17. IsFiniteSet(risky) /\ Cardinality(risky) = Cardinality(flagged)
  <2>1. PICK f : f = [n \in flagged |-> hits[n]]
    OBVIOUS
  <2>2. flagged \in SUBSET DOMAIN hits /\ flagged = {n \in DOMAIN hits : hits[n].is_actively_exploited}
    BY <1>10, <1>11, <1>14
  <2>3. IsFiniteSet(flagged)
    BY <1>15, <2>2, FS_Subset
  <2>4. f \in [flagged -> risky] /\ \A c \in risky : \E n \in flagged : f[n] = c
    BY <1>9, <1>13, <2>1, <2>2 DEF ToSet
  <2>5. \A k, n \in flagged : f[k] = f[n] => k = n
    BY <1>8, <2>1, <2>2
  <2>6. QED
    BY <2>3, <2>4, <2>5, SameSize
<1>18. Cardinality(flagged) \in Nat /\ Total(Weights(s)) = 2 * Cardinality(flagged) + Len(s)
  BY <1>12, <1>14, SignalsWeigh
<1>19. s = <<>> <=> Cardinality(about) = 0
  <2>1. Cardinality(about) = 0 <=> about = {}
    BY <1>16, FS_EmptySet
  <2>2. DOMAIN s = {} <=> about = {}
    BY <1>9, <1>10, <1>13 DEF ToSet
  <2>3. QED
    BY <1>15, <2>1, <2>2
<1>20. QED
  BY <1>4, <1>10, <1>12, <1>13, <1>15, <1>16, <1>17, <1>18, <1>19

\* The signals of articles are of those that speak of the match, only so many
\* (_threat_vector_signals).
LEMMA ArticlesWeigh ==
    ASSUME NEW m, NEW articles, IsList(articles)
    PROVE  /\ AreSignals(_threat_vector_signals(m, articles))
           /\ Cardinality(Spoken(m, articles)) \in Nat
           /\ Total(Weights(_threat_vector_signals(m, articles)))
                 = IF Cardinality(Spoken(m, articles)) > MAX_THREAT_VECTOR_SIGNALS
                   THEN MAX_THREAT_VECTOR_SIGNALS ELSE Cardinality(Spoken(m, articles))
           /\ _threat_vector_signals(m, articles) = <<>> <=> Cardinality(Spoken(m, articles)) = 0
<1>1. PICK places : places = Spoken(m, articles)
  OBVIOUS
<1>2. PICK hits : hits = Picked(articles, places)
  OBVIOUS
<1>3. hits = Kept(articles, LAMBDA a :
                a.vectors # <<>> /\ m.keyword \in MentionedIn(<<a.title, a.summary>>))
  <2>1. places = {i \in DOMAIN articles :
                    /\ articles[i].vectors # <<>>
                    /\ m.keyword \in MentionedIn(<<articles[i].title, articles[i].summary>>)}
    BY <1>1 DEF Spoken
  <2>2. QED
    BY <1>2, <2>1 DEF Kept
<1>4. PICK most : most = MAX_THREAT_VECTOR_SIGNALS
  OBVIOUS
<1>5. most \in Nat /\ most # 0
  BY <1>4, LimitAssumption
<1>6. PICK capped : capped = FirstOf(hits, most)
  OBVIOUS
<1>7. PICK s : s = _threat_vector_signals(m, articles)
  OBVIOUS
<1>8. s = [i \in DOMAIN capped |-> [kind |-> "threat_vector", of |-> capped[i].title,
                                    by |-> capped[i].source]]
  BY <1>3, <1>4, <1>6, <1>7 DEF _threat_vector_signals
<1>9. places \in SUBSET DOMAIN articles
  BY <1>1 DEF Spoken
<1>10. PICK size : size = Cardinality(places)
  OBVIOUS
<1>11. size \in Nat
  <2>1. IsFiniteSet(DOMAIN articles)
    BY ListIsFinite
  <2>2. QED
    BY <1>9, <1>10, <2>1, FS_Subset, FS_CardinalityType
<1>12. hits \in Seq(ToSet(hits)) /\ Len(hits) = size
  BY <1>2, <1>9, <1>10, PickedList DEF IsList
<1>13. PICK least : least = IF size > most THEN most ELSE size
  OBVIOUS
<1>14. IsList(capped) /\ Len(capped) = least /\ least \in Nat /\ (least = 0 <=> size = 0)
  <2>1. capped \in Seq(ToSet(hits)) /\ Len(capped) = IF most < Len(hits) THEN most ELSE Len(hits)
    BY <1>5, <1>6, <1>12, FirstOfProperties
  <2>2. QED
    BY <1>5, <1>11, <1>12, <1>13, <2>1, SeqIsList
<1>15. DOMAIN s = 1..least /\ IsList(s) /\ Len(s) = least
  <2>1. DOMAIN s = 1..least /\ s = [i \in DOMAIN s |-> s[i]]
    BY <1>8, <1>14, ListFacts
  <2>2. QED
    BY <1>14, <2>1, ListOver
<1>16. AreSignals(s) /\ \A i \in DOMAIN s : s[i].kind # "exploited_cve"
  BY <1>8, <1>15 DEF AreSignals, Kinds
<1>17. Total(Weights(s)) = least
  <2>1. PICK flagged : flagged = {i \in DOMAIN s : s[i].kind = "exploited_cve"}
    OBVIOUS
  <2>2. Total(Weights(s)) = 2 * Cardinality(flagged) + Len(s)
    BY <1>16, <2>1, SignalsWeigh
  <2>3. flagged = {}
    BY <1>16, <2>1
  <2>4. Cardinality(flagged) = 0
    BY <2>3, FS_EmptySet
  <2>5. QED
    BY <1>14, <1>15, <2>2, <2>4
<1>18. s = <<>> <=> size = 0
  <2>1. s = <<>> <=> DOMAIN s = {}
    BY <1>15, ListIsFinite
  <2>2. QED
    BY <1>14, <1>15, <2>1
<1>19. QED
  BY <1>1, <1>4, <1>7, <1>10, <1>11, <1>13, <1>16, <1>17, <1>18

\* What a match's signals weigh is what its evidence does, and one without
\* signals has none.
LEMMA MatchWeighs ==
    ASSUME NEW m, NEW articles, NEW cves, IsList(articles), AreCves(cves),
           NEW s, s = _cve_signals(m, cves) \o _threat_vector_signals(m, articles)
    PROVE  /\ AreSignals(s) /\ Total(Weights(s)) = Evidence(m, articles, cves)
           /\ Evidence(m, articles, cves) \in Nat
           /\ s # <<>> <=> Evidence(m, articles, cves) > 0
<1>1. PICK s1, s2 : s1 = _cve_signals(m, cves) /\ s2 = _threat_vector_signals(m, articles)
  OBVIOUS
<1>2. PICK about, risky, spoken : /\ about = Cardinality(About(m, cves))
                                  /\ risky = Cardinality({c \in About(m, cves) : c.is_actively_exploited})
                                  /\ spoken = Cardinality(Spoken(m, articles))
  OBVIOUS
<1>3. PICK least : least = IF spoken > MAX_THREAT_VECTOR_SIGNALS THEN MAX_THREAT_VECTOR_SIGNALS
                           ELSE spoken
  OBVIOUS
<1>4. /\ AreSignals(s1) /\ about \in Nat /\ risky \in Nat
      /\ Total(Weights(s1)) = 2 * risky + about /\ (s1 = <<>> <=> about = 0)
  BY <1>1, <1>2, CvesWeigh
<1>5. /\ AreSignals(s2) /\ spoken \in Nat /\ Total(Weights(s2)) = least /\ (s2 = <<>> <=> spoken = 0)
  BY <1>1, <1>2, <1>3, ArticlesWeigh
<1>6. least \in Nat /\ (least = 0 <=> spoken = 0)
  BY <1>3, <1>5, LimitAssumption
<1>7. Evidence(m, articles, cves) = 2 * risky + about + least
  BY <1>2, <1>3 DEF Evidence
<1>8. PICK n1, n2 : n1 = Len(s1) /\ n2 = Len(s2)
  OBVIOUS
<1>9. /\ n1 \in Nat /\ n2 \in Nat /\ DOMAIN s1 = 1..n1 /\ DOMAIN s2 = 1..n2
      /\ s1 \in Seq(ToSet(s1) \cup ToSet(s2)) /\ s2 \in Seq(ToSet(s1) \cup ToSet(s2))
  BY <1>4, <1>5, <1>8, ListFacts, SeqOfItsElements DEF AreSignals, IsList
<1>10. /\ s \in Seq(ToSet(s1) \cup ToSet(s2)) /\ Len(s) = n1 + n2 /\ DOMAIN s = 1..(n1 + n2)
       /\ \A i \in 1..n1 : s[i] = s1[i]
       /\ \A i \in 1..n2 : s[n1 + i] = s2[i]
  BY <1>1, <1>8, <1>9, ConcatProperties
<1>11. AreSignals(s)
  <2>1. ASSUME NEW i \in DOMAIN s
        PROVE  s[i].kind \in Kinds
    <3>1. i \in 1..n1 \/ (i - n1 \in 1..n2 /\ n1 + (i - n1) = i)
      BY <1>9, <1>10
    <3>2. CASE i \in 1..n1
      BY <1>4, <1>9, <1>10, <3>2 DEF AreSignals
    <3>3. CASE i - n1 \in 1..n2 /\ n1 + (i - n1) = i
      <4>1. s[i] = s2[i - n1] /\ s2[i - n1].kind \in Kinds
        BY <1>5, <1>9, <1>10, <3>3 DEF AreSignals
      <4>2. QED
        BY <4>1
    <3>4. QED
      BY <3>1, <3>2, <3>3
  <2>2. QED
    BY <1>10, <2>1, SeqIsList DEF AreSignals
<1>12. Total(Weights(s)) = Total(Weights(s1)) + Total(Weights(s2))
  <2>1. PICK w, w1, w2 : w = Weights(s) /\ w1 = Weights(s1) /\ w2 = Weights(s2)
    OBVIOUS
  <2>2. /\ w1 \in Seq(Nat) /\ w2 \in Seq(Nat) /\ w \in Seq(Nat)
        /\ Len(w1) = n1 /\ Len(w2) = n2 /\ Len(w) = n1 + n2
    BY <1>4, <1>5, <1>8, <1>10, <1>11, <2>1, SignalsWeigh
  <2>3. /\ w1 \o w2 \in Seq(Nat) /\ Len(w1 \o w2) = n1 + n2
        /\ \A i \in 1..n1 : (w1 \o w2)[i] = w1[i]
        /\ \A i \in 1..n2 : (w1 \o w2)[n1 + i] = w2[i]
    <3>1. PICK both : both = w1 \o w2
      OBVIOUS
    <3>2. /\ both \in Seq(Nat) /\ Len(both) = Len(w1) + Len(w2)
          /\ \A i \in 1..Len(w1) + Len(w2) :
                both[i] = IF i <= Len(w1) THEN w1[i] ELSE w2[i - Len(w1)]
      BY <2>2, <3>1, ConcatProperties
    <3>3. /\ both \in Seq(Nat) /\ Len(both) = n1 + n2
          /\ \A i \in 1..(n1 + n2) : both[i] = IF i <= n1 THEN w1[i] ELSE w2[i - n1]
      BY <2>2, <3>2
    <3>4. \A i \in 1..n1 : i \in 1..(n1 + n2) /\ i <= n1
      BY <1>9
    <3>5. \A i \in 1..n2 : n1 + i \in 1..(n1 + n2) /\ ~(n1 + i <= n1) /\ (n1 + i) - n1 = i
      BY <1>9
    <3>6. \A i \in 1..n1 : both[i] = w1[i]
      BY <3>3, <3>4
    <3>7. \A i \in 1..n2 : both[n1 + i] = w2[i]
      BY <3>3, <3>5
    <3>8. QED
      BY <3>1, <3>3, <3>6, <3>7
  <2>4. ASSUME NEW i \in 1..(n1 + n2)
        PROVE  w[i] = (w1 \o w2)[i]
    <3>1. i \in 1..n1 \/ (i - n1 \in 1..n2 /\ n1 + (i - n1) = i)
      BY <1>9
    <3>2. w[i] = WEIGHT[s[i].kind]
      BY <1>10, <2>1, <2>4 DEF Weights
    <3>3. CASE i \in 1..n1
      <4>1. w1[i] = WEIGHT[s1[i].kind] /\ s[i] = s1[i] /\ (w1 \o w2)[i] = w1[i]
        BY <1>9, <1>10, <2>1, <2>3, <3>3 DEF Weights
      <4>2. QED
        BY <3>2, <4>1
    <3>4. CASE i - n1 \in 1..n2 /\ n1 + (i - n1) = i
      <4>1. PICK j \in 1..n2 : n1 + j = i
        BY <3>4
      <4>2. w2[j] = WEIGHT[s2[j].kind] /\ s[n1 + j] = s2[j] /\ (w1 \o w2)[n1 + j] = w2[j]
        BY <1>9, <1>10, <2>1, <2>3 DEF Weights
      <4>3. QED
        BY <3>2, <4>1, <4>2
    <3>5. QED
      BY <3>1, <3>3, <3>4
  <2>5. w = w1 \o w2
    <3>1. PICK both : both = w1 \o w2
      OBVIOUS
    <3>2. /\ w \in Seq(Nat) /\ both \in Seq(Nat) /\ Len(w) = n1 + n2 /\ Len(both) = n1 + n2
          /\ \A i \in 1..(n1 + n2) : w[i] = both[i]
      BY <2>2, <2>3, <2>4, <3>1
    <3>3. w = both
      BY <3>2, SeqEqual
    <3>4. QED
      BY <3>1, <3>3
  <2>6. QED
    BY <2>1, <2>2, <2>5, TotalOfBoth
<1>13. s # <<>> <=> n1 + n2 # 0
  BY <1>9, <1>10, EmptySeq
<1>14. (n1 = 0 <=> about = 0) /\ (n2 = 0 <=> spoken = 0)
  BY <1>4, <1>5, <1>8, <1>9, EmptySeq
<1>15. Evidence(m, articles, cves) \in Nat /\ Total(Weights(s)) = Evidence(m, articles, cves)
  BY <1>4, <1>5, <1>6, <1>7, <1>12
<1>16. risky <= about
  <2>1. IsFiniteSet(About(m, cves))
    <3>1. About(m, cves) \in SUBSET ToSet(cves)
      BY DEF About
    <3>2. QED
      BY <3>1, ListIsFinite, FS_Subset DEF AreCves
  <2>2. {c \in About(m, cves) : c.is_actively_exploited} \in SUBSET About(m, cves)
    OBVIOUS
  <2>3. QED
    BY <1>2, <2>1, <2>2, FS_Subset
<1>17. s # <<>> <=> Evidence(m, articles, cves) > 0
  BY <1>4, <1>5, <1>6, <1>7, <1>9, <1>13, <1>14, <1>16
<1>18. QED
  BY <1>11, <1>15, <1>17

\* round(score / 10) is within half a point of the tenth.
LEMMA BaseIsATenth ==
    ASSUME NEW score \in 0..100
    PROVE  base_score(score) \in Nat /\ 10 * base_score(score) - score \in -5..5
<1>1. PICK tens, over : tens = score \div 10 /\ over = score % 10
  OBVIOUS
<1>2. tens \in Nat /\ over \in 0..9 /\ score = 10 * tens + over
  BY <1>1
<1>3. base_score(score) = IF over < 5 \/ (over = 5 /\ tens % 2 = 0) THEN tens ELSE tens + 1
  BY <1>1 DEF base_score
<1>4. CASE over < 5 \/ (over = 5 /\ tens % 2 = 0)
  BY <1>2, <1>3, <1>4
<1>5. CASE ~(over < 5 \/ (over = 5 /\ tens % 2 = 0))
  <2>1. base_score(score) = tens + 1 /\ over >= 5
    BY <1>2, <1>3, <1>5
  <2>2. QED
    BY <1>2, <2>1
<1>6. QED
  BY <1>4, <1>5

\* The findings are the matches with evidence, and score what that weighs.
LEMMA CorrelateExplains ==
    ASSUME NEW mm \in Seq(Match), NEW articles, NEW cves, IsList(articles), AreCves(cves),
           NEW all, all = correlate(mm, articles, cves)
    PROVE  /\ IsList(all)
           /\ \A i, j \in DOMAIN all : i < j => all[i].score >= all[j].score
           /\ \A f \in ToSet(all) :
                 /\ f.of \in ToSet(mm) /\ Evidence(f.of, articles, cves) \in Nat
                 /\ Evidence(f.of, articles, cves) > 0
                 /\ f.score = base_score(f.of.score) + Evidence(f.of, articles, cves)
           /\ \A m \in ToSet(mm) : Evidence(m, articles, cves) > 0 => \E f \in ToSet(all) : f.of = m
<1> DEFINE Signals(m) == _cve_signals(m, cves) \o _threat_vector_signals(m, articles)
<1>1. PICK places : places = {i \in DOMAIN mm : Signals(mm[i]) # <<>>}
  OBVIOUS
<1>2. PICK correlated : correlated = Picked(mm, places)
  OBVIOUS
<1>3. correlated = Kept(mm, LAMBDA m : Signals(m) # <<>>)
  BY <1>1, <1>2 DEF Kept
<1>4. IsList(mm) /\ places \in SUBSET DOMAIN mm
  BY <1>1, SeqIsList
<1>5. IsList(correlated) /\ ToSet(correlated) = {mm[i] : i \in places}
  BY <1>2, <1>4, PickedList
<1>6. PICK raw : raw = [i \in DOMAIN correlated |-> Finding(correlated[i], Signals(correlated[i]))]
  OBVIOUS
<1>7. PICK keys : keys = [i \in DOMAIN raw |-> raw[i].score]
  OBVIOUS
<1>8. all = InOrder(raw, keys)
  BY <1>3, <1>6, <1>7 DEF correlate, SortedDown, InOrder
<1>9. ASSUME NEW m
      PROVE  /\ Total(Weights(Signals(m))) = Evidence(m, articles, cves)
             /\ Evidence(m, articles, cves) \in Nat
             /\ Signals(m) # <<>> <=> Evidence(m, articles, cves) > 0
  <2>1. PICK s : s = _cve_signals(m, cves) \o _threat_vector_signals(m, articles)
    OBVIOUS
  <2>2. /\ Total(Weights(s)) = Evidence(m, articles, cves)
        /\ Evidence(m, articles, cves) \in Nat
        /\ s # <<>> <=> Evidence(m, articles, cves) > 0
    BY <2>1, MatchWeighs
  <2>3. QED
    BY <2>1, <2>2
<1>10. ASSUME NEW m
       PROVE  /\ Finding(m, Signals(m)).of = m
              /\ Finding(m, Signals(m)).score = base_score(m.score) + Evidence(m, articles, cves)
  <2>1. Finding(m, Signals(m)).score = base_score(m.score) + Total(Weights(Signals(m)))
    BY DEF Finding, Weights
  <2>2. Finding(m, Signals(m)).of = m
    BY DEF Finding
  <2>3. QED
    BY <1>9, <2>1, <2>2
<1>11. \A i \in DOMAIN mm : i \in places <=> Evidence(mm[i], articles, cves) > 0
  BY <1>1, <1>9
<1>12. \A i \in DOMAIN raw : /\ raw[i].of = correlated[i]
                             /\ raw[i].score = base_score(correlated[i].score)
                                                  + Evidence(correlated[i], articles, cves)
  BY <1>6, <1>10
<1>13. PICK n : n = Len(correlated)
  OBVIOUS
<1>14. n \in Nat /\ DOMAIN correlated = 1..n /\ DOMAIN raw = 1..n /\ DOMAIN keys = 1..n
  BY <1>5, <1>6, <1>7, <1>13, ListFacts
<1> HIDE DEF Signals
<1>15. \A i \in 1..n : correlated[i] \in ToSet(mm) /\ Evidence(correlated[i], articles, cves) > 0
  <2> SUFFICES ASSUME NEW i \in 1..n
               PROVE  correlated[i] \in ToSet(mm) /\ Evidence(correlated[i], articles, cves) > 0
    OBVIOUS
  <2>1. correlated[i] \in ToSet(correlated)
    BY <1>14 DEF ToSet
  <2>2. PICK k \in places : correlated[i] = mm[k]
    BY <1>5, <2>1
  <2>3. QED
    BY <1>4, <1>11, <2>2 DEF ToSet
<1>16. IsList(raw) /\ Len(raw) = n
  <2>1. raw = [i \in DOMAIN raw |-> raw[i]]
    BY <1>6
  <2>2. QED
    BY <1>14, <2>1, ListOver
<1>17. \A i \in 1..n : keys[i] = raw[i].score /\ raw[i].score \in Nat
  <2> SUFFICES ASSUME NEW i \in 1..n PROVE keys[i] = raw[i].score /\ raw[i].score \in Nat
    OBVIOUS
  <2>1. correlated[i] \in Match
    <3>1. ToSet(mm) \subseteq Match
      <4>1. \A k \in 1..Len(mm) : mm[k] \in Match
        BY ElementOfSeq
      <4>2. DOMAIN mm = 1..Len(mm)
        BY LenProperties
      <4>3. QED
        BY <4>1, <4>2 DEF ToSet
    <3>2. QED
      BY <1>15, <3>1
  <2>2. base_score(correlated[i].score) \in Nat
    BY <2>1, BaseIsATenth DEF Match
  <2>3. Evidence(correlated[i], articles, cves) \in Nat
    BY <1>9
  <2>4. raw[i].score = base_score(correlated[i].score) + Evidence(correlated[i], articles, cves)
    BY <1>12, <1>14
  <2>5. keys[i] = raw[i].score
    BY <1>7, <1>14
  <2>6. QED
    BY <2>2, <2>3, <2>4, <2>5
<1>18. keys \in Seq(Nat) /\ Len(keys) = n
  <2>1. keys \in [1..n -> Nat]
    BY <1>7, <1>14, <1>17
  <2>2. QED
    BY <1>14, <2>1, SeqDef, LenProperties
<1>19. all \in Seq(ToSet(raw)) /\ DOMAIN all = DOMAIN raw /\ ToSet(all) = ToSet(raw)
  <2>1. raw \in Seq(ToSet(raw)) /\ Len(keys) = Len(raw)
    BY <1>16, <1>18 DEF IsList
  <2>2. QED
    BY <1>8, <1>18, <2>1, SortedByKeys
<1>20. \A i, j \in DOMAIN all : i < j => all[i].score >= all[j].score
  <2>1. PICK at : at = Descending(keys)
    OBVIOUS
  <2>2. /\ \A i \in DOMAIN keys : at[i] \in DOMAIN keys
        /\ \A i, j \in DOMAIN keys : i < j => keys[at[i]] >= keys[at[j]]
    BY <1>18, <2>1, DescendingPlaces
  <2>3. \A i \in DOMAIN all : all[i] = raw[at[i]]
    BY <1>8, <1>19, <2>1 DEF InOrder
  <2>4. \A i \in DOMAIN all : at[i] \in 1..n /\ all[i].score = keys[at[i]]
    BY <1>14, <1>17, <1>19, <2>2, <2>3
  <2>5. QED
    BY <1>14, <1>19, <2>2, <2>4
<1>21. ASSUME NEW f \in ToSet(all)
       PROVE  /\ f.of \in ToSet(mm) /\ Evidence(f.of, articles, cves) \in Nat
              /\ Evidence(f.of, articles, cves) > 0
              /\ f.score = base_score(f.of.score) + Evidence(f.of, articles, cves)
  <2>1. PICK i \in DOMAIN raw : f = raw[i]
    BY <1>19, <1>21 DEF ToSet
  <2>2. f.of = correlated[i] /\ i \in 1..n
        /\ f.score = base_score(correlated[i].score) + Evidence(correlated[i], articles, cves)
    BY <1>12, <1>14, <2>1
  <2>3. Evidence(correlated[i], articles, cves) \in Nat
    BY <1>9
  <2>4. QED
    BY <1>15, <2>2, <2>3
<1>22. ASSUME NEW m \in ToSet(mm), Evidence(m, articles, cves) > 0
       PROVE  \E f \in ToSet(all) : f.of = m
  <2>1. PICK k \in DOMAIN mm : mm[k] = m
    BY DEF ToSet
  <2>2. k \in places
    BY <1>11, <1>22, <2>1
  <2>3. m \in ToSet(correlated)
    BY <1>5, <2>1, <2>2
  <2>4. PICK i \in DOMAIN correlated : correlated[i] = m
    BY <2>3 DEF ToSet
  <2>5. raw[i].of = m /\ raw[i] \in ToSet(raw)
    BY <1>12, <1>14, <2>4 DEF ToSet
  <2>6. QED
    BY <1>19, <2>5
<1>23. QED
  BY <1>19, <1>20, <1>21, <1>22, SeqIsList

-----------------------------------------------------------------------------
(* What is parsed of the CVE feeds *)

NvdRecord(cve, now_) ==
    [cve_id |-> cve.id,
     description |-> _extract_description(cve),
     cvss_score |-> _extract_cvss_score(cve),
     published_at |-> _parse_datetime(cve.published, now_),
     is_actively_exploited |-> FALSE,
     matched_products |-> <<>>, source |-> {"NVD"}]

ProductsOf(item) == Kept(<<item.vendorProject, item.product>>, LAMBDA p : p # Blank)

KevRecord(item, now_) ==
    [cve_id |-> item.cveID,
     description |-> item.shortDescription,
     cvss_score |-> Blank,
     published_at |-> _parse_datetime(item.dateAdded, now_),
     is_actively_exploited |-> TRUE,
     matched_products |-> ProductsOf(item),
     source |-> {"CISA KEV"}]

NvdTyped(cve) ==
    /\ IsList(cve.descriptions) /\ \A d \in ToSet(cve.descriptions) : d.value \in Texts
    /\ cve.published \in Nat \cup {Blank}

KevTyped(item) ==
    /\ {item.vendorProject, item.product} \subseteq Texts \cup {Blank}
    /\ item.shortDescription \in Texts
    /\ item.dateAdded \in Nat \cup {Blank}

\* The first of what is kept, if the first of all is.
LEMMA FirstIsKept ==
    ASSUME NEW s, IsList(s), NEW places \in SUBSET DOMAIN s, 1 \in places
    PROVE  Picked(s, places)[1] = s[1] /\ 1 \in DOMAIN Picked(s, places)
<1>1. PICK at, r : at = Ascending(places) /\ r = Picked(s, places)
  OBVIOUS
<1>2. places \in SUBSET Nat /\ IsFiniteSet(places) /\ \A p \in places : p >= 1
  BY PlacesAreFinite, ListFacts DEF IsList
<1>3. /\ DOMAIN at = 1..Cardinality(places) /\ DOMAIN r = 1..Cardinality(places)
      /\ \A n \in DOMAIN r : at[n] \in places /\ r[n] = s[at[n]]
  BY <1>1, PickedList
<1>4. PICK n \in DOMAIN r : at[n] = 1
  BY <1>1, PickedList
<1>5. Ascends(at)
  BY <1>1, <1>2, AscendingIsSorted
<1>6. Cardinality(places) \in Nat
  BY <1>2, FS_CardinalityType
<1>7. 1 \in DOMAIN r /\ n \in Nat /\ n >= 1
  BY <1>3, <1>4, <1>6
<1>8. n = 1
  <2> SUFFICES ASSUME n # 1 PROVE FALSE
    OBVIOUS
  <2>1. 1 < n
    BY <1>7
  <2>2. at[1] < at[n]
    BY <1>3, <1>4, <1>5, <1>7, <2>1 DEF Ascends
  <2>3. at[1] \in Nat /\ at[1] >= 1
    BY <1>2, <1>3, <1>7
  <2>4. QED
    BY <1>4, <2>2, <2>3
<1>9. QED
  BY <1>1, <1>3, <1>4, <1>7, <1>8

\* The description is one of the record's or the empty text (_extract_description).
LEMMA DescriptionIsText ==
    ASSUME NEW cve, NvdTyped(cve)
    PROVE  _extract_description(cve) \in Texts
<1>1. PICK all : all = cve.descriptions
  OBVIOUS
<1>2. PICK places : places = {i \in DOMAIN all : all[i].lang = "en"}
  OBVIOUS
<1>3. PICK english : english = Picked(all, places)
  OBVIOUS
<1>4. english = Kept(cve.descriptions, LAMBDA d : d.lang = "en")
  BY <1>1, <1>2, <1>3 DEF Kept
<1>5. _extract_description(cve) = IF english = <<>> THEN NoText ELSE english[1].value
  BY <1>4 DEF _extract_description
<1>6. IsList(all) /\ places \in SUBSET DOMAIN all
  BY <1>1, <1>2 DEF NvdTyped
<1>7. IsList(english) /\ ToSet(english) \subseteq ToSet(all)
  BY <1>3, <1>6, PickedList DEF ToSet
<1>8. ASSUME english # <<>>
      PROVE  english[1] \in ToSet(all)
  <2>1. DOMAIN english = 1..Len(english) /\ Len(english) \in Nat /\ DOMAIN english # {}
    BY <1>7, <1>8, ListFacts, ListIsFinite
  <2>2. 1 \in DOMAIN english
    BY <2>1
  <2>3. QED
    BY <1>7, <2>2 DEF ToSet
<1>9. QED
  BY <1>1, <1>5, <1>8, WordingAssumption DEF NvdTyped

\* The products of a KEV item are its vendor and product, where it has them.
LEMMA ProductsAreNamed ==
    ASSUME NEW item, KevTyped(item)
    PROVE  /\ IsList(ProductsOf(item))
           /\ ToSet(ProductsOf(item)) = {item.vendorProject, item.product} \ {Blank}
<1>1. PICK both : both = <<item.vendorProject, item.product>>
  OBVIOUS
<1>2. PICK places : places = {i \in DOMAIN both : both[i] # Blank}
  OBVIOUS
<1>3. ProductsOf(item) = Picked(both, places)
  BY <1>1, <1>2 DEF ProductsOf, Kept
<1>4. IsList(both) /\ DOMAIN both = {1, 2} /\ both[1] = item.vendorProject /\ both[2] = item.product
  <2>1. DOMAIN both = 1..2 /\ both = [i \in DOMAIN both |-> both[i]]
        /\ both[1] = item.vendorProject /\ both[2] = item.product
    BY <1>1
  <2>2. 2 \in Nat /\ 1..2 = {1, 2}
    OBVIOUS
  <2>3. QED
    BY <2>1, <2>2, ListOver
<1>5. places \in SUBSET DOMAIN both
  BY <1>2
<1>6. IsList(Picked(both, places)) /\ ToSet(Picked(both, places)) = {both[i] : i \in places}
  BY <1>4, <1>5, PickedList
<1>7. {both[i] : i \in places} = {item.vendorProject, item.product} \ {Blank}
  BY <1>2, <1>4
<1>8. QED
  BY <1>3, <1>6, <1>7

\* Every item with an id becomes a record, and nothing else does (parse_nvd_response).
LEMMA NvdIsParsed ==
    ASSUME NEW items, IsList(items), NEW now_
    PROVE  /\ IsList(parse_nvd_response(items, now_))
           /\ ToSet(parse_nvd_response(items, now_))
                 = {NvdRecord(cve, now_) : cve \in {cve \in ToSet(items) : cve.id # Blank}}
<1>1. PICK places : places = {i \in DOMAIN items : items[i].id # Blank}
  OBVIOUS
<1>2. PICK named : named = Picked(items, places)
  OBVIOUS
<1>3. named = Kept(items, LAMBDA cve : cve.id # Blank)
  BY <1>1, <1>2 DEF Kept
<1>4. PICK parsed : parsed = [i \in DOMAIN named |-> NvdRecord(named[i], now_)]
  OBVIOUS
<1>5. parsed = parse_nvd_response(items, now_)
  BY <1>3, <1>4 DEF parse_nvd_response, NvdRecord
<1>6. places \in SUBSET DOMAIN items
  BY <1>1
<1>7. IsList(named) /\ ToSet(named) = {items[i] : i \in places}
  BY <1>2, <1>6, PickedList
<1>8. ToSet(named) = {cve \in ToSet(items) : cve.id # Blank}
  BY <1>1, <1>7 DEF ToSet
<1>9. DOMAIN parsed = DOMAIN named /\ \A i \in DOMAIN named : parsed[i] = NvdRecord(named[i], now_)
  BY <1>4
<1>10. IsList(parsed)
  <2>1. DOMAIN parsed = 1..Len(named) /\ Len(named) \in Nat /\ parsed = [i \in DOMAIN parsed |-> parsed[i]]
    BY <1>4, <1>7, ListFacts
  <2>2. QED
    BY <2>1, ListOver
<1>11. ToSet(parsed) = {NvdRecord(cve, now_) : cve \in ToSet(named)}
  BY <1>9 DEF ToSet
<1>12. QED
  BY <1>5, <1>8, <1>10, <1>11

\* Every item with an id becomes a record, and nothing else does
\* (parse_cisa_kev_response).
LEMMA KevIsParsed ==
    ASSUME NEW items, IsList(items), NEW now_
    PROVE  /\ IsList(parse_cisa_kev_response(items, now_))
           /\ ToSet(parse_cisa_kev_response(items, now_))
                 = {KevRecord(item, now_) : item \in {item \in ToSet(items) : item.cveID # Blank}}
<1>1. PICK places : places = {i \in DOMAIN items : items[i].cveID # Blank}
  OBVIOUS
<1>2. PICK named : named = Picked(items, places)
  OBVIOUS
<1>3. named = Kept(items, LAMBDA item : item.cveID # Blank)
  BY <1>1, <1>2 DEF Kept
<1>4. PICK parsed : parsed = [i \in DOMAIN named |-> KevRecord(named[i], now_)]
  OBVIOUS
<1>5. parsed = parse_cisa_kev_response(items, now_)
  BY <1>3, <1>4 DEF parse_cisa_kev_response, KevRecord, ProductsOf
<1>6. places \in SUBSET DOMAIN items
  BY <1>1
<1>7. IsList(named) /\ ToSet(named) = {items[i] : i \in places}
  BY <1>2, <1>6, PickedList
<1>8. ToSet(named) = {item \in ToSet(items) : item.cveID # Blank}
  BY <1>1, <1>7 DEF ToSet
<1>9. DOMAIN parsed = DOMAIN named /\ \A i \in DOMAIN named : parsed[i] = KevRecord(named[i], now_)
  BY <1>4
<1>10. IsList(parsed)
  <2>1. DOMAIN parsed = 1..Len(named) /\ Len(named) \in Nat /\ parsed = [i \in DOMAIN parsed |-> parsed[i]]
    BY <1>4, <1>7, ListFacts
  <2>2. QED
    BY <2>1, ListOver
<1>11. ToSet(parsed) = {KevRecord(item, now_) : item \in ToSet(named)}
  BY <1>9 DEF ToSet
<1>12. QED
  BY <1>5, <1>8, <1>10, <1>11

-----------------------------------------------------------------------------
(* What the records of one CVE are joined to *)

Fields == {"cve_id", "description", "cvss_score", "published_at", "is_actively_exploited",
           "matched_products", "source"}

RecordOf(r, id) ==
    /\ DOMAIN r = Fields /\ r.cve_id = id /\ r.description \in Texts /\ r.published_at \in Nat
    /\ IsList(r.matched_products)

NvdSays(r, id) ==
    RecordOf(r, id) /\ ~r.is_actively_exploited /\ r.matched_products = <<>> /\ r.source = {"NVD"}

KevSays(r, id) == RecordOf(r, id) /\ r.is_actively_exploited /\ r.source = {"CISA KEV"}

\* Of what the joined record is made.
JoinsThem(c, id, nvd, kev) ==
    /\ c.cve_id = id /\ c.published_at \in Nat /\ DOMAIN c = Fields
    /\ c.is_actively_exploited <=> kev # {}
    /\ nvd # {} => "NVD" \in c.source
    /\ "CISA KEV" \in c.source <=> kev # {}
    /\ nvd # {} => c.cvss_score \in {r.cvss_score : r \in nvd}
    /\ nvd # {} /\ (\A r \in nvd : r.description # NoText) => c.description \in {r.description : r \in nvd}
    /\ c.description \in {r.description : r \in nvd \cup kev}
    /\ IsList(c.matched_products)
    /\ ToSet(c.matched_products) = UNION {ToSet(r.matched_products) : r \in kev}
    /\ c.source = {"CISA KEV"} => \A r \in kev : r = c
    /\ c.source # {"CISA KEV"} => IsInjective(c.matched_products)

\* The first description there is.
LEMMA FirstText ==
    ASSUME NEW s, IsList(s), s # <<>>, NEW places, places = {i \in DOMAIN s : s[i] # NoText},
           NEW r, r = Picked(s, places),
           NEW text, text = IF r = <<>> THEN NoText ELSE Head(r)
    PROVE  /\ text \in ToSet(s)
           /\ s[1] # NoText => text = s[1]
<1>1. places \in SUBSET DOMAIN s
  OBVIOUS
<1>3. IsList(r) /\ ToSet(r) = {s[i] : i \in places} /\ (r = <<>> <=> places = {})
  <2>1. PICK kept : kept = places
    OBVIOUS
  <2>2. /\ IsList(Picked(s, kept)) /\ ToSet(Picked(s, kept)) = {s[i] : i \in kept}
        /\ Picked(s, kept) = <<>> <=> kept = {}
    <3>1. kept \in SUBSET DOMAIN s
      BY <1>1, <2>1
    <3>2. QED
      BY <3>1, PickedList
  <2>3. QED
    BY <2>1, <2>2
<1>4. DOMAIN s # {} /\ DOMAIN s = 1..Len(s) /\ Len(s) \in Nat /\ 1 \in DOMAIN s
  <2>1. DOMAIN s # {} /\ DOMAIN s = 1..Len(s) /\ Len(s) \in Nat
    BY ListIsFinite, ListFacts
  <2>2. QED
    BY <2>1
<1>5. r # <<>> => 1 \in DOMAIN r /\ Head(r) = r[1]
  <2> SUFFICES ASSUME r # <<>> PROVE 1 \in DOMAIN r /\ Head(r) = r[1]
    OBVIOUS
  <2>1. DOMAIN r # {} /\ DOMAIN r = 1..Len(r) /\ Len(r) \in Nat /\ r \in Seq(ToSet(r))
    BY <1>3, ListIsFinite, ListFacts DEF IsList
  <2>2. QED
    BY <2>1
<1>6. text \in ToSet(s)
  <2>1. CASE r = <<>>
    <3>1. s[1] = NoText
      BY <1>1, <1>3, <1>4, <2>1
    <3>2. QED
      BY <1>4, <2>1, <3>1 DEF ToSet
  <2>2. CASE r # <<>>
    <3>1. text \in ToSet(r)
      BY <1>5, <2>2 DEF ToSet
    <3>2. QED
      BY <1>1, <1>3, <3>1 DEF ToSet
  <2>3. QED
    BY <2>1, <2>2
<1>7. ASSUME s[1] # NoText
      PROVE  text = s[1]
  <2>1. 1 \in places
    BY <1>1, <1>4, <1>7
  <2>2. Picked(s, places)[1] = s[1]
    BY <1>1, <2>1, FirstIsKept
  <2>3. QED
    BY <1>3, <1>5, <2>1, <2>2
<1>8. QED
  BY <1>6, <1>7

\* The products of all records.
ProductsOver(first, s) == FromKeys(first \o FlattenSeq([k \in DOMAIN s |-> s[k].matched_products]))

\* Folding over records collects the products of all, each once.
LEMMA AllProducts ==
    ASSUME NEW s, IsList(s), \A i \in DOMAIN s : IsList(s[i].matched_products),
           NEW first, IsList(first),
           NEW r, r = ProductsOver(first, s)
    PROVE  /\ IsList(r) /\ IsInjective(r)
           /\ ToSet(r) = ToSet(first) \cup UNION {ToSet(s[i].matched_products) : i \in DOMAIN s}
<1>1. PICK ss : ss = [k \in DOMAIN s |-> s[k].matched_products]
  OBVIOUS
<1>2. PICK T : T = ToSet(first) \cup UNION {ToSet(s[i].matched_products) : i \in DOMAIN s}
  OBVIOUS
<1>3. DOMAIN s = 1..Len(s) /\ Len(s) \in Nat
  BY ListFacts
<1>4. \A k \in DOMAIN s : s[k].matched_products \in Seq(T)
  <2> SUFFICES ASSUME NEW k \in DOMAIN s PROVE s[k].matched_products \in Seq(T)
    OBVIOUS
  <2>1. PICK p : p = s[k].matched_products
    OBVIOUS
  <2>2. p \in Seq(ToSet(p)) /\ ToSet(p) \subseteq T
    BY <1>2, <2>1 DEF IsList
  <2>3. QED
    BY <2>1, <2>2, SeqOfItsElements
<1>5. ss \in Seq(Seq(T)) /\ DOMAIN ss = DOMAIN s /\ \A k \in DOMAIN s : ss[k] = s[k].matched_products
  <2>1. ss \in [1..Len(s) -> Seq(T)]
    BY <1>1, <1>3, <1>4
  <2>2. QED
    BY <1>1, <1>3, <2>1, SeqDef
<1>6. PICK rest : rest = FlattenSeq(ss)
  OBVIOUS
<1>7. rest \in Seq(T) /\ ToSet(rest) = UNION {ToSet(s[i].matched_products) : i \in DOMAIN s}
  <2>1. rest \in Seq(T) /\ ToSet(rest) = UNION {ToSet(ss[i]) : i \in DOMAIN ss}
    BY <1>5, <1>6, FlattenedElements
  <2>2. QED
    BY <1>5, <2>1
<1>8. first \in Seq(T)
  BY <1>2, SeqOfItsElements DEF IsList
<1>9. first \o rest \in Seq(T) /\ ToSet(first \o rest) = T
  <2>1. ToSet(first \o rest) = ToSet(first) \cup ToSet(rest)
    BY <1>7, <1>8, ToSetOfBoth
  <2>2. QED
    BY <1>2, <1>7, <1>8, <2>1, ConcatProperties
<1>10. PICK both : both = first \o rest
  OBVIOUS
<1>11. r = FromKeys(both)
  BY <1>1, <1>6, <1>10 DEF ProductsOver
<1>12. r \in Seq(T) /\ IsInjective(r) /\ ToSet(r) = T
  BY <1>9, <1>10, <1>11, FromKeysIsUnique
<1>13. QED
  BY <1>2, <1>12, SeqIsList

\* The first and the last element, and the rest, of a list that has some.
LEMMA EndsOfList ==
    ASSUME NEW s, IsList(s), s # <<>>
    PROVE  /\ Last(s) \in ToSet(s) /\ Head(s) \in ToSet(s)
           /\ IsList(Tail(s)) /\ ToSet(s) = {Head(s)} \cup ToSet(Tail(s))
<1>1. DOMAIN s = 1..Len(s) /\ Len(s) \in Nat /\ Len(s) >= 1
  <2>1. DOMAIN s # {} /\ DOMAIN s = 1..Len(s) /\ Len(s) \in Nat
    BY ListIsFinite, ListFacts
  <2>2. QED
    BY <2>1
<1>2. s \in Seq(ToSet(s))
  BY DEF IsList
<1>3. Head(s) = s[1] /\ Last(s) = s[Len(s)] /\ 1 \in DOMAIN s /\ Len(s) \in DOMAIN s
  BY <1>1, <1>2 DEF Last
<1>4. PICK rest : rest = Tail(s)
  OBVIOUS
<1>5. rest \in Seq(ToSet(s)) /\ Len(rest) = Len(s) - 1 /\ \A i \in 1..Len(rest) : rest[i] = s[i + 1]
  BY <1>1, <1>2, <1>4, HeadTailProperties
<1>6. DOMAIN rest = 1..Len(rest) /\ IsList(rest)
  BY <1>5, SeqIsList, LenProperties
<1>7. ToSet(s) = {Head(s)} \cup ToSet(rest)
  <2>1. \A i \in DOMAIN s : i = 1 \/ (i - 1 \in DOMAIN rest /\ rest[i - 1] = s[i])
    BY <1>1, <1>5, <1>6
  <2>2. \A i \in DOMAIN rest : rest[i] \in ToSet(s)
    BY <1>1, <1>5, <1>6 DEF ToSet
  <2>3. ToSet(s) \subseteq {Head(s)} \cup ToSet(rest)
    BY <1>3, <2>1 DEF ToSet
  <2>4. ToSet(rest) \subseteq ToSet(s) /\ Head(s) \in ToSet(s)
    BY <1>3, <2>2 DEF ToSet
  <2>5. QED
    BY <2>3, <2>4
<1>8. QED
  BY <1>3, <1>4, <1>6, <1>7 DEF ToSet

\* A record and what its further records add to it.
TextsOf(existing, further) ==
    <<existing.description>> \o [k \in DOMAIN further |-> further[k].description]

FirstSaid(said) == LET texts == Picked(said, {i \in DOMAIN said : said[i] # NoText})
                 IN  IF texts = <<>> THEN NoText ELSE Head(texts)

TakenUp(existing, further) ==
    [existing EXCEPT !.is_actively_exploited = TRUE,
                     !.matched_products = ProductsOver(existing.matched_products, further),
                     !.description = FirstSaid(TextsOf(existing, further)),
                     !.source = {"NVD", "CISA KEV"}]

TakesUp(c, existing, further, id) ==
    /\ DOMAIN c = Fields /\ c.cve_id = id /\ c.published_at \in Nat
    /\ c.is_actively_exploited = TRUE /\ c.source = {"NVD", "CISA KEV"}
    /\ c.cvss_score = existing.cvss_score
    /\ c.description \in {existing.description} \cup {r.description : r \in ToSet(further)}
    /\ existing.description # NoText => c.description = existing.description
    /\ IsList(c.matched_products) /\ IsInjective(c.matched_products)
    /\ ToSet(c.matched_products)
          = ToSet(existing.matched_products) \cup UNION {ToSet(r.matched_products) : r \in ToSet(further)}

\* Taking up KEV's records of a CVE marks it exploited, adds their products and
\* keeps the score and the text that NVD gave.
LEMMA JoinTakesUp ==
    ASSUME NEW id, NEW existing, RecordOf(existing, id),
           NEW further, IsList(further), further # <<>>, \A r \in ToSet(further) : KevSays(r, id)
    PROVE  TakesUp(TakenUp(existing, further), existing, further, id)
<1>0. PICK more, said, text, c : /\ c = TakenUp(existing, further)
                                 /\ more = ProductsOver(existing.matched_products, further)
                              /\ said = TextsOf(existing, further)
                              /\ text = FirstSaid(said)
  OBVIOUS
<1>1. /\ DOMAIN c = Fields /\ c.cve_id = existing.cve_id /\ c.published_at = existing.published_at
      /\ c.is_actively_exploited = TRUE /\ c.source = {"NVD", "CISA KEV"}
      /\ c.cvss_score = existing.cvss_score /\ c.description = text /\ c.matched_products = more
  BY <1>0 DEF RecordOf, Fields, TakenUp
<1>2. DOMAIN further = 1..Len(further) /\ Len(further) \in Nat
  BY ListFacts
<1>3. \A k \in DOMAIN further : further[k] \in ToSet(further) /\ RecordOf(further[k], id)
  BY DEF ToSet, KevSays
<1>4. /\ IsList(more) /\ IsInjective(more)
      /\ ToSet(more) = ToSet(existing.matched_products)
                          \cup UNION {ToSet(r.matched_products) : r \in ToSet(further)}
  <2>2. IsList(existing.matched_products) /\ \A i \in DOMAIN further : IsList(further[i].matched_products)
    BY <1>3 DEF RecordOf
  <2>4. /\ IsList(more) /\ IsInjective(more)
        /\ ToSet(more) = ToSet(existing.matched_products)
                            \cup UNION {ToSet(further[i].matched_products) : i \in DOMAIN further}
    BY <1>0, <2>2, AllProducts
  <2>5. {ToSet(further[i].matched_products) : i \in DOMAIN further}
            = {ToSet(r.matched_products) : r \in ToSet(further)}
    <3>1. ToSet(further) = {further[i] : i \in DOMAIN further}
      BY DEF ToSet
    <3>2. QED
      BY <3>1
  <2>6. QED
    BY <2>4, <2>5
<1>5. /\ IsList(said) /\ said # <<>> /\ said[1] = existing.description
      /\ ToSet(said) = {existing.description} \cup {r.description : r \in ToSet(further)}
  <2>1. PICK first, rest : /\ first = <<existing.description>>
                           /\ rest = [k \in DOMAIN further |-> further[k].description]
    OBVIOUS
  <2>2. PICK T : T = {existing.description} \cup {r.description : r \in ToSet(further)}
    OBVIOUS
  <2>3. first \in Seq(T) /\ Len(first) = 1 /\ first[1] = existing.description
    BY <2>1, <2>2
  <2>4. rest \in Seq(T) /\ DOMAIN rest = DOMAIN further /\ \A k \in DOMAIN rest : rest[k] = further[k].description
    <3>1. \A k \in DOMAIN further : further[k].description \in T
      BY <1>3, <2>2
    <3>2. rest \in [1..Len(further) -> T]
      BY <1>2, <2>1, <3>1
    <3>3. QED
      BY <1>2, <2>1, <3>2, SeqDef
  <2>5. said = first \o rest
    BY <1>0, <2>1 DEF TextsOf
  <2>6. said \in Seq(T) /\ said[1] = first[1] /\ Len(said) = 1 + Len(rest) /\ Len(rest) \in Nat
    <3>1. PICK both : both = first \o rest
      OBVIOUS
    <3>2. /\ both \in Seq(T) /\ Len(both) = Len(first) + Len(rest)
          /\ \A i \in 1..(Len(first) + Len(rest)) :
                both[i] = IF i <= Len(first) THEN first[i] ELSE rest[i - Len(first)]
      BY <2>3, <2>4, <3>1, ConcatProperties
    <3>3. Len(rest) \in Nat
      BY <2>4, LenProperties
    <3>4. both[1] = first[1]
      <4>1. 1 \in 1..(Len(first) + Len(rest)) /\ 1 <= Len(first)
        BY <2>3, <3>3
      <4>2. both[1] = IF 1 <= Len(first) THEN first[1] ELSE rest[1 - Len(first)]
        BY <3>2, <4>1
      <4>3. QED
        BY <4>1, <4>2
    <3>5. said = both /\ Len(first) = 1
      BY <2>3, <2>5, <3>1
    <3>6. Len(both) = 1 + Len(rest)
      BY <3>2, <3>5
    <3>7. QED
      BY <3>2, <3>3, <3>4, <3>5, <3>6
  <2>7. ToSet(said) = ToSet(first) \cup ToSet(rest)
    BY <2>3, <2>4, <2>5, ToSetOfBoth
  <2>8. ToSet(first) = {existing.description}
    BY <2>1 DEF ToSet
  <2>9. ToSet(rest) = {r.description : r \in ToSet(further)}
    BY <2>4 DEF ToSet
  <2>10. said # <<>>
    <3>1. Len(said) # 0
      BY <2>6
    <3>2. QED
      BY <3>1
  <2>11. QED
    BY <2>3, <2>6, <2>7, <2>8, <2>9, <2>10, SeqIsList
<1>6. text \in ToSet(said) /\ (said[1] # NoText => text = said[1])
  <2>1. PICK places, texts : places = {i \in DOMAIN said : said[i] # NoText} /\ texts = Picked(said, places)
    OBVIOUS
  <2>2. text = IF texts = <<>> THEN NoText ELSE Head(texts)
    BY <1>0, <2>1 DEF FirstSaid
  <2>3. QED
    BY <1>5, <2>1, <2>2, FirstText
<1>7. TakesUp(c, existing, further, id)
  BY <1>1, <1>4, <1>5, <1>6 DEF RecordOf, TakesUp
<1>8. QED
  BY <1>0, <1>7

\* The records of one CVE are joined onto NVD's last, or onto KEV's first.
LEMMA JoinedIsOf ==
    ASSUME NEW nvd, NEW kev
    PROVE  /\ nvd # <<>> => Joined(nvd, kev) = IF kev = <<>> THEN Last(nvd) ELSE TakenUp(Last(nvd), kev)
           /\ nvd = <<>> => Joined(nvd, kev) = IF Tail(kev) = <<>> THEN Head(kev)
                                                                   ELSE TakenUp(Head(kev), Tail(kev))
<1>1. ASSUME NEW existing, NEW further, existing = IF nvd # <<>> THEN Last(nvd) ELSE Head(kev),
             further = IF nvd # <<>> THEN kev ELSE Tail(kev)
      PROVE  Joined(nvd, kev) = IF further = <<>> THEN existing ELSE TakenUp(existing, further)
  BY <1>1 DEF Joined, TakenUp, ProductsOver, FirstSaid, TextsOf, Kept
<1>2. CASE nvd # <<>>
  <2>1. Last(nvd) = IF nvd # <<>> THEN Last(nvd) ELSE Head(kev)
    BY <1>2
  <2>2. kev = IF nvd # <<>> THEN kev ELSE Tail(kev)
    BY <1>2
  <2>3. QED
    BY <1>1, <1>2, <2>1, <2>2
<1>3. CASE nvd = <<>>
  <2>1. Head(kev) = IF nvd # <<>> THEN Last(nvd) ELSE Head(kev)
    BY <1>3
  <2>2. Tail(kev) = IF nvd # <<>> THEN kev ELSE Tail(kev)
    BY <1>3
  <2>3. QED
    BY <1>1, <1>3, <2>1, <2>2
<1>4. QED
  BY <1>2, <1>3

\* The records of a CVE are joined to one that says what they say of it.
LEMMA JoinedIsFaithful ==
    ASSUME NEW id, NEW nvd, IsList(nvd), \A r \in ToSet(nvd) : NvdSays(r, id),
           NEW kev, IsList(kev), \A r \in ToSet(kev) : KevSays(r, id),
           nvd # <<>> \/ kev # <<>>
    PROVE  JoinsThem(Joined(nvd, kev), id, ToSet(nvd), ToSet(kev))
<1>1. PICK existing, further :
          /\ existing = IF nvd # <<>> THEN Last(nvd) ELSE Head(kev)
          /\ further = IF nvd # <<>> THEN kev ELSE Tail(kev)
  OBVIOUS
<1>2. PICK N, K, F : N = ToSet(nvd) /\ K = ToSet(kev) /\ F = ToSet(further)
  OBVIOUS
<1>3. (nvd = <<>> <=> N = {}) /\ (kev = <<>> <=> K = {})
  <2>1. \A s : IsList(s) => (s = <<>> <=> DOMAIN s = {})
    BY ListIsFinite
  <2>2. \A s : DOMAIN s = {} <=> ToSet(s) = {}
    BY DEF ToSet
  <2>3. QED
    BY <1>2, <2>1, <2>2
<1>4. /\ IsList(further) /\ F \subseteq K
      /\ N # {} => existing \in N /\ F = K
      /\ N = {} => existing \in K /\ K = {existing} \cup F
  <2>1. CASE nvd # <<>>
    BY <1>1, <1>2, <1>3, <2>1, EndsOfList
  <2>2. CASE nvd = <<>>
    <3>1. kev # <<>> /\ existing = Head(kev) /\ further = Tail(kev)
      BY <1>1, <2>2
    <3>2. /\ Head(kev) \in ToSet(kev) /\ IsList(Tail(kev))
          /\ ToSet(kev) = {Head(kev)} \cup ToSet(Tail(kev))
      BY <3>1, EndsOfList
    <3>3. QED
      BY <1>2, <1>3, <2>2, <3>1, <3>2
  <2>3. QED
    BY <2>1, <2>2
<1>5. further = <<>> <=> F = {}
  <2>1. further = <<>> <=> DOMAIN further = {}
    BY <1>4, ListIsFinite
  <2>2. QED
    BY <1>2, <2>1 DEF ToSet
<1>6. RecordOf(existing, id) /\ \A r \in ToSet(further) : KevSays(r, id)
  BY <1>2, <1>4 DEF NvdSays, KevSays
<1>11. PICK c : c = TakenUp(existing, further)
  OBVIOUS
<1>12. PICK j : j = Joined(nvd, kev)
  OBVIOUS
<1>13. j = IF further = <<>> THEN existing ELSE c
  <2>1. CASE nvd # <<>>
    <3>1. Joined(nvd, kev) = IF kev = <<>> THEN Last(nvd) ELSE TakenUp(Last(nvd), kev)
      BY <2>1, JoinedIsOf
    <3>2. QED
      BY <1>1, <1>11, <1>12, <2>1, <3>1
  <2>2. CASE nvd = <<>>
    <3>1. Joined(nvd, kev) = IF Tail(kev) = <<>> THEN Head(kev) ELSE TakenUp(Head(kev), Tail(kev))
      BY <2>2, JoinedIsOf
    <3>2. QED
      BY <1>1, <1>11, <1>12, <2>2, <3>1
  <2>3. QED
    BY <2>1, <2>2
<1>14. CASE F = {}
  <2>1. j = existing
    BY <1>5, <1>13, <1>14
  <2>2. CASE N # {}
    <3>1. K = {} /\ existing \in N
      BY <1>4, <1>14, <2>2
    <3>2. NvdSays(existing, id)
      BY <1>2, <3>1
    <3>3. UNION {ToSet(r.matched_products) : r \in K} = {} /\ ToSet(<<>>) = {} /\ IsInjective(<<>>)
      BY <3>1 DEF ToSet, IsInjective
    <3>4. JoinsThem(existing, id, N, K)
      BY <2>2, <3>1, <3>2, <3>3 DEF JoinsThem, NvdSays, RecordOf
    <3>5. QED
      BY <1>2, <1>12, <2>1, <3>4
  <2>3. CASE N = {}
    <3>1. K = {existing}
      BY <1>4, <1>14, <2>3
    <3>2. KevSays(existing, id)
      BY <1>2, <3>1
    <3>3. UNION {ToSet(r.matched_products) : r \in K} = ToSet(existing.matched_products)
      BY <3>1
    <3>4. JoinsThem(existing, id, N, K)
      BY <2>3, <3>1, <3>2, <3>3 DEF JoinsThem, KevSays, RecordOf
    <3>5. QED
      BY <1>2, <1>12, <2>1, <3>4
  <2>4. QED
    BY <2>2, <2>3
<1>15. CASE F # {}
  <2>1. j = c /\ further # <<>>
    BY <1>5, <1>13, <1>15
  <2>2. /\ DOMAIN c = Fields /\ c.cve_id = id /\ c.published_at \in Nat
        /\ c.is_actively_exploited = TRUE /\ c.source = {"NVD", "CISA KEV"}
        /\ c.cvss_score = existing.cvss_score
        /\ c.description \in {existing.description} \cup {r.description : r \in ToSet(further)}
        /\ existing.description # NoText => c.description = existing.description
        /\ IsList(c.matched_products) /\ IsInjective(c.matched_products)
        /\ ToSet(c.matched_products)
              = ToSet(existing.matched_products) \cup UNION {ToSet(r.matched_products) : r \in ToSet(further)}
    <3>1. TakesUp(TakenUp(existing, further), existing, further, id)
      BY <1>4, <1>6, <2>1, JoinTakesUp
    <3>2. QED
      BY <1>11, <3>1 DEF TakesUp
  <2>3. K # {} /\ existing \in N \cup K
    BY <1>4, <1>15
  <2>4. ToSet(c.matched_products) = UNION {ToSet(r.matched_products) : r \in K}
    <3>1. CASE N # {}
      <4>1. existing.matched_products = <<>> /\ F = K
        BY <1>2, <1>4, <3>1 DEF NvdSays
      <4>2. ToSet(<<>>) = {}
        BY DEF ToSet
      <4>3. QED
        BY <1>2, <2>2, <4>1, <4>2
    <3>2. CASE N = {}
      BY <1>2, <1>4, <2>2, <3>2
    <3>3. QED
      BY <3>1, <3>2
  <2>5. c.description \in {r.description : r \in N \cup K}
    BY <1>2, <1>4, <2>2, <2>3
  <2>6. /\ N # {} /\ (\A r \in N : r.description # NoText) => c.description \in {r.description : r \in N}
        /\ N # {} => c.cvss_score \in {r.cvss_score : r \in N}
    BY <1>4, <2>2
  <2>7. "NVD" \in c.source /\ "CISA KEV" \in c.source /\ c.source # {"CISA KEV"}
    <3>1. c.source = {"NVD", "CISA KEV"}
      BY <2>2
    <3>2. "NVD" \in c.source /\ "CISA KEV" \in c.source
      BY <3>1
    <3>3. "NVD" \notin {"CISA KEV"}
      OBVIOUS
    <3>4. QED
      BY <3>2, <3>3
  <2>8. (c.is_actively_exploited <=> K # {}) /\ ("CISA KEV" \in c.source <=> K # {})
    <3>1. K # {} <=> TRUE
      BY <2>3
    <3>2. QED
      BY <2>2, <2>7, <3>1
  <2>9. JoinsThem(c, id, N, K)
    BY <2>2, <2>4, <2>5, <2>6, <2>7, <2>8 DEF JoinsThem
  <2>10. QED
    BY <1>2, <1>12, <2>1, <2>9
<1>16. QED
  BY <1>14, <1>15

\* The records of one CVE.
OfId(cves, id) == Picked(cves, {i \in DOMAIN cves : cves[i].cve_id = id})

IdsOf(cves) == [i \in DOMAIN cves |-> cves[i].cve_id]

\* The records of one id.
LEMMA OfOneId ==
    ASSUME NEW cves, IsList(cves), NEW id
    PROVE  IsList(OfId(cves, id)) /\ ToSet(OfId(cves, id)) = {r \in ToSet(cves) : r.cve_id = id}
<1>1. PICK places : places = {i \in DOMAIN cves : cves[i].cve_id = id}
  OBVIOUS
<1>2. places \in SUBSET DOMAIN cves
  BY <1>1
<1>3. PICK r : r = Picked(cves, places)
  OBVIOUS
<1>4. IsList(r) /\ ToSet(r) = {cves[i] : i \in places}
  BY <1>2, <1>3, PickedList
<1>5. r = OfId(cves, id)
  BY <1>1, <1>3 DEF OfId
<1>6. {cves[i] : i \in places} = {c \in ToSet(cves) : c.cve_id = id}
  BY <1>1 DEF ToSet
<1>7. QED
  BY <1>4, <1>5, <1>6

\* The identifiers of two lists.
LEMMA IdsAreUnique ==
    ASSUME NEW nvds, IsList(nvds), NEW kevs, IsList(kevs),
           NEW ids, ids = FromKeys(IdsOf(nvds \o kevs))
    PROVE  /\ IsList(ids) /\ IsInjective(ids)
           /\ ToSet(ids) = {r.cve_id : r \in ToSet(nvds) \cup ToSet(kevs)}
<1>1. PICK T, Ids : /\ T = ToSet(nvds) \cup ToSet(kevs)
                    /\ Ids = {r.cve_id : r \in T}
  OBVIOUS
<1>2. nvds \in Seq(T) /\ kevs \in Seq(T)
  BY <1>1, SeqOfItsElements DEF IsList
<1>3. PICK both : both = nvds \o kevs
  OBVIOUS
<1>4. both \in Seq(T) /\ ToSet(both) = T
  BY <1>1, <1>2, <1>3, ToSetOfBoth, ConcatProperties
<1>5. PICK named : named = IdsOf(both)
  OBVIOUS
<1>6. DOMAIN both = 1..Len(both) /\ Len(both) \in Nat /\ \A i \in DOMAIN both : both[i] \in T
  BY <1>4, LenProperties, ElementOfSeq
<1>7. DOMAIN named = DOMAIN both /\ \A i \in DOMAIN both : named[i] = both[i].cve_id
  BY <1>5 DEF IdsOf
<1>8. named \in Seq(Ids)
  <2>1. named \in [1..Len(both) -> Ids]
    BY <1>1, <1>5, <1>6, <1>7 DEF IdsOf
  <2>2. QED
    BY <1>6, <2>1, SeqDef
<1>9. ToSet(named) = Ids
  <2>1. \A id \in Ids : \E i \in DOMAIN both : both[i].cve_id = id
    BY <1>1, <1>4 DEF ToSet
  <2>2. \A i \in DOMAIN both : both[i].cve_id \in Ids
    BY <1>1, <1>6
  <2>3. QED
    BY <1>7, <2>1, <2>2 DEF ToSet
<1>10. ids = FromKeys(named)
  BY <1>3, <1>5
<1>11. ids \in Seq(Ids) /\ IsInjective(ids) /\ ToSet(ids) = ToSet(named)
  BY <1>8, <1>10, FromKeysIsUnique
<1>12. QED
  BY <1>1, <1>9, <1>11, SeqIsList

\* One record by CVE, of what its records say, the newest first.
Merges(m, N, K) ==
    /\ IsList(m)
    /\ {c.cve_id : c \in ToSet(m)} = {r.cve_id : r \in N \cup K}
    /\ \A i, j \in DOMAIN m : i < j => m[i].published_at >= m[j].published_at
    /\ \A i, j \in DOMAIN m : m[i].cve_id = m[j].cve_id => i = j
    /\ \A c \in ToSet(m) : JoinsThem(c, c.cve_id, {r \in N : r.cve_id = c.cve_id},
                                                  {r \in K : r.cve_id = c.cve_id})

JoinedBy(ids, nvds, kevs) == [i \in DOMAIN ids |-> Joined(OfId(nvds, ids[i]), OfId(kevs, ids[i]))]

DatesOf(cves) == [i \in DOMAIN cves |-> cves[i].published_at]

\* Merging keeps each CVE once, says of it what the records did, and puts the
\* newest first (merge_cves).
LEMMA MergeIsFaithful ==
    ASSUME NEW nvds, IsList(nvds), \A r \in ToSet(nvds) : NvdSays(r, r.cve_id),
           NEW kevs, IsList(kevs), \A r \in ToSet(kevs) : KevSays(r, r.cve_id)
    PROVE  Merges(merge_cves(nvds, kevs), ToSet(nvds), ToSet(kevs))
<1>1. PICK N, K : N = ToSet(nvds) /\ K = ToSet(kevs)
  OBVIOUS
<1>2. PICK ids : ids = FromKeys(IdsOf(nvds \o kevs))
  OBVIOUS
<1>3. PICK joined : joined = JoinedBy(ids, nvds, kevs)
  OBVIOUS
<1>4. PICK keys : keys = DatesOf(joined)
  OBVIOUS
<1>5. PICK m : m = InOrder(joined, keys)
  OBVIOUS
<1>6. m = merge_cves(nvds, kevs)
  <2>1. merge_cves(nvds, kevs)
            = InOrder(JoinedBy(FromKeys(IdsOf(nvds \o kevs)), nvds, kevs),
                      DatesOf(JoinedBy(FromKeys(IdsOf(nvds \o kevs)), nvds, kevs)))
    BY DEF merge_cves, SortedDown, InOrder, OfId, Kept, IdsOf, JoinedBy, DatesOf
  <2>2. QED
    BY <1>2, <1>3, <1>4, <1>5, <2>1
<1>7. IsList(ids) /\ IsInjective(ids) /\ ToSet(ids) = {r.cve_id : r \in N \cup K}
  BY <1>1, <1>2, IdsAreUnique
<1>8. PICK n : n = Len(ids)
  OBVIOUS
<1>9. n \in Nat /\ DOMAIN ids = 1..n /\ DOMAIN joined = 1..n /\ DOMAIN keys = 1..n
  <2>1. Len(ids) \in Nat /\ DOMAIN ids = 1..Len(ids)
    BY <1>7, ListFacts
  <2>2. DOMAIN joined = DOMAIN ids /\ DOMAIN keys = DOMAIN joined
    BY <1>3, <1>4 DEF JoinedBy, DatesOf
  <2>3. QED
    BY <1>8, <2>1, <2>2
<1>10. ASSUME NEW i \in 1..n
       PROVE  JoinsThem(joined[i], ids[i], {r \in N : r.cve_id = ids[i]}, {r \in K : r.cve_id = ids[i]})
  <2>1. PICK id : id = ids[i]
    OBVIOUS
  <2>2. PICK nvd, kev : nvd = OfId(nvds, id) /\ kev = OfId(kevs, id)
    OBVIOUS
  <2>3. IsList(nvd) /\ ToSet(nvd) = {r \in N : r.cve_id = id}
    BY <1>1, <2>2, OfOneId
  <2>4. IsList(kev) /\ ToSet(kev) = {r \in K : r.cve_id = id}
    BY <1>1, <2>2, OfOneId
  <2>5. \A r \in ToSet(nvd) : NvdSays(r, id)
    BY <1>1, <2>3
  <2>6. \A r \in ToSet(kev) : KevSays(r, id)
    BY <1>1, <2>4
  <2>7. nvd # <<>> \/ kev # <<>>
    <3>1. id \in {r.cve_id : r \in N \cup K}
      BY <1>7, <1>9, <2>1 DEF ToSet
    <3>2. ToSet(nvd) # {} \/ ToSet(kev) # {}
      BY <2>3, <2>4, <3>1
    <3>3. ToSet(<<>>) = {}
      BY DEF ToSet
    <3>4. QED
      BY <3>2, <3>3
  <2>8. JoinsThem(Joined(nvd, kev), id, ToSet(nvd), ToSet(kev))
    BY <2>3, <2>4, <2>5, <2>6, <2>7, JoinedIsFaithful
  <2>9. joined[i] = Joined(nvd, kev)
    BY <1>3, <1>9, <2>1, <2>2 DEF JoinedBy
  <2>10. QED
    BY <2>1, <2>3, <2>4, <2>8, <2>9
<1>11. \A i \in 1..n : joined[i].cve_id = ids[i] /\ joined[i].published_at \in Nat
  BY <1>10 DEF JoinsThem
<1>12. IsList(joined) /\ Len(joined) = n
  <2>1. joined = [i \in DOMAIN joined |-> joined[i]]
    BY <1>3 DEF JoinedBy
  <2>2. QED
    BY <1>9, <2>1, ListOver
<1>13. keys \in Seq(Nat) /\ Len(keys) = n
  <2>1. keys \in [1..n -> Nat]
    BY <1>4, <1>9, <1>11 DEF DatesOf
  <2>2. QED
    BY <1>9, <2>1, SeqDef, LenProperties
<1>14. m \in Seq(ToSet(joined)) /\ DOMAIN m = DOMAIN joined /\ ToSet(m) = ToSet(joined)
  <2>1. joined \in Seq(ToSet(joined)) /\ Len(keys) = Len(joined)
    BY <1>12, <1>13 DEF IsList
  <2>2. QED
    BY <1>5, <1>13, <2>1, SortedByKeys
<1>15. PICK at : at = Descending(keys)
  OBVIOUS
<1>16. /\ \A i \in 1..n : at[i] \in 1..n
       /\ \A i, j \in 1..n : i # j => at[i] # at[j]
       /\ \A i, j \in 1..n : i < j => keys[at[i]] >= keys[at[j]]
  <2>1. at \in [DOMAIN keys -> DOMAIN keys]
    BY <1>13, <1>15, DescendingPlaces
  <2>2. \A i, j \in DOMAIN keys : i # j => at[i] # at[j]
    BY <1>13, <1>15, DescendingPlaces
  <2>3. \A i, j \in DOMAIN keys : i < j => keys[at[i]] >= keys[at[j]]
    BY <1>13, <1>15, DescendingPlaces
  <2>4. QED
    BY <1>9, <2>1, <2>2, <2>3
<1>17. \A i \in 1..n : m[i] = joined[at[i]]
  BY <1>5, <1>9, <1>15 DEF InOrder
<1>18. \A i, j \in 1..n : i < j => m[i].published_at >= m[j].published_at
  <2>1. \A i \in 1..n : keys[at[i]] = m[i].published_at
    BY <1>4, <1>9, <1>16, <1>17 DEF DatesOf
  <2>2. QED
    BY <1>16, <2>1
<1>19. \A i, j \in 1..n : m[i].cve_id = m[j].cve_id => i = j
  <2> SUFFICES ASSUME NEW i \in 1..n, NEW j \in 1..n, m[i].cve_id = m[j].cve_id PROVE i = j
    OBVIOUS
  <2>1. at[i] \in 1..n /\ at[j] \in 1..n /\ ids[at[i]] = ids[at[j]]
    BY <1>11, <1>16, <1>17
  <2>2. at[i] = at[j]
    BY <1>7, <1>9, <2>1 DEF IsInjective
  <2>3. QED
    BY <1>16, <2>2
<1>20. ToSet(joined) = {joined[i] : i \in 1..n}
  BY <1>9 DEF ToSet
<1>21. {c.cve_id : c \in ToSet(m)} = {r.cve_id : r \in N \cup K}
  <2>1. ToSet(ids) = {ids[i] : i \in 1..n}
    BY <1>9 DEF ToSet
  <2>2. {c.cve_id : c \in ToSet(m)} = {ids[i] : i \in 1..n}
    BY <1>11, <1>14, <1>20
  <2>3. QED
    BY <1>7, <2>1, <2>2
<1>22. \A c \in ToSet(m) : JoinsThem(c, c.cve_id, {r \in N : r.cve_id = c.cve_id},
                                                  {r \in K : r.cve_id = c.cve_id})
  <2> SUFFICES ASSUME NEW c \in ToSet(m)
               PROVE  JoinsThem(c, c.cve_id, {r \in N : r.cve_id = c.cve_id},
                                             {r \in K : r.cve_id = c.cve_id})
    OBVIOUS
  <2>1. PICK i \in 1..n : c = joined[i]
    BY <1>14, <1>20
  <2>2. c.cve_id = ids[i]
    BY <1>11, <2>1
  <2>3. QED
    BY <1>10, <2>1, <2>2
<1>23. Merges(m, N, K)
  BY <1>9, <1>14, <1>18, <1>19, <1>21, <1>22, SeqIsList DEF Merges
<1>24. QED
  BY <1>1, <1>6, <1>23

\* A keyword that is in the haystack of a CVE.
Heard(k, c) == k # NoText /\ k \in MentionedIn(<<c.description>> \o c.matched_products)

\* The names of a watched product that the CVE mentions.
LEMMA HitsAreMentions ==
    ASSUME NEW c, NEW watched
    PROVE  /\ IsList(Hits(c, watched))
           /\ ToSet(Hits(c, watched)) = {k \in {watched.vendor, watched.product} : Heard(k, c)}
<1>1. PICK names : names = <<watched.vendor, watched.product>>
  OBVIOUS
<1>2. PICK places : places = {i \in DOMAIN names : Heard(names[i], c)}
  OBVIOUS
<1>3. PICK r : r = Picked(names, places)
  OBVIOUS
<1>4. r = Hits(c, watched)
  BY <1>1, <1>2, <1>3 DEF Hits, Kept, Heard
<1>5. IsList(names) /\ ToSet(names) = {watched.vendor, watched.product}
  <2>1. PICK T : T = {watched.vendor, watched.product}
    OBVIOUS
  <2>2. names \in Seq(T)
    BY <1>1, <2>1
  <2>3. ToSet(names) = T
    BY <1>1, <2>1 DEF ToSet
  <2>4. QED
    BY <2>1, <2>2, <2>3, SeqIsList
<1>6. places \in SUBSET DOMAIN names
  BY <1>2
<1>7. IsList(r) /\ ToSet(r) = {names[i] : i \in places}
  BY <1>3, <1>5, <1>6, PickedList
<1>8. {names[i] : i \in places} = {k \in ToSet(names) : Heard(k, c)}
  BY <1>2 DEF ToSet
<1>9. QED
  BY <1>4, <1>5, <1>7, <1>8

WatchedBy(watchlist) == UNION {{w.vendor, w.product} : w \in ToSet(watchlist)}

\* What the products of one CVE start with, when it took up those of another.
StartOf(t, c) == SubSeq(t.matched_products, 1, Cardinality(ToSet(c.matched_products)))

\* A CVE that took up the watched names it mentions.
Tags(t, c, watchlist) ==
    /\ DOMAIN t = DOMAIN c
    /\ \A f \in Fields \ {"matched_products"} : t[f] = c[f]
    /\ IsList(t.matched_products) /\ IsInjective(t.matched_products)
    /\ ToSet(t.matched_products)
          = ToSet(c.matched_products) \cup {k \in WatchedBy(watchlist) : Heard(k, c)}
    /\ ToSet(StartOf(t, c)) = ToSet(c.matched_products)
    /\ IsInjective(c.matched_products) => StartOf(t, c) = c.matched_products

HitsOf(c, watchlist) == FlattenSeq([w \in DOMAIN watchlist |-> Hits(c, watchlist[w])])

\* Tagging adds the watched products that the record mentions, and changes nothing
\* else (tag_cve).
LEMMA TagAdds ==
    ASSUME NEW c, DOMAIN c = Fields, IsList(c.matched_products),
           NEW watchlist, IsList(watchlist)
    PROVE  Tags(tag_cve(c, watchlist), c, watchlist)
<1>1. PICK hits : hits = HitsOf(c, watchlist)
  OBVIOUS
<1>2. PICK old : old = c.matched_products
  OBVIOUS
<1>3. PICK T : T = WatchedBy(watchlist) \cup ToSet(old)
  OBVIOUS
<1>4. PICK H : H = {k \in WatchedBy(watchlist) : Heard(k, c)}
  OBVIOUS
<1>5. DOMAIN watchlist = 1..Len(watchlist) /\ Len(watchlist) \in Nat
  BY ListFacts
<1>6. PICK ss : ss = [w \in DOMAIN watchlist |-> Hits(c, watchlist[w])]
  OBVIOUS
<1>7. \A w \in DOMAIN watchlist : /\ IsList(ss[w])
                                  /\ ToSet(ss[w]) = {k \in {watchlist[w].vendor, watchlist[w].product} :
                                                          Heard(k, c)}
  <2> SUFFICES ASSUME NEW w \in DOMAIN watchlist
               PROVE  /\ IsList(ss[w])
                      /\ ToSet(ss[w]) = {k \in {watchlist[w].vendor, watchlist[w].product} :
                                                          Heard(k, c)}
    OBVIOUS
  <2>1. PICK watched : watched = watchlist[w]
    OBVIOUS
  <2>2. /\ IsList(Hits(c, watched))
        /\ ToSet(Hits(c, watched)) = {k \in {watched.vendor, watched.product} : Heard(k, c)}
    BY HitsAreMentions
  <2>3. ss[w] = Hits(c, watched)
    BY <1>6, <2>1
  <2>4. QED
    BY <2>1, <2>2, <2>3
<1>8. \A w \in DOMAIN watchlist : watchlist[w] \in ToSet(watchlist)
  BY DEF ToSet
<1>9. \A w \in DOMAIN watchlist : ss[w] \in Seq(H)
  <2> SUFFICES ASSUME NEW w \in DOMAIN watchlist PROVE ss[w] \in Seq(H)
    OBVIOUS
  <2>1. ToSet(ss[w]) \subseteq H
    BY <1>4, <1>7, <1>8 DEF WatchedBy
  <2>2. ss[w] \in Seq(ToSet(ss[w]))
    BY <1>7 DEF IsList
  <2>3. QED
    BY <2>1, <2>2, SeqOfItsElements
<1>10. ss \in Seq(Seq(H)) /\ DOMAIN ss = DOMAIN watchlist
  <2>1. ss \in [1..Len(watchlist) -> Seq(H)]
    BY <1>5, <1>6, <1>9
  <2>2. QED
    BY <1>5, <1>6, <2>1, SeqDef
<1>11. hits \in Seq(H) /\ ToSet(hits) = H
  <2>1. hits = FlattenSeq(ss)
    BY <1>1, <1>6 DEF HitsOf
  <2>2. hits \in Seq(H) /\ ToSet(hits) = UNION {ToSet(ss[w]) : w \in DOMAIN ss}
    BY <1>10, <2>1, FlattenedElements
  <2>3. ASSUME NEW k \in H PROVE \E w \in DOMAIN ss : k \in ToSet(ss[w])
    <3>1. PICK watched \in ToSet(watchlist) : k \in {watched.vendor, watched.product}
      BY <1>4 DEF WatchedBy
    <3>2. PICK w \in DOMAIN watchlist : watched = watchlist[w]
      BY DEF ToSet
    <3>3. QED
      BY <1>4, <1>7, <1>10, <3>1, <3>2
  <2>4. \A w \in DOMAIN ss : ToSet(ss[w]) \subseteq H
    BY <1>4, <1>7, <1>8, <1>10 DEF WatchedBy
  <2>5. QED
    BY <2>2, <2>3, <2>4
<1>12. PICK more : more = FromKeys(hits)
  OBVIOUS
<1>13. more \in Seq(H) /\ ToSet(more) = H
  BY <1>11, <1>12, FromKeysIsUnique
<1>14. old \in Seq(T) /\ more \in Seq(T)
  BY <1>2, <1>3, <1>4, <1>13, SeqOfItsElements DEF IsList
<1>15. PICK both : both = old \o more
  OBVIOUS
<1>16. both \in Seq(T) /\ ToSet(both) = ToSet(old) \cup H
  BY <1>13, <1>14, <1>15, ToSetOfBoth, ConcatProperties
<1>17. PICK new : new = FromKeys(both)
  OBVIOUS
<1>18. new \in Seq(T) /\ IsInjective(new) /\ ToSet(new) = ToSet(old) \cup H
  BY <1>16, <1>17, FromKeysIsUnique
<1>19. PICK t : t = tag_cve(c, watchlist)
  OBVIOUS
<1>20. t = [c EXCEPT !.matched_products = new]
  <2>1. tag_cve(c, watchlist)
           = [c EXCEPT !.matched_products = FromKeys(c.matched_products \o FromKeys(HitsOf(c, watchlist)))]
    BY DEF tag_cve, HitsOf
  <2>2. QED
    BY <1>1, <1>2, <1>12, <1>15, <1>17, <1>19, <2>1
<1>21. /\ DOMAIN t = DOMAIN c /\ t.matched_products = new
       /\ \A f \in Fields \ {"matched_products"} : t[f] = c[f]
  BY <1>20 DEF Fields
<1>22. IsList(new)
  BY <1>18, SeqIsList
<1>23. ToSet(StartOf(t, c)) = ToSet(old) /\ (IsInjective(old) => StartOf(t, c) = old)
  <2>1. StartOf(t, c) = FromKeys(old)
    <3>1. SubSeq(new, 1, Cardinality(ToSet(old))) = FromKeys(old)
      BY <1>14, <1>15, <1>17, FromKeysBegins
    <3>2. QED
      BY <1>2, <1>21, <3>1 DEF StartOf
  <2>2. QED
    BY <1>14, <2>1, FromKeysIsUnique, FromKeysOfUnique
<1>24. Tags(t, c, watchlist)
  BY <1>2, <1>4, <1>18, <1>21, <1>22, <1>23 DEF Tags
<1>25. QED
  BY <1>19, <1>24

\* A record of NVD's says what the item does.
LEMMA NvdRecordSays ==
    ASSUME NEW cve, NvdTyped(cve), NEW now_ \in Nat
    PROVE  /\ NvdSays(NvdRecord(cve, now_), cve.id)
           /\ NvdRecord(cve, now_).description = _extract_description(cve)
           /\ NvdRecord(cve, now_).cvss_score = _extract_cvss_score(cve)
<1>1. PICK score, text : score = _extract_cvss_score(cve) /\ text = _extract_description(cve)
  OBVIOUS
<1>2. text \in Texts
  BY <1>1, DescriptionIsText
<1>3. PICK date : date = _parse_datetime(cve.published, now_)
  OBVIOUS
<1>4. date \in Nat
  BY <1>3 DEF NvdTyped, _parse_datetime
<1>5. PICK r : r = NvdRecord(cve, now_)
  OBVIOUS
<1>6. /\ DOMAIN r = Fields /\ r.cve_id = cve.id /\ r.description = text /\ r.cvss_score = score
      /\ r.published_at = date /\ r.is_actively_exploited = FALSE /\ r.matched_products = <<>>
      /\ r.source = {"NVD"}
  BY <1>1, <1>3, <1>5 DEF NvdRecord, Fields
<1>7. IsList(<<>>)
  BY DEF IsList
<1>8. NvdSays(r, cve.id)
  BY <1>2, <1>4, <1>6, <1>7 DEF NvdSays, RecordOf
<1>9. QED
  BY <1>1, <1>5, <1>6, <1>8

\* A record of KEV's says what the item does.
LEMMA KevRecordSays ==
    ASSUME NEW item, KevTyped(item), NEW now_ \in Nat
    PROVE  /\ KevSays(KevRecord(item, now_), item.cveID)
           /\ KevRecord(item, now_).description = item.shortDescription
           /\ KevRecord(item, now_).matched_products = ProductsOf(item)
           /\ ToSet(KevRecord(item, now_).matched_products) = {item.vendorProject, item.product} \ {Blank}
<1>1. PICK products : products = ProductsOf(item)
  OBVIOUS
<1>2. IsList(products) /\ ToSet(products) = {item.vendorProject, item.product} \ {Blank}
  BY <1>1, ProductsAreNamed
<1>3. PICK date : date = _parse_datetime(item.dateAdded, now_)
  OBVIOUS
<1>4. date \in Nat /\ item.shortDescription \in Texts
  BY <1>3 DEF KevTyped, _parse_datetime
<1>5. PICK r : r = KevRecord(item, now_)
  OBVIOUS
<1>6. /\ DOMAIN r = Fields /\ r.cve_id = item.cveID /\ r.description = item.shortDescription
      /\ r.published_at = date /\ r.is_actively_exploited = TRUE /\ r.matched_products = products
      /\ r.source = {"CISA KEV"}
  BY <1>1, <1>3, <1>5 DEF KevRecord, Fields
<1>7. KevSays(r, item.cveID)
  BY <1>2, <1>4, <1>6 DEF KevSays, RecordOf
<1>8. QED
  BY <1>1, <1>2, <1>5, <1>6, <1>7

-----------------------------------------------------------------------------
(* What a record of the digest keeps of its CVE *)

NamedBy(kev) == (UNION {{item.vendorProject, item.product} : item \in kev}) \ {Blank}

\* What a record of the digest has of the items that are about its CVE.
Reads(c, id, nvd, kev) ==
    /\ DOMAIN c = Fields /\ c.cve_id = id /\ c.published_at \in Nat
    /\ c.is_actively_exploited <=> kev # {}
    /\ nvd # {} => "NVD" \in c.source
    /\ "CISA KEV" \in c.source <=> kev # {}
    /\ nvd # {} => c.cvss_score \in {_extract_cvss_score(n) : n \in nvd}
    /\ nvd # {} /\ NoText \notin {_extract_description(n) : n \in nvd}
          => c.description \in {_extract_description(n) : n \in nvd}
    /\ c.description \in {_extract_description(n) : n \in nvd} \cup {i.shortDescription : i \in kev}
    /\ IsList(c.matched_products) /\ ToSet(c.matched_products) = NamedBy(kev)
    /\ c.source = {"CISA KEV"} => \A i \in kev : ProductsOf(i) = c.matched_products
    /\ c.source # {"CISA KEV"} => IsInjective(c.matched_products)

\* What the joined record says of a CVE is what the feeds' items did.
LEMMA ReadsBack ==
    ASSUME NEW now_ \in Nat, NEW nvd, \A n \in nvd : NvdTyped(n), NEW kev, \A i \in kev : KevTyped(i),
           NEW id, NEW c,
           JoinsThem(c, id, {NvdRecord(n, now_) : n \in nvd}, {KevRecord(i, now_) : i \in kev})
    PROVE  Reads(c, id, nvd, kev)
<1>1. PICK N, K : N = {NvdRecord(n, now_) : n \in nvd} /\ K = {KevRecord(i, now_) : i \in kev}
  OBVIOUS
<1>2. /\ \A n \in nvd : /\ NvdRecord(n, now_) \in N
                        /\ NvdRecord(n, now_).description = _extract_description(n)
                        /\ NvdRecord(n, now_).cvss_score = _extract_cvss_score(n)
      /\ \A r \in N : \E n \in nvd : r = NvdRecord(n, now_)
  BY <1>1, NvdRecordSays
<1>3. /\ \A i \in kev : /\ KevRecord(i, now_) \in K
                        /\ KevRecord(i, now_).description = i.shortDescription
                        /\ KevRecord(i, now_).matched_products = ProductsOf(i)
                        /\ ToSet(KevRecord(i, now_).matched_products) = {i.vendorProject, i.product} \ {Blank}
      /\ \A r \in K : \E i \in kev : r = KevRecord(i, now_)
  BY <1>1, KevRecordSays
<1>4. (N = {} <=> nvd = {}) /\ (K = {} <=> kev = {})
  BY <1>2, <1>3
<1>5. JoinsThem(c, id, N, K)
  BY <1>1
<1>6. {r.cvss_score : r \in N} = {_extract_cvss_score(n) : n \in nvd}
  BY <1>2
<1>7. {r.description : r \in N} = {_extract_description(n) : n \in nvd}
  BY <1>2
<1>8. {r.description : r \in N \cup K}
         = {_extract_description(n) : n \in nvd} \cup {i.shortDescription : i \in kev}
  BY <1>2, <1>3
<1>9. UNION {ToSet(r.matched_products) : r \in K} = NamedBy(kev)
  <2>1. ASSUME NEW p, NEW r \in K, p \in ToSet(r.matched_products)
        PROVE  p \in NamedBy(kev)
    <3>1. PICK i \in kev : r = KevRecord(i, now_)
      BY <1>3
    <3>2. p \in {i.vendorProject, i.product} /\ p # Blank
      BY <1>3, <2>1, <3>1
    <3>3. QED
      BY <3>2 DEF NamedBy
  <2>2. ASSUME NEW p \in NamedBy(kev)
        PROVE  \E r \in K : p \in ToSet(r.matched_products)
    <3>1. PICK i \in kev : p \in {i.vendorProject, i.product} /\ p # Blank
      BY DEF NamedBy
    <3>2. /\ ToSet(KevRecord(i, now_).matched_products) = {i.vendorProject, i.product} \ {Blank}
          /\ KevRecord(i, now_) \in K
      BY <1>3, Zenon
    <3>3. QED
      BY <3>1, <3>2
  <2>3. QED
    BY <2>1, <2>2
<1>10. ASSUME c.source = {"CISA KEV"}, NEW i \in kev
       PROVE  ProductsOf(i) = c.matched_products
  <2>1. KevRecord(i, now_) \in K /\ KevRecord(i, now_).matched_products = ProductsOf(i)
    BY <1>3
  <2>2. \A r \in K : r = c
    BY <1>5, <1>10 DEF JoinsThem
  <2>3. QED
    BY <2>1, <2>2
<1>11. nvd # {} /\ NoText \notin {_extract_description(n) : n \in nvd}
          => c.description \in {_extract_description(n) : n \in nvd}
  <2> SUFFICES ASSUME nvd # {}, NoText \notin {_extract_description(n) : n \in nvd}
               PROVE  c.description \in {_extract_description(n) : n \in nvd}
    OBVIOUS
  <2>1. N # {} /\ \A r \in N : r.description # NoText
    BY <1>4, <1>7
  <2>2. QED
    BY <1>5, <1>7, <2>1 DEF JoinsThem
<1>12. QED
  BY <1>4, <1>5, <1>6, <1>8, <1>9, <1>10, <1>11 DEF JoinsThem, Reads

\* What a feed answered, typed.
NvdAnswerOK(answer) == answer = Failed \/ (IsNvd(answer))
KevAnswerOK(answer) == answer = Failed \/ (IsKev(answer))

\* What is taken in of an answer of NVD's is a list of items.
LEMMA NvdIngested ==
    ASSUME NEW answer, NvdAnswerOK(answer)
    PROVE  IsList(Ingested(answer)) /\ \A n \in NvdOf(answer) : NvdTyped(n)
<1>1. PICK items : items = Ingested(answer)
  OBVIOUS
<1>2. CASE answer = Failed \/ Odd \in ToSet(answer)
  <2>1. items = <<>>
    BY <1>1, <1>2 DEF Ingested
  <2>2. IsList(<<>>) /\ ToSet(<<>>) = {}
    BY DEF IsList, ToSet
  <2>3. QED
    BY <1>1, <2>1, <2>2 DEF NvdOf
<1>3. CASE ~(answer = Failed \/ Odd \in ToSet(answer))
  <2>1. items = answer /\ IsNvd(answer) /\ Odd \notin ToSet(answer)
    BY <1>1, <1>3 DEF Ingested, NvdAnswerOK
  <2>2. \A n \in ToSet(answer) : NvdTyped(n)
    BY <2>1 DEF IsNvd, NvdTyped, IsList
  <2>3. IsList(answer)
    BY <2>1 DEF IsNvd, IsList
  <2>4. QED
    BY <1>1, <2>1, <2>2, <2>3 DEF NvdOf
<1>4. QED
  BY <1>2, <1>3

\* What is taken in of an answer of KEV's is a list of items.
LEMMA KevIngested ==
    ASSUME NEW answer, KevAnswerOK(answer)
    PROVE  IsList(Ingested(answer)) /\ \A i \in KevOf(answer) : KevTyped(i)
<1>1. PICK items : items = Ingested(answer)
  OBVIOUS
<1>2. CASE answer = Failed \/ Odd \in ToSet(answer)
  <2>1. items = <<>>
    BY <1>1, <1>2 DEF Ingested
  <2>2. IsList(<<>>) /\ ToSet(<<>>) = {}
    BY DEF IsList, ToSet
  <2>3. QED
    BY <1>1, <2>1, <2>2 DEF KevOf
<1>3. CASE ~(answer = Failed \/ Odd \in ToSet(answer))
  <2>1. items = answer /\ IsKev(answer) /\ Odd \notin ToSet(answer)
    BY <1>1, <1>3 DEF Ingested, KevAnswerOK
  <2>2. \A i \in ToSet(answer) : KevTyped(i)
    BY <2>1 DEF IsKev, KevTyped
  <2>3. IsList(answer)
    BY <2>1 DEF IsKev, IsList
  <2>4. QED
    BY <1>1, <2>1, <2>2, <2>3 DEF KevOf
<1>4. QED
  BY <1>2, <1>3

-----------------------------------------------------------------------------
(* The records of all CVEs, tagged *)

OfNvd(nvd, id) == {n \in nvd : n.id = id}
OfKev(kev, id) == {i \in kev : i.cveID = id}

\* One record by CVE, that says what the feeds do, the newest first.
Fetches(m, nvd, kev) ==
    /\ IsList(m)
    /\ {c.cve_id : c \in ToSet(m)} = {n.id : n \in nvd} \cup {i.cveID : i \in kev}
    /\ \A i, j \in DOMAIN m : i < j => m[i].published_at >= m[j].published_at
    /\ \A i, j \in DOMAIN m : m[i].cve_id = m[j].cve_id => i = j
    /\ \A c \in ToSet(m) : Reads(c, c.cve_id, OfNvd(nvd, c.cve_id), OfKev(kev, c.cve_id))

\* Fetching both feeds yields each CVE once, as the feeds have it (fetch_all).
LEMMA FetchIsFaithful ==
    ASSUME NEW nvd_answer, NvdAnswerOK(nvd_answer), NEW kev_answer, KevAnswerOK(kev_answer),
           NEW now_ \in Nat
    PROVE  Fetches(fetch_all(nvd_answer, kev_answer, now_), NvdOf(nvd_answer), KevOf(kev_answer))
<1>1. PICK nvd, kev : nvd = NvdOf(nvd_answer) /\ kev = KevOf(kev_answer)
  OBVIOUS
<1>2. PICK nvds, kevs : /\ nvds = parse_nvd_response(Ingested(nvd_answer), now_)
                        /\ kevs = parse_cisa_kev_response(Ingested(kev_answer), now_)
  OBVIOUS
<1>3. PICK m : m = merge_cves(nvds, kevs)
  OBVIOUS
<1>4. m = fetch_all(nvd_answer, kev_answer, now_)
  BY <1>2, <1>3 DEF fetch_all
<1>5. (\A n \in nvd : NvdTyped(n)) /\ (\A i \in kev : KevTyped(i))
  BY <1>1, NvdIngested, KevIngested
<1>6. IsList(nvds) /\ ToSet(nvds) = {NvdRecord(n, now_) : n \in nvd}
  BY <1>1, <1>2, NvdIngested, NvdIsParsed DEF NvdOf
<1>7. IsList(kevs) /\ ToSet(kevs) = {KevRecord(i, now_) : i \in kev}
  BY <1>1, <1>2, KevIngested, KevIsParsed DEF KevOf
<1>8. PICK N, K : N = ToSet(nvds) /\ K = ToSet(kevs)
  OBVIOUS
<1>9. \A n \in nvd : NvdSays(NvdRecord(n, now_), n.id)
  BY <1>5, NvdRecordSays
<1>10. \A i \in kev : KevSays(KevRecord(i, now_), i.cveID)
  BY <1>5, KevRecordSays
<1>11. \A r \in N : NvdSays(r, r.cve_id)
  BY <1>6, <1>8, <1>9 DEF NvdSays, RecordOf
<1>12. \A r \in K : KevSays(r, r.cve_id)
  BY <1>7, <1>8, <1>10 DEF KevSays, RecordOf
<1>13. Merges(m, N, K)
  BY <1>3, <1>6, <1>7, <1>8, <1>11, <1>12, MergeIsFaithful
<1>14. (\A n \in nvd : NvdRecord(n, now_).cve_id = n.id) /\ (\A i \in kev : KevRecord(i, now_).cve_id = i.cveID)
  BY <1>9, <1>10 DEF NvdSays, KevSays, RecordOf
<1>15. ASSUME NEW id
       PROVE  /\ {r \in N : r.cve_id = id} = {NvdRecord(n, now_) : n \in OfNvd(nvd, id)}
              /\ {r \in K : r.cve_id = id} = {KevRecord(i, now_) : i \in OfKev(kev, id)}
  <2>1. {r \in N : r.cve_id = id} = {NvdRecord(n, now_) : n \in OfNvd(nvd, id)}
    BY <1>6, <1>8, <1>14 DEF OfNvd
  <2>2. {r \in K : r.cve_id = id} = {KevRecord(i, now_) : i \in OfKev(kev, id)}
    BY <1>7, <1>8, <1>14 DEF OfKev
  <2>3. QED
    BY <2>1, <2>2
<1>16. ASSUME NEW c \in ToSet(m)
       PROVE  Reads(c, c.cve_id, OfNvd(nvd, c.cve_id), OfKev(kev, c.cve_id))
  <2>1. PICK id : id = c.cve_id
    OBVIOUS
  <2>2. JoinsThem(c, id, {r \in N : r.cve_id = id}, {r \in K : r.cve_id = id})
    BY <1>13, <2>1 DEF Merges
  <2>3. PICK ns, ks : ns = OfNvd(nvd, id) /\ ks = OfKev(kev, id)
    OBVIOUS
  <2>4. JoinsThem(c, id, {NvdRecord(n, now_) : n \in ns}, {KevRecord(i, now_) : i \in ks})
    BY <1>15, <2>2, <2>3
  <2>5. (\A n \in ns : NvdTyped(n)) /\ (\A i \in ks : KevTyped(i))
    BY <1>5, <2>3 DEF OfNvd, OfKev
  <2>6. Reads(c, id, ns, ks)
    BY <2>4, <2>5, ReadsBack
  <2>7. QED
    BY <2>1, <2>3, <2>6
<1>17. {r.cve_id : r \in N \cup K} = {n.id : n \in nvd} \cup {i.cveID : i \in kev}
  BY <1>6, <1>7, <1>8, <1>14
<1>18. Fetches(m, nvd, kev)
  BY <1>13, <1>16, <1>17 DEF Fetches, Merges
<1>19. QED
  BY <1>1, <1>4, <1>18

\* The products of a CVE of the digest that KEV named, and those it was tagged with.
OwnOf(c, kev) == SubSeq(c.matched_products, 1, Cardinality(NamedBy(kev)))

SearchedOf(c, kev) ==
    IF c.source # {"CISA KEV"} THEN {OwnOf(c, kev)} ELSE {ProductsOf(i) : i \in kev}

\* What a CVE of the digest says of the items that are about it.
Tells(c, nvd, kev, watchlist) ==
    /\ c.is_actively_exploited <=> kev # {}
    /\ nvd # {} => "NVD" \in c.source
    /\ "CISA KEV" \in c.source <=> kev # {}
    /\ nvd # {} => c.cvss_score \in {_extract_cvss_score(n) : n \in nvd}
    /\ nvd # {} /\ NoText \notin {_extract_description(n) : n \in nvd}
          => c.description \in {_extract_description(n) : n \in nvd}
    /\ c.description \in {_extract_description(n) : n \in nvd} \cup {i.shortDescription : i \in kev}
    /\ IsInjective(c.matched_products)
    /\ ToSet(OwnOf(c, kev)) = NamedBy(kev)
    /\ \A names \in SearchedOf(c, kev) :
          ToSet(c.matched_products) \ NamedBy(kev)
              = ((WatchedBy(watchlist) \ {NoText}) \ NamedBy(kev))
                    \cap MentionedIn(<<c.description>> \o names)

\* A tagged record still tells what the feeds did, and what the watchlist adds.
LEMMA TaggedTells ==
    ASSUME NEW c, NEW id, NEW nvd, NEW kev, Reads(c, id, nvd, kev), NEW watchlist, NEW t, Tags(t, c, watchlist)
    PROVE  Tells(t, nvd, kev, watchlist) /\ t.cve_id = id /\ t.published_at = c.published_at
           /\ IsList(t.matched_products)
<1>1. /\ t.cve_id = c.cve_id /\ t.published_at = c.published_at /\ t.cvss_score = c.cvss_score
      /\ t.is_actively_exploited = c.is_actively_exploited /\ t.source = c.source
      /\ t.description = c.description
  BY DEF Tags, Fields
<1>2. /\ IsList(t.matched_products) /\ IsInjective(t.matched_products)
      /\ ToSet(t.matched_products)
            = ToSet(c.matched_products) \cup {k \in WatchedBy(watchlist) : Heard(k, c)}
  BY DEF Tags
<1>3. /\ ToSet(c.matched_products) = NamedBy(kev)
      /\ ToSet(StartOf(t, c)) = ToSet(c.matched_products)
      /\ IsInjective(c.matched_products) => StartOf(t, c) = c.matched_products
  BY DEF Reads, Tags
<1>4. StartOf(t, c) = OwnOf(t, kev)
  BY <1>3 DEF StartOf, OwnOf
<1>5. \A names \in SearchedOf(t, kev) : names = c.matched_products
  <2>1. CASE c.source # {"CISA KEV"}
    <3>1. OwnOf(t, kev) = c.matched_products
      BY <1>3, <1>4, <2>1 DEF Reads
    <3>2. SearchedOf(t, kev) = {OwnOf(t, kev)}
      BY <1>1, <2>1 DEF SearchedOf
    <3>3. QED
      BY <3>1, <3>2
  <2>2. CASE c.source = {"CISA KEV"}
    <3>1. \A i \in kev : ProductsOf(i) = c.matched_products
      BY <2>2 DEF Reads
    <3>2. SearchedOf(t, kev) = {ProductsOf(i) : i \in kev}
      BY <1>1, <2>2 DEF SearchedOf
    <3>3. QED
      BY <3>1, <3>2
  <2>3. QED
    BY <2>1, <2>2
<1>6. PICK P, Named, W, M : /\ P = ToSet(t.matched_products) /\ Named = NamedBy(kev)
                            /\ W = WatchedBy(watchlist)
                            /\ M = MentionedIn(<<c.description>> \o c.matched_products)
  OBVIOUS
<1>7. P \ Named = ((W \ {NoText}) \ Named) \cap M
  <2>1. P = Named \cup {k \in W : k # NoText /\ k \in M}
    BY <1>2, <1>3, <1>6 DEF Heard
  <2>2. QED
    BY <2>1
<1>8. \A names \in SearchedOf(t, kev) :
         ToSet(t.matched_products) \ NamedBy(kev)
             = ((WatchedBy(watchlist) \ {NoText}) \ NamedBy(kev))
                   \cap MentionedIn(<<t.description>> \o names)
  BY <1>1, <1>5, <1>6, <1>7
<1>9. Tells(t, nvd, kev, watchlist)
  BY <1>1, <1>2, <1>3, <1>4, <1>8 DEF Reads, Tells
<1>10. QED
  BY <1>1, <1>2, <1>9 DEF Reads

TagAll(found, watchlist) == [i \in DOMAIN found |-> tag_cve(found[i], watchlist)]

Exploited(cves) == Picked(cves, {i \in DOMAIN cves : cves[i].is_actively_exploited})

\* The same, as IsFaithful puts it.
TellsOf(c, named, nvd, kev, watchlist) ==
    /\ c.is_actively_exploited <=> kev # {}
    /\ named => "NVD" \in c.source
    /\ "CISA KEV" \in c.source <=> kev # {}
    /\ nvd # {} => c.cvss_score \in {_extract_cvss_score(n) : n \in nvd}
    /\ nvd # {} /\ NoText \notin {_extract_description(n) : n \in nvd}
          => c.description \in {_extract_description(n) : n \in nvd}
    /\ c.description \in {_extract_description(n) : n \in nvd} \cup {i.shortDescription : i \in kev}
    /\ IsInjective(c.matched_products)
    /\ ToSet(OwnOf(c, kev)) = NamedBy(kev)
    /\ \A names \in SearchedOf(c, kev) :
          ToSet(c.matched_products) \ NamedBy(kev)
              = ((WatchedBy(watchlist) \ {NoText}) \ NamedBy(kev))
                    \cap MentionedIn(<<c.description>> \o names)

SaysSo(c, nvd, kev, watchlist) ==
    TellsOf(c, c.cve_id \in {n.id : n \in nvd}, {n \in nvd : n.id = c.cve_id},
            {item \in kev : item.cveID = c.cve_id}, watchlist)

\* A digest says of the feeds what they said, and no CVE twice.
LEMMA DigestIsFaithful ==
    ASSUME NEW nvd_answer, NvdAnswerOK(nvd_answer), NEW kev_answer, KevAnswerOK(kev_answer),
           NEW watchlist, IsList(watchlist), NEW now_ \in Nat,
           NEW d, d = run_digest(nvd_answer, kev_answer, watchlist, now_)
    PROVE  IsFaithful(d, nvd_answer, kev_answer, watchlist) /\ AreCves(d.cves)
<1>1. PICK nvd, kev : nvd = NvdOf(nvd_answer) /\ kev = KevOf(kev_answer)
  OBVIOUS
<1>2. PICK found : found = fetch_all(nvd_answer, kev_answer, now_)
  OBVIOUS
<1>3. PICK cves : cves = TagAll(found, watchlist)
  OBVIOUS
<1>4. d.cves = cves /\ d.actively_exploited_count = Len(Exploited(cves))
  BY <1>2, <1>3 DEF run_digest, TagAll, Exploited, Kept
<1>5. Fetches(found, nvd, kev)
  BY <1>1, <1>2, FetchIsFaithful
<1>6. PICK n : n = Len(found)
  OBVIOUS
<1>7. n \in Nat /\ DOMAIN found = 1..n
  BY <1>5, <1>6, ListFacts DEF Fetches
<1>8. DOMAIN cves = 1..n /\ \A i \in 1..n : cves[i] = tag_cve(found[i], watchlist)
  BY <1>3, <1>7 DEF TagAll
<1>9. IsList(cves)
  <2>1. cves = [i \in DOMAIN cves |-> cves[i]]
    BY <1>3 DEF TagAll
  <2>2. QED
    BY <1>7, <1>8, <2>1, ListOver
<1>10. \A i \in 1..n :
          /\ cves[i].cve_id = found[i].cve_id /\ cves[i].published_at = found[i].published_at
          /\ IsList(cves[i].matched_products)
          /\ Tells(cves[i], OfNvd(nvd, cves[i].cve_id), OfKev(kev, cves[i].cve_id), watchlist)
  <2> SUFFICES ASSUME NEW i \in 1..n
               PROVE  /\ cves[i].cve_id = found[i].cve_id /\ cves[i].published_at = found[i].published_at
                      /\ IsList(cves[i].matched_products)
                      /\ Tells(cves[i], OfNvd(nvd, cves[i].cve_id), OfKev(kev, cves[i].cve_id), watchlist)
    OBVIOUS
  <2>1. PICK c, t : c = found[i] /\ t = cves[i]
    OBVIOUS
  <2>2. PICK id : id = c.cve_id
    OBVIOUS
  <2>3. PICK ns, ks : ns = OfNvd(nvd, id) /\ ks = OfKev(kev, id)
    OBVIOUS
  <2>4. Reads(c, id, ns, ks)
    <3>1. c \in ToSet(found)
      BY <1>7, <2>1 DEF ToSet
    <3>2. QED
      BY <1>5, <2>2, <2>3, <3>1 DEF Fetches
  <2>5. DOMAIN c = Fields /\ IsList(c.matched_products)
    BY <2>4 DEF Reads
  <2>6. t = tag_cve(c, watchlist)
    BY <1>8, <2>1
  <2>7. Tags(t, c, watchlist)
    BY <2>5, <2>6, TagAdds
  <2>8. Tells(t, ns, ks, watchlist) /\ t.cve_id = id /\ t.published_at = c.published_at
        /\ IsList(t.matched_products)
    BY <2>4, <2>7, TaggedTells
  <2>9. QED
    BY <2>1, <2>2, <2>3, <2>8
<1>11. \A i, j \in 1..n : cves[i].cve_id = cves[j].cve_id => i = j
  BY <1>5, <1>7, <1>10 DEF Fetches
<1>12. AreCves(cves)
  BY <1>8, <1>9, <1>10, <1>11 DEF AreCves
<1>13. \A i, j \in 1..n : i < j => cves[i].published_at >= cves[j].published_at
  BY <1>5, <1>7, <1>10 DEF Fetches
<1>14. PICK ids : ids = {x.id : x \in nvd} \cup {x.cveID : x \in kev}
  OBVIOUS
<1>15. (\A i \in 1..n : cves[i].cve_id \in ids) /\ (\A id \in ids : \E i \in 1..n : cves[i].cve_id = id)
  <2>1. {c.cve_id : c \in ToSet(found)} = ids
    BY <1>5, <1>14 DEF Fetches
  <2>2. ToSet(found) = {found[i] : i \in 1..n}
    BY <1>7 DEF ToSet
  <2>3. \A i \in 1..n : found[i].cve_id \in ids
    BY <2>1, <2>2
  <2>4. \A id \in ids : \E i \in 1..n : found[i].cve_id = id
    BY <2>1, <2>2
  <2>5. QED
    BY <1>10, <2>3, <2>4
<1>16. {c.cve_id : c \in ToSet(cves)} = ids
  BY <1>8, <1>15 DEF ToSet
<1>17. Len(Exploited(cves)) = Cardinality({x.cveID : x \in kev})
  <2>1. PICK places : places = {i \in DOMAIN cves : cves[i].is_actively_exploited}
    OBVIOUS
  <2>2. places \in SUBSET DOMAIN cves /\ IsFiniteSet(places)
    <3>1. places \in SUBSET DOMAIN cves
      BY <2>1
    <3>2. QED
      BY <1>9, <3>1, ListIsFinite, FS_Subset
  <2>3. Len(Exploited(cves)) = Cardinality(places)
    <3>1. Len(Picked(cves, places)) = Cardinality(places)
      BY <1>9, <2>2, PickedList
    <3>2. QED
      BY <2>1, <3>1 DEF Exploited
  <2>4. PICK K : K = {x.cveID : x \in kev}
    OBVIOUS
  <2>5. \A i \in 1..n : i \in places <=> cves[i].cve_id \in K
    <3>1. \A i \in 1..n : cves[i].is_actively_exploited <=> OfKev(kev, cves[i].cve_id) # {}
      BY <1>10 DEF Tells
    <3>2. \A id : OfKev(kev, id) # {} <=> id \in K
      BY <2>4 DEF OfKev
    <3>3. QED
      BY <1>8, <2>1, <3>1, <3>2
  <2>6. PICK f : f = [i \in places |-> cves[i].cve_id]
    OBVIOUS
  <2>7. places \subseteq 1..n
    BY <1>8, <2>2
  <2>8. f \in [places -> K]
    BY <2>5, <2>6, <2>7
  <2>9. \A i, j \in places : f[i] = f[j] => i = j
    BY <1>11, <2>6, <2>7
  <2>10. \A id \in K : \E i \in places : f[i] = id
    <3> SUFFICES ASSUME NEW id \in K PROVE \E i \in places : f[i] = id
      OBVIOUS
    <3>1. PICK i \in 1..n : cves[i].cve_id = id
      BY <1>14, <1>15, <2>4
    <3>2. QED
      BY <2>5, <2>6, <3>1
  <2>11. Cardinality(K) = Cardinality(places)
    BY <2>2, <2>8, <2>9, <2>10, SameSize
  <2>12. QED
    BY <2>3, <2>4, <2>11
<1>18. \A c \in ToSet(cves) : Tells(c, OfNvd(nvd, c.cve_id), OfKev(kev, c.cve_id), watchlist)
  BY <1>8, <1>10 DEF ToSet
<1>19. IsFaithful(d, nvd_answer, kev_answer, watchlist)
  <2>1. ASSUME NEW c \in ToSet(cves)
        PROVE  SaysSo(c, nvd, kev, watchlist)
    <3>1. PICK id : id = c.cve_id
      OBVIOUS
    <3>2. PICK ns, ks : ns = OfNvd(nvd, id) /\ ks = OfKev(kev, id)
      OBVIOUS
    <3>3. Tells(c, ns, ks, watchlist)
      BY <1>18, <3>1, <3>2
    <3>4. id \in {x.id : x \in nvd} <=> ns # {}
      BY <3>2 DEF OfNvd
    <3>5. ns = {x \in nvd : x.id = id} /\ ks = {x \in kev : x.cveID = id}
      BY <3>2 DEF OfNvd, OfKev
    <3>6. TellsOf(c, id \in {x.id : x \in nvd}, ns, ks, watchlist)
      BY <3>3, <3>4 DEF Tells, TellsOf
    <3>7. QED
      BY <3>1, <3>5, <3>6 DEF SaysSo
  <2>2. IsSortedDown(d.cves, LAMBDA cve : cve.published_at)
    BY <1>4, <1>8, <1>13 DEF IsSortedDown
  <2>3. \A c \in ToSet(d.cves) : SaysSo(c, NvdOf(nvd_answer), KevOf(kev_answer), watchlist)
    BY <1>1, <1>4, <2>1
  <2>4. {c.cve_id : c \in ToSet(d.cves)}
            = {c.id : c \in NvdOf(nvd_answer)} \cup {i.cveID : i \in KevOf(kev_answer)}
    BY <1>1, <1>4, <1>14, <1>16
  <2>5. \A i, j \in DOMAIN d.cves : d.cves[i].cve_id = d.cves[j].cve_id => i = j
    BY <1>4, <1>8, <1>11
  <2>6. d.actively_exploited_count = Cardinality({i.cveID : i \in KevOf(kev_answer)})
    BY <1>1, <1>4, <1>17
  <2>7. QED
    BY <2>2, <2>3, <2>4, <2>5, <2>6 DEF IsFaithful, SaysSo, TellsOf, NamedBy, WatchedBy, OwnOf, SearchedOf, ProductsOf
<1>20. QED
  BY <1>4, <1>12, <1>19

RowOK(d) == IsFaithful(d.digest, d.nvd, d.kev, d.watchlist) /\ AreCves(d.digest.cves)

CveRowsOK == (\A d \in ToSet(cve_digests) : RowOK(d)) /\ NvdAnswerOK(cve_run.nvd)

\* A row agrees with the answers it is made of.
LEMMA RowIsFaithful ==
    ASSUME NEW nvd, NvdAnswerOK(nvd), NEW kev, KevAnswerOK(kev), NEW watchlist, IsList(watchlist)
    PROVE  RowOK(CveRow(nvd, kev, watchlist))
<1>1. PICK digest : digest = run_digest(nvd, kev, watchlist, Now)
  OBVIOUS
<1>2. IsFaithful(digest, nvd, kev, watchlist) /\ AreCves(digest.cves)
  BY <1>1, DigestIsFaithful, LimitAssumption
<1>3. PICK d : d = CveRow(nvd, kev, watchlist)
  OBVIOUS
<1>4. d.digest = digest /\ d.nvd = nvd /\ d.kev = kev /\ d.watchlist = watchlist
  BY <1>1, <1>3 DEF CveRow
<1>5. QED
  BY <1>2, <1>3, <1>4 DEF RowOK

\* The feeds answer with what the parsers expect, or fail.
LEMMA FeedsAreOK ==
    /\ \A answer \in NvdAnswers \cup {MockNvd} : NvdAnswerOK(answer)
    /\ \A answer \in KevAnswers \cup {MockKev} : KevAnswerOK(answer)
    /\ \A watchlist \in Watchlists : IsList(watchlist)
<1>1. /\ \A answer \in NvdAnswers \cup {MockNvd} : NvdAnswerOK(answer)
      /\ \A answer \in KevAnswers \cup {MockKev} : KevAnswerOK(answer)
  BY FeedAssumption DEF NvdAnswerOK, KevAnswerOK
<1>2. \A watchlist \in Watchlists : IsList(watchlist)
  <2>1. PICK T : T = [vendor : Terms \cup {NoText}, product : Terms \cup {NoText}]
    OBVIOUS
  <2>2. Watchlists \subseteq Seq(T)
    BY <2>1, TableAssumption
  <2>3. QED
    BY <2>2, SeqIsList
<1>3. QED
  BY <1>1, <1>2

\* The digests saved before agree with what they were made of.
LEMMA CveRowsInitially == FusionInit => CveRowsOK
<1> SUFFICES ASSUME FusionInit PROVE CveRowsOK
  OBVIOUS
<1>1. PICK old \in OldCves : cve_digests = [i \in DOMAIN old |-> CveRow(old[i].nvd, old[i].kev, <<>>)]
  BY DEF FusionInit
<1>2. \A o \in ToSet(old) : IsNvd(o.nvd) /\ IsKev(o.kev)
  BY TableAssumption
<1>3. IsList(<<>>)
  BY DEF IsList
<1>4. \A i \in DOMAIN old : RowOK(CveRow(old[i].nvd, old[i].kev, <<>>))
  <2> SUFFICES ASSUME NEW i \in DOMAIN old PROVE RowOK(CveRow(old[i].nvd, old[i].kev, <<>>))
    OBVIOUS
  <2>1. NvdAnswerOK(old[i].nvd) /\ KevAnswerOK(old[i].kev)
    BY <1>2 DEF ToSet, NvdAnswerOK, KevAnswerOK
  <2>2. QED
    BY <1>3, <2>1, RowIsFaithful
<1>5. \A d \in ToSet(cve_digests) : RowOK(d)
  BY <1>1, <1>4 DEF ToSet
<1>6. NvdAnswerOK(cve_run.nvd)
  BY DEF FusionInit, NvdAnswerOK
<1>7. QED
  BY <1>5, <1>6 DEF CveRowsOK

\* A digest that is saved agrees with the answers, and saved ones stay as they are.
LEMMA CveRowsStep ==
    ASSUME FusionInv, CveRowsOK, [FusionNext]_fusionVars
    PROVE  CveRowsOK'
<1>1. IsList(cve_digests) /\ DOMAIN cve_run = {"at", "nvd"}
  BY DEF FusionInv, TablesOK, CveRunOK
<1>2. ASSUME NEW nvd, NvdAnswerOK(nvd), NEW kev, KevAnswerOK(kev), NEW w \in Watchlists,
             cve_digests' = Append(cve_digests, CveRow(nvd, kev, w)), cve_run'.nvd = cve_run.nvd
      PROVE  CveRowsOK'
  <2>1. PICK row : row = CveRow(nvd, kev, w)
    OBVIOUS
  <2>2. RowOK(row)
    BY <1>2, <2>1, FeedsAreOK, RowIsFaithful
  <2>3. ToSet(Append(cve_digests, row)) = ToSet(cve_digests) \cup {row}
    BY <1>1, ListAppends
  <2>4. ToSet(cve_digests') = ToSet(cve_digests) \cup {row}
    BY <1>2, <2>1, <2>3
  <2>5. QED
    BY <1>2, <2>2, <2>4 DEF CveRowsOK
<1>3. ASSUME NEW w \in Watchlists, CveOffline(w)
      PROVE  CveRowsOK'
  <2>1. cve_digests' = Append(cve_digests, CveRow(MockNvd, MockKev, w)) /\ cve_run'.nvd = cve_run.nvd
    BY <1>1, <1>3 DEF CveOffline
  <2>2. QED
    BY <1>2, <2>1, FeedsAreOK
<1>4. ASSUME NEW w \in Watchlists, NEW answer \in KevAnswers, KevAnswer(answer, w)
      PROVE  CveRowsOK'
  <2>1. cve_digests' = Append(cve_digests, CveRow(cve_run.nvd, answer, w)) /\ cve_run'.nvd = cve_run.nvd
    BY <1>1, <1>4 DEF KevAnswer
  <2>2. QED
    BY <1>2, <2>1, FeedsAreOK DEF CveRowsOK
<1>5. ASSUME NEW answer \in NvdAnswers, NvdAnswer(answer)
      PROVE  CveRowsOK'
  BY <1>5, FeedsAreOK DEF NvdAnswer, CveRowsOK
<1>6. CASE cve_digests' = cve_digests /\ cve_run'.nvd = cve_run.nvd
  BY <1>6 DEF CveRowsOK
<1>7. CASE AskNvd
  BY <1>1, <1>6, <1>7 DEF AskNvd
<1>8. CASE ThreatNext
  BY <1>6, <1>8 DEF ThreatNext, ThreatOffline, AskFeeds, FeedAnswer, Narrate
<1>9. CASE FeedNext
  BY <1>6, <1>9 DEF FeedNext, ReadMatches, ReadThreats, ReadCves, digestVars
<1>10. CASE CommitRaises
  BY <1>1, <1>6, <1>10 DEF CommitRaises
<1>11. CASE \E m \in NewMatches : NewMatch(m)
  BY <1>6, <1>11 DEF NewMatch, digestVars
<1>12. CASE UNCHANGED fusionVars
  BY <1>6, <1>12 DEF fusionVars
<1>13. QED
  BY <1>3, <1>4, <1>5, <1>7, <1>8, <1>9, <1>10, <1>11, <1>12 DEF FusionNext, CveNext

\* "When a CVE appears in both feeds, the KEV record's exploited/product data
\* wins but the NVD record's CVSS score and description are kept": whatever the
\* feeds answer, every saved digest agrees with them, each CVE once, newest
\* first, its products those of KEV and the watched ones that its text joined with
\* them mentions, in that order (merge_cves, tag_cve).
THEOREM CveDigestsAgree == FusionSpec => []CveDigestsAreFaithful
<1>1. CveRowsOK => CveDigestsAreFaithful
  BY DEF CveRowsOK, RowOK, CveDigestsAreFaithful
<1>2. FusionSpec => []FusionInv
  BY FusionInitially, FusionStep, PTL DEF FusionSpec
<1>3. FusionInv /\ CveRowsOK /\ [FusionNext]_fusionVars => CveRowsOK'
  BY CveRowsStep
<1>4. QED
  BY <1>1, <1>2, <1>3, CveRowsInitially, PTL DEF FusionSpec

-----------------------------------------------------------------------------
(* The articles of a digest, feed by feed *)

FeedAnswerOK(answer) == answer \in {Down, Malformed} \/ IsList(answer)

\* The items of an answer that are articles.
WholeOf(answer) ==
    IF answer \in {Down, Malformed} THEN {}
    ELSE {i \in DOMAIN answer : answer[i].title # NoText /\ answer[i].link}

Fewer(n) == IF n < max_per_feed THEN n ELSE max_per_feed

\* What one turn of the loop adds.
Part(answer, name) ==
    IF answer = Down THEN <<>> ELSE FirstOf(parse_rss_feed(answer, name), max_per_feed)

\* The articles are those of one feed.
PartOf(r, answer, name) ==
    /\ IsList(r) /\ Cardinality(WholeOf(answer)) \in Nat /\ Len(r) = Fewer(Cardinality(WholeOf(answer)))
    /\ \A i \in DOMAIN r : /\ r[i].source = name
                           /\ \E j \in WholeOf(answer) : /\ answer[j].title = r[i].title
                                                         /\ answer[j].summary = r[i].summary

Article(item, name) == [title |-> item.title, summary |-> item.summary, source |-> name]

\* Each item with a title and a link becomes an article (parse_rss_feed).
LEMMA FeedIsParsed ==
    ASSUME NEW answer, answer \notin {Down, Malformed}, IsList(answer), NEW name,
           NEW all, all = parse_rss_feed(answer, name)
    PROVE  /\ IsList(all) /\ Cardinality(WholeOf(answer)) \in Nat /\ Len(all) = Cardinality(WholeOf(answer))
           /\ \A i \in DOMAIN all : \E j \in WholeOf(answer) : all[i] = Article(answer[j], name)
<1>1. PICK places : places = {i \in DOMAIN answer : answer[i].title # NoText /\ answer[i].link}
  OBVIOUS
<1>2. places = WholeOf(answer) /\ places \in SUBSET DOMAIN answer
  BY <1>1 DEF WholeOf
<1>3. PICK whole : whole = Picked(answer, places)
  OBVIOUS
<1>4. /\ IsList(whole) /\ Len(whole) = Cardinality(places) /\ ToSet(whole) = {answer[i] : i \in places}
  BY <1>2, <1>3, PickedList
<1>5. Len(whole) \in Nat /\ DOMAIN whole = 1..Len(whole)
  BY <1>4, ListFacts
<1>6. all = [i \in DOMAIN whole |-> Article(whole[i], name)]
  BY <1>1, <1>3 DEF parse_rss_feed, Kept, Article
<1>7. IsList(all) /\ Len(all) = Len(whole) /\ DOMAIN all = DOMAIN whole
  <2>1. DOMAIN all = 1..Len(whole) /\ all = [i \in DOMAIN all |-> all[i]]
    BY <1>5, <1>6
  <2>2. QED
    BY <1>5, <2>1, ListOver
<1>8. ASSUME NEW i \in DOMAIN all
      PROVE  \E j \in WholeOf(answer) : all[i] = Article(answer[j], name)
  <2>1. all[i] = Article(whole[i], name) /\ whole[i] \in ToSet(whole)
    BY <1>6, <1>7 DEF ToSet
  <2>2. PICK j \in places : whole[i] = answer[j]
    BY <1>4, <2>1
  <2>3. QED
    BY <1>2, <2>1, <2>2
<1>9. QED
  BY <1>2, <1>4, <1>5, <1>7, <1>8

\* What one feed adds is of its answer, as many as it may be (fetch_all).
LEMMA PartIsOf ==
    ASSUME NEW answer, FeedAnswerOK(answer), NEW name
    PROVE  PartOf(Part(answer, name), answer, name)
<1>1. max_per_feed \in Nat
  BY FeedsAssumption
<1>2. PICK r : r = Part(answer, name)
  OBVIOUS
<1>3. ASSUME answer \in {Down, Malformed}
      PROVE  PartOf(r, answer, name)
  <2>1. WholeOf(answer) = {} /\ Cardinality({}) = 0
    BY <1>3, FS_EmptySet DEF WholeOf
  <2>2. IsList(<<>>) /\ Len(<<>>) = 0 /\ DOMAIN <<>> = {}
    BY DEF IsList
  <2>3. r = <<>>
    <3>1. CASE answer = Down
      BY <1>2, <3>1 DEF Part
    <3>2. CASE answer # Down
      <4>1. parse_rss_feed(answer, name) = <<>>
        BY <1>3, <3>2 DEF parse_rss_feed
      <4>2. r = FirstOf(<<>>, max_per_feed)
        BY <1>2, <3>2, <4>1 DEF Part
      <4>3. <<>> \in Seq({})
        OBVIOUS
      <4>4. r \in Seq({}) /\ Len(r) = IF max_per_feed < Len(<<>>) THEN max_per_feed ELSE Len(<<>>)
        BY <1>1, <4>2, <4>3, FirstOfProperties
      <4>5. Len(r) = 0
        BY <1>1, <2>2, <4>4
      <4>6. QED
        BY <4>4, <4>5, EmptySeq
    <3>3. QED
      BY <3>1, <3>2
  <2>4. Fewer(0) = 0
    BY <1>1 DEF Fewer
  <2>5. QED
    BY <2>1, <2>2, <2>3, <2>4 DEF PartOf
<1>4. ASSUME answer \notin {Down, Malformed}
      PROVE  PartOf(r, answer, name)
  <2>1. IsList(answer)
    BY <1>4 DEF FeedAnswerOK
  <2>2. PICK all : all = parse_rss_feed(answer, name)
    OBVIOUS
  <2>3. PICK size : size = Cardinality(WholeOf(answer))
    OBVIOUS
  <2>4. /\ IsList(all) /\ size \in Nat /\ Len(all) = size
        /\ \A i \in DOMAIN all : \E j \in WholeOf(answer) : all[i] = Article(answer[j], name)
    BY <1>4, <2>1, <2>2, <2>3, FeedIsParsed
  <2>5. r = FirstOf(all, max_per_feed)
    BY <1>2, <1>4, <2>2 DEF Part
  <2>6. all \in Seq(ToSet(all))
    BY <2>4 DEF IsList
  <2>7. /\ r \in Seq(ToSet(all)) /\ Len(r) = IF max_per_feed < Len(all) THEN max_per_feed ELSE Len(all)
        /\ DOMAIN r \subseteq DOMAIN all /\ \A i \in DOMAIN r : r[i] = all[i]
    BY <1>1, <2>5, <2>6, FirstOfProperties
  <2>8. IsList(r)
    BY <2>7, SeqIsList
  <2>9. Len(r) = Fewer(size)
    BY <1>1, <2>4, <2>7 DEF Fewer
  <2>10. ASSUME NEW i \in DOMAIN r
         PROVE  /\ r[i].source = name
                /\ \E j \in WholeOf(answer) : answer[j].title = r[i].title /\ answer[j].summary = r[i].summary
    <3>1. PICK j \in WholeOf(answer) : r[i] = Article(answer[j], name)
      BY <2>4, <2>7
    <3>2. r[i].source = name /\ r[i].title = answer[j].title /\ r[i].summary = answer[j].summary
      BY <3>1 DEF Article
    <3>3. QED
      BY <3>2
  <2>11. QED
    BY <2>3, <2>4, <2>8, <2>9, <2>10 DEF PartOf
<1>5. QED
  BY <1>2, <1>3, <1>4

PlacesOf(articles, name) == {i \in DOMAIN articles : articles[i].source = name}

\* The articles of one name are of this answer, as many as may be.
CameFrom(articles, answer, name) ==
    /\ Cardinality(PlacesOf(articles, name)) = Fewer(Cardinality(WholeOf(answer)))
    /\ \A i \in PlacesOf(articles, name) : \E j \in WholeOf(answer) :
          answer[j].title = articles[i].title /\ answer[j].summary = articles[i].summary

FromFeeds(articles, answers) ==
    /\ IsList(articles)
    /\ \A i \in DOMAIN articles : \E f \in DOMAIN answers : articles[i].source = Feeds[f]
    /\ \A f \in DOMAIN answers : CameFrom(articles, answers[f], Feeds[f])

\* One list after the other.
Joins(both, articles, part_) ==
    /\ IsList(both) /\ Len(both) = Len(articles) + Len(part_)
    /\ \A i \in DOMAIN articles : i \in DOMAIN both /\ both[i] = articles[i]
    /\ \A i \in DOMAIN part_ : Len(articles) + i \in DOMAIN both /\ both[Len(articles) + i] = part_[i]
    /\ \A i \in DOMAIN both : i \in DOMAIN articles \/ (i - Len(articles) \in DOMAIN part_ /\ i > Len(articles))

\* A list put behind another keeps the places of both.
LEMMA PartIsAppended ==
    ASSUME NEW articles, IsList(articles), NEW part_, IsList(part_)
    PROVE  Joins(articles \o part_, articles, part_)
<1>1. PICK T : T = ToSet(articles) \cup ToSet(part_)
  OBVIOUS
<1>2. articles \in Seq(T) /\ part_ \in Seq(T)
  BY <1>1, SeqOfItsElements DEF IsList
<1>3. PICK both : both = articles \o part_
  OBVIOUS
<1>4. PICK m, k : m = Len(articles) /\ k = Len(part_)
  OBVIOUS
<1>5. m \in Nat /\ k \in Nat /\ DOMAIN articles = 1..m /\ DOMAIN part_ = 1..k
  BY <1>4, ListFacts
<1>6. /\ both \in Seq(T) /\ Len(both) = m + k
      /\ \A i \in 1..(m + k) : both[i] = IF i <= m THEN articles[i] ELSE part_[i - m]
  BY <1>2, <1>3, <1>4, ConcatProperties
<1>7. DOMAIN both = 1..(m + k)
  BY <1>6, LenProperties
<1>8. \A i \in 1..m : i \in 1..(m + k) /\ both[i] = articles[i]
  <2> SUFFICES ASSUME NEW i \in 1..m PROVE i \in 1..(m + k) /\ both[i] = articles[i]
    OBVIOUS
  <2>1. i \in 1..(m + k) /\ i <= m
    BY <1>5
  <2>2. both[i] = IF i <= m THEN articles[i] ELSE part_[i - m]
    BY <1>6, <2>1
  <2>3. QED
    BY <2>1, <2>2
<1>9. \A i \in 1..k : m + i \in 1..(m + k) /\ both[m + i] = part_[i]
  <2> SUFFICES ASSUME NEW i \in 1..k PROVE m + i \in 1..(m + k) /\ both[m + i] = part_[i]
    OBVIOUS
  <2>1. PICK j : j = m + i
    OBVIOUS
  <2>2. j \in 1..(m + k) /\ ~(j <= m) /\ j - m = i
    BY <1>5, <2>1
  <2>3. both[j] = IF j <= m THEN articles[j] ELSE part_[j - m]
    BY <1>6, <2>2
  <2>4. QED
    BY <2>1, <2>2, <2>3
<1>10. \A i \in 1..(m + k) : i \in 1..m \/ (i - m \in 1..k /\ i > m)
  BY <1>5
<1>11. IsList(both)
  BY <1>6, SeqIsList
<1>12. Joins(both, articles, part_)
  BY <1>4, <1>5, <1>6, <1>7, <1>8, <1>9, <1>10, <1>11 DEF Joins
<1>13. QED
  BY <1>3, <1>12

\* The places that an answer's articles are appended at.
LEMMA PlacesStay ==
    ASSUME NEW articles, IsList(articles), NEW part_, IsList(part_), NEW name,
           NEW both, Joins(both, articles, part_),
           \A i \in DOMAIN part_ : part_[i].source # name
    PROVE  PlacesOf(both, name) = PlacesOf(articles, name)
<1>1. PICK m, k : m = Len(articles) /\ k = Len(part_)
  OBVIOUS
<1>2. m \in Nat /\ k \in Nat /\ DOMAIN articles = 1..m /\ DOMAIN part_ = 1..k
  BY <1>1, ListFacts
<1>3. /\ IsList(both) /\ Len(both) = m + k
      /\ \A i \in 1..m : i \in DOMAIN both /\ both[i] = articles[i]
      /\ \A i \in 1..k : m + i \in DOMAIN both /\ both[m + i] = part_[i]
      /\ \A i \in DOMAIN both : i \in 1..m \/ (i - m \in 1..k /\ i > m)
  BY <1>1, <1>2 DEF Joins
<1>4. DOMAIN both = 1..(m + k)
  BY <1>3, ListFacts
<1>5. ASSUME NEW i \in DOMAIN both, i \notin 1..m
      PROVE  i - m \in 1..k /\ both[i] = part_[i - m]
  <2>1. PICK j : j = i - m
    OBVIOUS
  <2>2. j \in 1..k /\ i = m + j
    BY <1>2, <1>3, <1>4, <1>5, <2>1
  <2>3. QED
    BY <1>3, <2>1, <2>2
<1>6. QED
  BY <1>2, <1>3, <1>5 DEF PlacesOf

\* The articles of a name that no other has are those appended.
LEMMA PlacesAreNew ==
    ASSUME NEW articles, IsList(articles), NEW part_, IsList(part_), NEW name,
           NEW both, Joins(both, articles, part_),
           \A i \in DOMAIN articles : articles[i].source # name,
           \A i \in DOMAIN part_ : part_[i].source = name
    PROVE  /\ PlacesOf(both, name) = (Len(articles) + 1)..(Len(articles) + Len(part_))
           /\ Cardinality(PlacesOf(both, name)) = Len(part_)
<1>1. PICK m, k : m = Len(articles) /\ k = Len(part_)
  OBVIOUS
<1>2. m \in Nat /\ k \in Nat /\ DOMAIN articles = 1..m /\ DOMAIN part_ = 1..k
  BY <1>1, ListFacts
<1>3. /\ IsList(both) /\ Len(both) = m + k
      /\ \A i \in 1..m : i \in DOMAIN both /\ both[i] = articles[i]
      /\ \A i \in 1..k : m + i \in DOMAIN both /\ both[m + i] = part_[i]
      /\ \A i \in DOMAIN both : i \in 1..m \/ (i - m \in 1..k /\ i > m)
  BY <1>1, <1>2 DEF Joins
<1>4. DOMAIN both = 1..(m + k)
  BY <1>3, ListFacts
<1>5. ASSUME NEW i \in DOMAIN both, i \notin 1..m
      PROVE  i - m \in 1..k /\ both[i] = part_[i - m]
  <2>1. PICK j : j = i - m
    OBVIOUS
  <2>2. j \in 1..k /\ i = m + j
    BY <1>2, <1>3, <1>4, <1>5, <2>1
  <2>3. QED
    BY <1>3, <2>1, <2>2
<1>7. PlacesOf(both, name) = (m + 1)..(m + k) /\ Cardinality((m + 1)..(m + k)) = k
  <2>1. \A i \in 1..m : both[i].source # name
    BY <1>2, <1>3
  <2>2. \A i \in 1..(m + k) : both[i].source = name <=> i \notin 1..m
    BY <1>2, <1>4, <1>5, <2>1
  <2>3. \A i \in 1..(m + k) : i \notin 1..m <=> i \in (m + 1)..(m + k)
    BY <1>2
  <2>4. (m + 1)..(m + k) \subseteq 1..(m + k)
    BY <1>2
  <2>5. PlacesOf(both, name) = (m + 1)..(m + k)
    BY <1>4, <2>2, <2>3, <2>4 DEF PlacesOf
  <2>6. m + 1 \in Int /\ m + k \in Int
    BY <1>2
  <2>7. Cardinality((m + 1)..(m + k)) = IF m + 1 > m + k THEN 0 ELSE (m + k) - (m + 1) + 1
    BY <2>6, FS_Interval
  <2>8. QED
    BY <1>2, <2>5, <2>7
<1>8. QED
  BY <1>1, <1>7

\* One more answer, and what was collected is still that of all answers so far.
LEMMA FeedIsAdded ==
    ASSUME NEW answers, IsList(answers), Len(answers) < Len(Feeds),
           NEW articles, FromFeeds(articles, answers),
           NEW answer, FeedAnswerOK(answer)
    PROVE  FromFeeds(FromFeed(articles, answer, Feeds[Len(answers) + 1]), Append(answers, answer))
<1>1. PICK n : n = Len(answers)
  OBVIOUS
<1>2. /\ n \in Nat /\ DOMAIN answers = 1..n /\ Len(Feeds) \in Nat /\ DOMAIN Feeds = 1..Len(Feeds)
      /\ n + 1 \in DOMAIN Feeds
  <2>1. n \in Nat /\ DOMAIN answers = 1..n
    BY <1>1, ListFacts
  <2>2. Len(Feeds) \in Nat /\ DOMAIN Feeds = 1..Len(Feeds)
    BY FeedsAssumption, LenProperties
  <2>3. QED
    BY <1>1, <2>1, <2>2
<1>3. PICK name : name = Feeds[n + 1]
  OBVIOUS
<1>4. \A f \in 1..n : Feeds[f] # name
  <2> SUFFICES ASSUME NEW f \in 1..n PROVE Feeds[f] # name
    OBVIOUS
  <2>1. f \in DOMAIN Feeds /\ f # n + 1
    BY <1>1, <1>2
  <2>2. QED
    BY <1>2, <1>3, <2>1, FeedsAssumption DEF IsInjective
<1>5. PICK more : more = Append(answers, answer)
  OBVIOUS
<1>6. /\ DOMAIN more = 1..(n + 1) /\ more[n + 1] = answer /\ \A f \in 1..n : more[f] = answers[f]
  <2>1. /\ IsList(more) /\ Len(more) = n + 1 /\ more[n + 1] = answer
        /\ \A f \in 1..n : more[f] = answers[f]
    BY <1>1, <1>5, ListAppends
  <2>2. QED
    BY <2>1, ListFacts
<1>7. PICK part_, both : part_ = Part(answer, name) /\ both = FromFeed(articles, answer, name)
  OBVIOUS
<1>8. PartOf(part_, answer, name)
  BY <1>7, PartIsOf
<1>9. IsList(articles) /\ IsList(part_)
  BY <1>8 DEF FromFeeds, PartOf
<1>10. both = articles \o part_
  <2>1. CASE answer = Down
    <3>1. articles \in Seq(ToSet(articles)) /\ part_ = <<>>
      BY <1>7, <1>9, <2>1 DEF IsList, Part
    <3>2. articles \o <<>> = articles
      BY <3>1, ConcatEmptySeq
    <3>3. QED
      BY <1>7, <2>1, <3>1, <3>2 DEF FromFeed
  <2>2. CASE answer # Down
    BY <1>7, <2>2 DEF FromFeed, Part
  <2>3. QED
    BY <2>1, <2>2
<1>joins. Joins(both, articles, part_)
  BY <1>9, <1>10, PartIsAppended
<1>11. PICK m : m = Len(articles)
  OBVIOUS
<1>12. /\ IsList(both)
       /\ \A i \in DOMAIN articles : i \in DOMAIN both /\ both[i] = articles[i]
       /\ \A i \in DOMAIN part_ : m + i \in DOMAIN both /\ both[m + i] = part_[i]
       /\ \A i \in DOMAIN both : i \in DOMAIN articles \/ (i - m \in DOMAIN part_ /\ i > m)
  BY <1>11, <1>joins DEF Joins
<1>13. m \in Nat /\ DOMAIN part_ = 1..Len(part_) /\ Len(part_) \in Nat
  BY <1>9, <1>11, ListFacts
<1>14. \A i \in DOMAIN both : \E f \in 1..(n + 1) : both[i].source = Feeds[f]
  <2> SUFFICES ASSUME NEW i \in DOMAIN both PROVE \E f \in 1..(n + 1) : both[i].source = Feeds[f]
    OBVIOUS
  <2>1. CASE i \in DOMAIN articles
    <3>1. PICK f \in 1..n : articles[i].source = Feeds[f]
      BY <1>2, <2>1 DEF FromFeeds
    <3>2. f \in 1..(n + 1)
      BY <1>2
    <3>3. QED
      BY <1>12, <2>1, <3>1, <3>2
  <2>2. CASE i \notin DOMAIN articles
    <3>1. PICK j : j = i - m
      OBVIOUS
    <3>2. DOMAIN both = 1..Len(both) /\ Len(both) \in Nat
      BY <1>12, ListFacts
    <3>3. j \in DOMAIN part_ /\ i = m + j
      BY <1>12, <1>13, <2>2, <3>1, <3>2
    <3>4. both[i] = part_[j]
      BY <1>12, <3>3
    <3>5. part_[j].source = name
      BY <1>8, <3>3 DEF PartOf
    <3>6. n + 1 \in 1..(n + 1)
      BY <1>2
    <3>7. QED
      BY <1>3, <3>4, <3>5, <3>6
  <2>3. QED
    BY <2>1, <2>2
<1>15. ASSUME NEW f \in 1..n
       PROVE  CameFrom(both, more[f], Feeds[f])
  <2>1. PlacesOf(both, Feeds[f]) = PlacesOf(articles, Feeds[f])
    <3>1. \A i \in DOMAIN part_ : part_[i].source # Feeds[f]
      BY <1>4, <1>8 DEF PartOf
    <3>2. QED
      BY <1>9, <1>joins, <3>1, PlacesStay
  <2>2. CameFrom(articles, answers[f], Feeds[f])
    BY <1>2 DEF FromFeeds
  <2>3. \A i \in PlacesOf(articles, Feeds[f]) : both[i] = articles[i]
    BY <1>12 DEF PlacesOf
  <2>4. QED
    BY <1>6, <2>1, <2>2, <2>3 DEF CameFrom
<1>16. CameFrom(both, answer, name)
  <2>1. \A i \in DOMAIN articles : articles[i].source # name
    BY <1>2, <1>4 DEF FromFeeds
  <2>2. \A i \in DOMAIN part_ : part_[i].source = name
    BY <1>8 DEF PartOf
  <2>3. /\ PlacesOf(both, name) = (Len(articles) + 1)..(Len(articles) + Len(part_))
        /\ Cardinality(PlacesOf(both, name)) = Len(part_)
    BY <1>9, <1>joins, <2>1, <2>2, PlacesAreNew
  <2>4. \A i \in PlacesOf(both, name) : i - m \in DOMAIN part_ /\ i = m + (i - m)
    BY <1>11, <1>13, <2>3
  <2>5. \A i \in PlacesOf(both, name) : both[i] = part_[i - m]
    BY <1>12, <2>4
  <2>6. Cardinality(PlacesOf(both, name)) = Fewer(Cardinality(WholeOf(answer)))
    BY <1>8, <2>3 DEF PartOf
  <2>7. ASSUME NEW i \in PlacesOf(both, name)
        PROVE  \E j \in WholeOf(answer) : answer[j].title = both[i].title /\ answer[j].summary = both[i].summary
    BY <1>8, <2>4, <2>5 DEF PartOf
  <2>8. QED
    BY <2>6, <2>7 DEF CameFrom
<1>17. \A f \in 1..(n + 1) : CameFrom(both, more[f], Feeds[f])
  <2>1. \A f \in 1..(n + 1) : f \in 1..n \/ f = n + 1
    BY <1>2
  <2>2. QED
    BY <1>3, <1>6, <1>15, <1>16, <2>1
<1>18. FromFeeds(both, more)
  BY <1>6, <1>12, <1>14, <1>17 DEF FromFeeds
<1>19. QED
  BY <1>1, <1>3, <1>5, <1>7, <1>18

VectorNames == {v.vector : v \in ToSet(VECTOR_KEYWORDS)}

MentionedBy(a) == MentionedIn(<<a.title, a.summary>>)

\* The vectors of an article are those whose keywords it mentions.
LEMMA TagsAreVectors ==
    ASSUME NEW a, NEW r, r = tag_article(a)
    PROVE  /\ IsList(r) /\ ToSet(r) \subseteq VectorNames
           /\ \A v \in ToSet(VECTOR_KEYWORDS) : v.vector \in ToSet(r) <=> v.keywords \cap MentionedBy(a) # {}
<1>1. PICK all : all = VECTOR_KEYWORDS
  OBVIOUS
<1>2. IsList(all)
  BY <1>1, VectorAssumption DEF IsList
<1>3. PICK places : places = {i \in DOMAIN all : \E keyword \in all[i].keywords :
                           keyword \in MentionedIn(<<a.title, a.summary>>)}
  OBVIOUS
<1>4. places \in SUBSET DOMAIN all
  BY <1>3
<1>5. PICK tagged : tagged = Picked(all, places)
  OBVIOUS
<1>6. r = [i \in DOMAIN tagged |-> tagged[i].vector]
  BY <1>1, <1>3, <1>5 DEF tag_article, Kept
<1>7. IsList(tagged) /\ ToSet(tagged) = {all[i] : i \in places}
  BY <1>2, <1>4, <1>5, PickedList
<1>8. DOMAIN tagged = 1..Len(tagged) /\ Len(tagged) \in Nat
  BY <1>7, ListFacts
<1>9. IsList(r)
  <2>1. DOMAIN r = 1..Len(tagged) /\ r = [i \in DOMAIN r |-> r[i]]
    BY <1>6, <1>8
  <2>2. QED
    BY <1>8, <2>1, ListOver
<1>10. \A x \in ToSet(r) : \E i \in places : x = all[i].vector
  <2> SUFFICES ASSUME NEW x \in ToSet(r) PROVE \E i \in places : x = all[i].vector
    OBVIOUS
  <2>1. PICK k \in DOMAIN tagged : x = tagged[k].vector
    BY <1>6 DEF ToSet
  <2>2. tagged[k] \in ToSet(tagged)
    BY DEF ToSet
  <2>3. QED
    BY <1>7, <2>1, <2>2
<1>11. \A i \in places : all[i].vector \in ToSet(r)
  <2> SUFFICES ASSUME NEW i \in places PROVE all[i].vector \in ToSet(r)
    OBVIOUS
  <2>1. all[i] \in ToSet(tagged)
    BY <1>7
  <2>2. PICK k \in DOMAIN tagged : all[i] = tagged[k]
    BY <2>1 DEF ToSet
  <2>3. QED
    BY <1>6, <2>2 DEF ToSet
<1>12. \A i \in DOMAIN all : i \in places <=> all[i].keywords \cap MentionedBy(a) # {}
  BY <1>3 DEF MentionedBy
<1>13. ToSet(r) \subseteq VectorNames
  BY <1>1, <1>4, <1>10 DEF VectorNames, ToSet
<1>14. ASSUME NEW v \in ToSet(VECTOR_KEYWORDS)
       PROVE  v.vector \in ToSet(r) <=> v.keywords \cap MentionedBy(a) # {}
  <2>1. PICK k \in DOMAIN all : v = all[k]
    BY <1>1 DEF ToSet
  <2>2. ASSUME v.vector \in ToSet(r)
        PROVE  k \in places
    <3>1. PICK i \in places : v.vector = all[i].vector
      BY <1>10, <2>2
    <3>2. i = k
      BY <1>1, <1>4, <2>1, <3>1, VectorAssumption
    <3>3. QED
      BY <3>2
  <2>3. QED
    BY <1>11, <1>12, <2>1, <2>2
<1>15. QED
  BY <1>9, <1>13, <1>14

HavingIn(articles, x) == {i \in DOMAIN articles : x \in ToSet(articles[i].vectors)}

VectorsOf(articles) == [i \in DOMAIN articles |-> articles[i].vectors]

CountsOf(seen, articles) ==
    [v \in DOMAIN seen |-> [vector |-> seen[v], count |-> Cardinality(HavingIn(articles, seen[v]))]]

KeysOf(counts) == [i \in DOMAIN counts |-> counts[i].count]

\* Every vector with its count, the most frequent first.
Ranks(r, articles) ==
    /\ \A i, j \in DOMAIN r : i < j => r[i].count >= r[j].count
    /\ \A x : \A n \in Nat \ {0} :
          Cardinality(HavingIn(articles, x)) = n <=> [vector |-> x, count |-> n] \in ToSet(r)

\* Ranking counts the articles of each vector, the most frequent first
\* (ranked_vectors).
LEMMA VectorsAreRanked ==
    ASSUME NEW articles, IsList(articles), \A i \in DOMAIN articles : IsList(articles[i].vectors)
    PROVE  Ranks(ranked_vectors(articles), articles)
<1>1. PICK ss : ss = VectorsOf(articles)
  OBVIOUS
<1>2. PICK seen : seen = FromKeys(FlattenSeq(ss))
  OBVIOUS
<1>3. PICK counts : counts = CountsOf(seen, articles)
  OBVIOUS
<1>4. PICK keys : keys = KeysOf(counts)
  OBVIOUS
<1>5. PICK r : r = InOrder(counts, keys)
  OBVIOUS
<1>6. r = ranked_vectors(articles)
  <2>1. ranked_vectors(articles)
            = InOrder(CountsOf(FromKeys(FlattenSeq(VectorsOf(articles))), articles),
                      KeysOf(CountsOf(FromKeys(FlattenSeq(VectorsOf(articles))), articles)))
    BY DEF ranked_vectors, SortedDown, InOrder, CountsOf, KeysOf, VectorsOf, Quantify, HavingIn
  <2>2. QED
    BY <1>1, <1>2, <1>3, <1>4, <1>5, <2>1
<1>7. DOMAIN articles = 1..Len(articles) /\ Len(articles) \in Nat
  BY ListFacts
<1>8. PICK T : T = UNION {ToSet(articles[i].vectors) : i \in DOMAIN articles}
  OBVIOUS
<1>9. DOMAIN ss = DOMAIN articles /\ \A i \in DOMAIN articles : ss[i] = articles[i].vectors /\ ss[i] \in Seq(T)
  <2>1. DOMAIN ss = DOMAIN articles /\ \A i \in DOMAIN articles : ss[i] = articles[i].vectors
    BY <1>1 DEF VectorsOf
  <2>2. ASSUME NEW i \in DOMAIN articles PROVE ss[i] \in Seq(T)
    <3>1. PICK s : s = articles[i].vectors
      OBVIOUS
    <3>2. s \in Seq(ToSet(s)) /\ ToSet(s) \subseteq T
      BY <1>8, <3>1 DEF IsList
    <3>3. QED
      BY <2>1, <3>1, <3>2, SeqOfItsElements
  <2>3. QED
    BY <2>1, <2>2
<1>10. ss \in Seq(Seq(T))
  <2>1. ss \in [1..Len(articles) -> Seq(T)]
    BY <1>1, <1>7, <1>9 DEF VectorsOf
  <2>2. QED
    BY <1>7, <2>1, SeqDef
<1>11. PICK flat : flat = FlattenSeq(ss)
  OBVIOUS
<1>12. flat \in Seq(T) /\ ToSet(flat) = T
  <2>1. flat \in Seq(T) /\ ToSet(flat) = UNION {ToSet(ss[i]) : i \in DOMAIN ss}
    BY <1>10, <1>11, FlattenedElements
  <2>2. QED
    BY <1>8, <1>9, <2>1
<1>13. seen \in Seq(T) /\ IsInjective(seen) /\ ToSet(seen) = T
  BY <1>2, <1>11, <1>12, FromKeysIsUnique
<1>14. PICK n : n = Len(seen)
  OBVIOUS
<1>15. n \in Nat /\ DOMAIN seen = 1..n /\ DOMAIN counts = 1..n /\ DOMAIN keys = 1..n
  <2>1. n \in Nat /\ DOMAIN seen = 1..n
    BY <1>13, <1>14, LenProperties
  <2>2. DOMAIN counts = DOMAIN seen /\ DOMAIN keys = DOMAIN counts
    BY <1>3, <1>4 DEF CountsOf, KeysOf
  <2>3. QED
    BY <2>1, <2>2
<1>16. ASSUME NEW x
       PROVE  IsFiniteSet(HavingIn(articles, x)) /\ Cardinality(HavingIn(articles, x)) \in Nat
  <2>1. HavingIn(articles, x) \subseteq DOMAIN articles
    BY DEF HavingIn
  <2>2. IsFiniteSet(DOMAIN articles)
    BY ListIsFinite
  <2>3. QED
    BY <2>1, <2>2, FS_Subset, FS_CardinalityType
<1>17. \A v \in 1..n : counts[v] = [vector |-> seen[v], count |-> Cardinality(HavingIn(articles, seen[v]))]
  BY <1>3, <1>15 DEF CountsOf
<1>18. \A v \in 1..n : keys[v] = Cardinality(HavingIn(articles, seen[v])) /\ counts[v].count = keys[v]
  BY <1>4, <1>15, <1>17 DEF KeysOf
<1>19. keys \in Seq(Nat) /\ Len(keys) = n
  <2>1. \A v \in 1..n : keys[v] \in Nat
    BY <1>16, <1>18
  <2>2. keys \in [1..n -> Nat]
    BY <1>4, <1>15, <2>1 DEF KeysOf
  <2>3. QED
    BY <1>15, <2>2, SeqDef, LenProperties
<1>20. IsList(counts) /\ Len(counts) = n
  <2>1. counts = [i \in DOMAIN counts |-> counts[i]]
    BY <1>3 DEF CountsOf
  <2>2. QED
    BY <1>15, <2>1, ListOver
<1>21. DOMAIN r = 1..n /\ ToSet(r) = ToSet(counts)
  <2>1. counts \in Seq(ToSet(counts)) /\ Len(keys) = Len(counts)
    BY <1>19, <1>20 DEF IsList
  <2>2. DOMAIN r = DOMAIN counts /\ ToSet(r) = ToSet(counts)
    BY <1>5, <1>19, <2>1, SortedByKeys
  <2>3. QED
    BY <1>15, <2>2
<1>22. \A i, j \in DOMAIN r : i < j => r[i].count >= r[j].count
  <2>1. PICK at : at = Descending(keys)
    OBVIOUS
  <2>2. at \in [DOMAIN keys -> DOMAIN keys]
    BY <1>19, <2>1, DescendingPlaces
  <2>3. \A i, j \in DOMAIN keys : i < j => keys[at[i]] >= keys[at[j]]
    BY <1>19, <2>1, DescendingPlaces
  <2>4. \A i \in 1..n : r[i] = counts[at[i]]
    BY <1>5, <1>15, <2>1 DEF InOrder
  <2>5. \A i \in 1..n : r[i].count = keys[at[i]]
    BY <1>15, <1>18, <2>2, <2>4
  <2>6. QED
    BY <1>15, <1>21, <2>3, <2>5
<1>23. ASSUME NEW x, NEW k \in Nat \ {0}, Cardinality(HavingIn(articles, x)) = k
       PROVE  [vector |-> x, count |-> k] \in ToSet(r)
  <2>1. HavingIn(articles, x) # {}
    BY <1>23, FS_EmptySet
  <2>2. PICK i \in DOMAIN articles : x \in ToSet(articles[i].vectors)
    BY <2>1 DEF HavingIn
  <2>3. x \in ToSet(seen)
    BY <1>8, <1>13, <2>2
  <2>4. PICK v \in 1..n : seen[v] = x
    BY <1>15, <2>3 DEF ToSet
  <2>5. counts[v] = [vector |-> x, count |-> k]
    BY <1>17, <1>23, <2>4
  <2>6. counts[v] \in ToSet(counts)
    BY <1>15 DEF ToSet
  <2>7. QED
    BY <1>21, <2>5, <2>6
<1>24. ASSUME NEW x, NEW k \in Nat \ {0}, [vector |-> x, count |-> k] \in ToSet(r)
       PROVE  Cardinality(HavingIn(articles, x)) = k
  <2>1. PICK v \in 1..n : counts[v] = [vector |-> x, count |-> k]
    BY <1>15, <1>21, <1>24 DEF ToSet
  <2>2. counts[v].vector = x /\ counts[v].count = k
    BY <2>1
  <2>3. counts[v].vector = seen[v] /\ counts[v].count = Cardinality(HavingIn(articles, seen[v]))
    <3>1. PICK size : size = Cardinality(HavingIn(articles, seen[v]))
      OBVIOUS
    <3>2. counts[v] = [vector |-> seen[v], count |-> size]
      BY <1>17, <3>1
    <3>3. QED
      BY <3>1, <3>2
  <2>4. QED
    BY <2>2, <2>3
<1>25. Ranks(r, articles)
  BY <1>22, <1>23, <1>24 DEF Ranks
<1>26. QED
  BY <1>6, <1>25

\* Tagging changes nothing of an article, and gives it the vectors it mentions.
LEMMA ArticlesAreTagged ==
    ASSUME NEW articles, IsList(articles), NEW tagged, tagged = Tagged(articles)
    PROVE  /\ IsList(tagged) /\ DOMAIN tagged = DOMAIN articles
           /\ \A i \in DOMAIN tagged :
                 /\ tagged[i].title = articles[i].title /\ tagged[i].summary = articles[i].summary
                 /\ tagged[i].source = articles[i].source
                 /\ IsList(tagged[i].vectors)
                 /\ \A v \in ToSet(VECTOR_KEYWORDS) :
                       v.vector \in ToSet(tagged[i].vectors) <=> v.keywords \cap MentionedBy(tagged[i]) # {}
<1>1. DOMAIN articles = 1..Len(articles) /\ Len(articles) \in Nat
  BY ListFacts
<1>2. DOMAIN tagged = DOMAIN articles /\ tagged = [i \in DOMAIN tagged |-> tagged[i]]
  BY DEF Tagged
<1>3. IsList(tagged)
  BY <1>1, <1>2, ListOver
<1>4. ASSUME NEW i \in DOMAIN articles
      PROVE  /\ tagged[i].title = articles[i].title /\ tagged[i].summary = articles[i].summary
             /\ tagged[i].source = articles[i].source
             /\ IsList(tagged[i].vectors)
             /\ \A v \in ToSet(VECTOR_KEYWORDS) :
                   v.vector \in ToSet(tagged[i].vectors) <=> v.keywords \cap MentionedBy(tagged[i]) # {}
  <2>1. PICK a, r : a = articles[i] /\ r = tag_article(a)
    OBVIOUS
  <2>2. PICK t : t = tagged[i]
    OBVIOUS
  <2>3. t = [title |-> a.title, summary |-> a.summary, source |-> a.source, vectors |-> r]
    BY <2>1, <2>2 DEF Tagged
  <2>4. t.title = a.title /\ t.summary = a.summary /\ t.source = a.source /\ t.vectors = r
    BY <2>3
  <2>5. IsList(r) /\ \A v \in ToSet(VECTOR_KEYWORDS) : v.vector \in ToSet(r) <=> v.keywords \cap MentionedBy(a) # {}
    BY <2>1, TagsAreVectors
  <2>6. MentionedBy(t) = MentionedBy(a)
    BY <2>4 DEF MentionedBy
  <2>7. QED
    BY <2>1, <2>2, <2>4, <2>5, <2>6
<1>5. QED
  BY <1>2, <1>3, <1>4

OfFeed(tagged, f) == Picked(tagged, PlacesOf(tagged, Feeds[f]))

\* What a digest says of one feed.
TellsOfFeed(tagged, answer, f) ==
    /\ Len(OfFeed(tagged, f)) = Fewer(Cardinality(WholeOf(answer)))
    /\ \A a \in ToSet(OfFeed(tagged, f)) : \E i \in WholeOf(answer) :
          answer[i].title = a.title /\ answer[i].summary = a.summary

\* The tagged articles tell of a feed what the collected ones did.
LEMMA FeedIsTold ==
    ASSUME NEW articles, IsList(articles), NEW tagged, tagged = Tagged(articles), NEW f, NEW answer,
           CameFrom(articles, answer, Feeds[f])
    PROVE  TellsOfFeed(tagged, answer, f)
<1>1. /\ IsList(tagged) /\ DOMAIN tagged = DOMAIN articles
      /\ \A i \in DOMAIN tagged :
            /\ tagged[i].title = articles[i].title /\ tagged[i].summary = articles[i].summary
            /\ tagged[i].source = articles[i].source
  BY ArticlesAreTagged
<1>2. PICK places : places = PlacesOf(tagged, Feeds[f])
  OBVIOUS
<1>3. places = PlacesOf(articles, Feeds[f]) /\ places \in SUBSET DOMAIN tagged
  BY <1>1, <1>2 DEF PlacesOf
<1>4. PICK of : of = Picked(tagged, places)
  OBVIOUS
<1>5. Len(of) = Cardinality(places) /\ ToSet(of) = {tagged[i] : i \in places}
  BY <1>1, <1>3, <1>4, PickedList
<1>6. of = OfFeed(tagged, f)
  BY <1>2, <1>4 DEF OfFeed
<1>7. Len(of) = Fewer(Cardinality(WholeOf(answer)))
  BY <1>3, <1>5 DEF CameFrom
<1>8. ASSUME NEW a \in ToSet(of)
      PROVE  \E j \in WholeOf(answer) : answer[j].title = a.title /\ answer[j].summary = a.summary
  <2>1. PICK i \in places : a = tagged[i]
    BY <1>5
  <2>2. PICK j \in WholeOf(answer) : answer[j].title = articles[i].title /\ answer[j].summary = articles[i].summary
    BY <1>3, <2>1 DEF CameFrom
  <2>3. QED
    BY <1>1, <1>3, <2>1, <2>2
<1>9. QED
  BY <1>6, <1>7, <1>8 DEF TellsOfFeed

\* A digest of what was collected from every feed is true to their answers.
LEMMA DigestIsTruthful ==
    ASSUME NEW articles, NEW answers, FromFeeds(articles, answers), DOMAIN answers = DOMAIN Feeds,
           NEW told \in BOOLEAN,
           NEW d, d.articles = Tagged(articles), d.breakdown = Breakdown(Tagged(articles), told)
    PROVE  IsTruthful(d, answers, told)
<1>1. PICK tagged : tagged = Tagged(articles)
  OBVIOUS
<1>2. IsList(articles)
  BY DEF FromFeeds
<1>3. /\ IsList(tagged)
      /\ \A i \in DOMAIN tagged :
            /\ IsList(tagged[i].vectors)
            /\ \A v \in ToSet(VECTOR_KEYWORDS) :
                  v.vector \in ToSet(tagged[i].vectors) <=> v.keywords \cap MentionedBy(tagged[i]) # {}
  BY <1>1, <1>2, ArticlesAreTagged
<1>4. \A f \in DOMAIN Feeds : TellsOfFeed(tagged, answers[f], f)
  <2> SUFFICES ASSUME NEW f \in DOMAIN Feeds PROVE TellsOfFeed(tagged, answers[f], f)
    OBVIOUS
  <2>1. CameFrom(articles, answers[f], Feeds[f])
    BY DEF FromFeeds
  <2>2. QED
    BY <1>1, <1>2, <2>1, FeedIsTold
<1>5. PICK r : r = ranked_vectors(tagged)
  OBVIOUS
<1>6. Ranks(r, tagged)
  BY <1>3, <1>5, VectorsAreRanked
<1>7. /\ d.articles = tagged /\ d.breakdown.article_count = Len(tagged)
      /\ ~told => d.breakdown.vector_breakdown = r
  <2>1. PICK b : b = Breakdown(tagged, told)
    OBVIOUS
  <2>2. b.article_count = Len(tagged) /\ b.vector_breakdown = IF told THEN Retold ELSE r
    BY <1>5, <2>1 DEF Breakdown
  <2>3. QED
    BY <1>1, <2>1, <2>2
<1>8. \A f \in DOMAIN Feeds : TellsOfFeed(d.articles, answers[f], f)
  BY <1>4, <1>7
<1>9. \A a \in ToSet(d.articles) : \A v \in ToSet(VECTOR_KEYWORDS) :
          v.vector \in ToSet(a.vectors) <=> v.keywords \cap MentionedIn(<<a.title, a.summary>>) # {}
  BY <1>3, <1>7 DEF ToSet, MentionedBy
<1>10. ~told => IsSortedDown(d.breakdown.vector_breakdown, LAMBDA x : x.count)
  BY <1>6, <1>7 DEF Ranks, IsSortedDown
<1>11. ~told => \A v \in ToSet(VECTOR_KEYWORDS) : \A n \in 1..Len(d.articles) :
          Cardinality(HavingIn(d.articles, v.vector)) = n
            <=> [vector |-> v.vector, count |-> n] \in ToSet(d.breakdown.vector_breakdown)
  <2>1. Len(tagged) \in Nat
    BY <1>3, ListFacts
  <2>2. \A n \in 1..Len(tagged) : n \in Nat \ {0}
    BY <2>1
  <2>3. QED
    BY <1>6, <1>7, <2>2 DEF Ranks
<1>12. d.breakdown.article_count = Len(d.articles)
  BY <1>7
<1>13. QED
  BY <1>8, <1>9, <1>10, <1>11, <1>12
     DEF IsTruthful, TellsOfFeed, OfFeed, PlacesOf, Kept, WholeOf, Fewer, HavingIn

-----------------------------------------------------------------------------
(* Summaries *)

\* A summary that is not an exception is by someone who was asked, or is the
\* deterministic one when nobody had an object to give (build_summary).
LEMMA SummaryHasGrounds ==
    ASSUME NEW offline, NEW keys \in SUBSET AIProviderName, NEW answer,
           build_summary(offline, keys, answer) # "raises"
    PROVE  build_summary(offline, keys, answer) \in Grounds(offline, keys, answer)
<1> DEFINE gemini == "gemini" \in keys /\ answer["gemini"] \notin {"raises", "no text"}
           openai == "openai" \in keys /\ answer["openai"] \notin {"raises", "no text"}
           heard == {p \in keys : answer[p] \notin {"raises", "no text"}}
           By(text, provider) == IF text = "prose" THEN "deterministic-fallback"
                                 ELSE IF text = "summary" THEN provider ELSE "raises"
<1>1. \A text, provider : [provider |-> provider, text |-> text].text = text
  OBVIOUS
<1>2. \A text : /\ [provider |-> "gemini", text |-> text] # NoResult
                /\ [provider |-> "openai", text |-> text] # NoResult
  BY DEF NoResult
<1>3. CASE offline
  BY <1>3 DEF build_summary, generate_json, Grounds
<1>4. CASE ~offline /\ gemini
  <2>1. build_summary(offline, keys, answer) = By(answer["gemini"], "gemini")
    BY <1>1, <1>2, <1>4 DEF build_summary, generate_json, _try_gemini
  <2>2. "gemini" \in heard
    BY <1>4
  <2>3. QED
    BY <1>4, <2>1, <2>2 DEF Grounds
<1>5. CASE ~offline /\ ~gemini /\ openai
  <2>1. build_summary(offline, keys, answer) = By(answer["openai"], "openai")
    BY <1>1, <1>2, <1>5 DEF build_summary, generate_json, _try_openai, _try_gemini
  <2>2. "openai" \in heard
    BY <1>5
  <2>3. QED
    BY <1>5, <2>1, <2>2 DEF Grounds
<1>6. CASE ~offline /\ ~gemini /\ ~openai
  <2>1. heard = {}
    BY <1>6 DEF AIProviderName
  <2>2. build_summary(offline, keys, answer) = "deterministic-fallback"
    BY <1>6 DEF build_summary, generate_json, _try_openai, _try_gemini
  <2>3. QED
    BY <1>6, <2>1, <2>2 DEF Grounds
<1>7. QED
  BY <1>3, <1>4, <1>5, <1>6

\* Only a reply of the wrong shape is an exception (build_summary).
LEMMA SummaryRaises ==
    ASSUME NEW offline, NEW keys \in SUBSET AIProviderName, NEW answer \in [AIProviderName -> Answer],
           build_summary(offline, keys, answer) = "raises"
    PROVE  \E p \in keys : answer[p] \in {"misshapen", "ill-typed"}
<1> DEFINE gemini == "gemini" \in keys /\ answer["gemini"] \notin {"raises", "no text"}
           openai == "openai" \in keys /\ answer["openai"] \notin {"raises", "no text"}
           By(text, provider) == IF text = "prose" THEN "deterministic-fallback"
                                 ELSE IF text = "summary" THEN provider ELSE "raises"
<1>1. \A text, provider : [provider |-> provider, text |-> text].text = text
  OBVIOUS
<1>2. \A text : /\ [provider |-> "gemini", text |-> text] # NoResult
                /\ [provider |-> "openai", text |-> text] # NoResult
  BY DEF NoResult
<1>3. answer["gemini"] \in Answer /\ answer["openai"] \in Answer
  BY DEF AIProviderName
<1>4. CASE offline
  BY <1>4 DEF build_summary, generate_json
<1>5. CASE ~offline /\ gemini
  <2>1. build_summary(offline, keys, answer) = By(answer["gemini"], "gemini")
    BY <1>1, <1>2, <1>5 DEF build_summary, generate_json, _try_gemini
  <2>2. QED
    BY <1>3, <1>5, <2>1 DEF Answer
<1>6. CASE ~offline /\ ~gemini /\ openai
  <2>1. build_summary(offline, keys, answer) = By(answer["openai"], "openai")
    BY <1>1, <1>2, <1>6 DEF build_summary, generate_json, _try_openai, _try_gemini
  <2>2. QED
    BY <1>3, <1>6, <2>1 DEF Answer
<1>7. CASE ~offline /\ ~gemini /\ ~openai
  BY <1>7 DEF build_summary, generate_json, _try_openai, _try_gemini
<1>8. QED
  BY <1>4, <1>5, <1>6, <1>7

-----------------------------------------------------------------------------
(* The saved threat digests *)

IsTold(d) ==
    ~d.ai.offline =>
        /\ IsTruthful(d, d.answers, ToldBy(d.model_source, d.ai))
        /\ d.articles # <<>> => d.model_source \in Grounds(FALSE, d.ai.keys, d.ai.answer)

ThreatRowOK(d) == IsList(d.articles) /\ IsTold(d)

LostForAReason ==
    \E p \in threat_run.ai.keys : threat_run.ai.answer[p] \in {"misshapen", "ill-typed"}

ThreatRowsOK ==
    /\ \A d \in ToSet(threat_digests) : ThreatRowOK(d)
    /\ threat_run.at \in {"start", "feeds"} => FromFeeds(threat_run.articles, threat_run.answers)
    /\ threat_run.at = "start" => threat_run.answers = <<>>
    /\ threat_run.at = "failed" => LostForAReason

\* What is in a row.
LEMMA ThreatRowSays ==
    ASSUME NEW articles, IsList(articles), NEW answers, NEW ai, NEW d, d = ThreatRow(articles, answers, ai)
    PROVE  /\ IsList(d.articles) /\ d.articles = Tagged(articles)
           /\ d.breakdown = Breakdown(Tagged(articles), ToldBy(d.model_source, ai))
           /\ d.articles # <<>> => articles # <<>>
           /\ d.answers = answers /\ d.ai = ai
           /\ articles = <<>> => d.model_source = "deterministic-fallback"
           /\ articles # <<>> => d.model_source = build_summary(ai.offline, ai.keys, ai.answer)
<1>1. PICK tagged : tagged = Tagged(articles)
  OBVIOUS
<1>2. PICK source : source = SourceOf(articles, ai)
  OBVIOUS
<1>3. PICK b : b = Breakdown(tagged, ToldBy(source, ai))
  OBVIOUS
<1>4. d = [articles |-> tagged, breakdown |-> b, model_source |-> source, answers |-> answers, ai |-> ai]
  BY <1>1, <1>2, <1>3 DEF ThreatRow
<1>5. /\ d.articles = tagged /\ d.breakdown = b /\ d.model_source = source
      /\ d.answers = answers /\ d.ai = ai
  BY <1>4
<1>6. IsList(tagged) /\ DOMAIN tagged = DOMAIN articles
  BY <1>1, ArticlesAreTagged
<1>7. tagged # <<>> => articles # <<>>
  BY <1>6, ListIsFinite
<1>8. /\ articles = <<>> => source = "deterministic-fallback"
      /\ articles # <<>> => source = build_summary(ai.offline, ai.keys, ai.answer)
  BY <1>2 DEF SourceOf
<1>9. d.breakdown = Breakdown(tagged, ToldBy(d.model_source, ai))
  BY <1>3, <1>5
<1>10. QED
  BY <1>1, <1>5, <1>6, <1>7, <1>8, <1>9

\* A digest of the fixtures is a list of articles, and promises no more.
LEMMA OfflineRowIsTold ==
    ASSUME NEW articles, IsList(articles), NEW answers
    PROVE  ThreatRowOK(ThreatRow(articles, answers, OfflineAi))
<1>1. PICK d : d = ThreatRow(articles, answers, OfflineAi)
  OBVIOUS
<1>2. PICK ai : ai = OfflineAi
  OBVIOUS
<1>3. IsList(d.articles) /\ d.ai = ai
  BY <1>1, <1>2, ThreatRowSays
<1>4. ai.offline
  BY <1>2 DEF OfflineAi
<1>5. QED
  BY <1>1, <1>3, <1>4 DEF ThreatRowOK, IsTold

IsOnline(ai, keys, answer) == ai.offline = FALSE /\ ai.keys = keys /\ ai.answer = answer

\* A digest of the feeds is true to them and has a summary with grounds, or it
\* was lost to a reply of the wrong shape.
LEMMA OnlineRowIsTold ==
    ASSUME NEW articles, NEW answers, FromFeeds(articles, answers), DOMAIN answers = DOMAIN Feeds,
           NEW keys \in AiKeys, NEW answer \in AiAnswers,
           NEW ai, IsOnline(ai, keys, answer),
           NEW d, d = ThreatRow(articles, answers, ai)
    PROVE  /\ d.model_source # "raises" => ThreatRowOK(d)
           /\ d.model_source = "raises" => \E p \in ai.keys : ai.answer[p] \in {"misshapen", "ill-typed"}
<1>1. IsList(articles)
  BY DEF FromFeeds
<1>2. /\ IsList(d.articles) /\ d.articles = Tagged(articles)
      /\ d.breakdown = Breakdown(Tagged(articles), ToldBy(d.model_source, ai))
      /\ d.articles # <<>> => articles # <<>>
      /\ d.answers = answers /\ d.ai = ai
      /\ articles = <<>> => d.model_source = "deterministic-fallback"
      /\ articles # <<>> => d.model_source = build_summary(ai.offline, ai.keys, ai.answer)
  BY <1>1, ThreatRowSays
<1>3. ai.offline = FALSE /\ ai.keys = keys /\ ai.answer = answer
  BY DEF IsOnline
<1>4. articles # <<>> => d.model_source = build_summary(FALSE, keys, answer)
  BY <1>2, <1>3
<1>5. keys \in SUBSET AIProviderName /\ answer \in [AIProviderName -> Answer]
  BY AiAssumption
<1>6. IsTruthful(d, answers, ToldBy(d.model_source, d.ai))
  <2>1. PICK told \in BOOLEAN : told = ToldBy(d.model_source, ai)
    BY DEF ToldBy
  <2>2. d.breakdown = Breakdown(Tagged(articles), told)
    BY <1>2, <2>1
  <2>3. IsTruthful(d, answers, told)
    BY <1>2, <2>2, DigestIsTruthful
  <2>4. QED
    BY <1>2, <2>1, <2>3
<1>7. ASSUME d.model_source # "raises" PROVE ThreatRowOK(d)
  <2>1. articles # <<>> => d.model_source \in Grounds(FALSE, keys, answer)
    <3>1. PICK offline : offline = FALSE
      OBVIOUS
    <3>2. build_summary(offline, keys, answer) # "raises" =>
              build_summary(offline, keys, answer) \in Grounds(offline, keys, answer)
      BY <1>5, SummaryHasGrounds
    <3>3. build_summary(FALSE, keys, answer) # "raises" =>
              build_summary(FALSE, keys, answer) \in Grounds(FALSE, keys, answer)
      BY <3>1, <3>2
    <3>4. QED
      BY <1>4, <1>7, <3>3
  <2>2. IsTold(d)
    BY <1>2, <1>3, <1>6, <2>1 DEF IsTold
  <2>3. QED
    BY <1>2, <2>2 DEF ThreatRowOK
<1>8. ASSUME d.model_source = "raises" PROVE \E p \in keys : answer[p] \in {"misshapen", "ill-typed"}
  <2>1. build_summary(FALSE, keys, answer) = "raises"
    BY <1>2, <1>4, <1>8
  <2>2. PICK offline : offline = FALSE
    OBVIOUS
  <2>3. build_summary(offline, keys, answer) = "raises"
    BY <2>1, <2>2
  <2>4. QED
    BY <1>5, <2>3, SummaryRaises
<1>9. QED
  BY <1>3, <1>7, <1>8

\* The digests saved before are of the fixtures, and nothing is collected yet.
LEMMA ThreatRowsInitially == FusionInit => ThreatRowsOK
<1> SUFFICES ASSUME FusionInit PROVE ThreatRowsOK
  OBVIOUS
<1>1. PICK old \in OldThreats :
          threat_digests = [i \in DOMAIN old |-> ThreatRow(old[i], <<>>, OfflineAi)]
  BY DEF FusionInit
<1>2. \A o \in ToSet(old) : IsList(o)
  BY TableAssumption DEF AreArticles, IsList
<1>3. \A i \in DOMAIN old : ThreatRowOK(ThreatRow(old[i], <<>>, OfflineAi))
  <2> SUFFICES ASSUME NEW i \in DOMAIN old PROVE ThreatRowOK(ThreatRow(old[i], <<>>, OfflineAi))
    OBVIOUS
  <2>1. IsList(old[i])
    BY <1>2 DEF ToSet
  <2>2. QED
    BY <2>1, OfflineRowIsTold
<1>4. \A d \in ToSet(threat_digests) : ThreatRowOK(d)
  BY <1>1, <1>3 DEF ToSet
<1>5. threat_run.at = "start" /\ threat_run.answers = <<>> /\ threat_run.articles = <<>>
  BY DEF FusionInit
<1>6. FromFeeds(<<>>, <<>>)
  BY DEF FromFeeds, IsList
<1>7. QED
  BY <1>4, <1>5, <1>6 DEF ThreatRowsOK

\* What is collected stays true to the answers, what is saved to all of them.
LEMMA ThreatRowsStep ==
    ASSUME FusionInv, ThreatRowsOK, [FusionNext]_fusionVars
    PROVE  ThreatRowsOK'
<1>1. /\ IsList(threat_digests) /\ DOMAIN threat_run = {"at", "answers", "articles", "ai"}
      /\ IsList(threat_run.answers)
  BY SeqIsList DEF FusionInv, TablesOK, ThreatRunOK
<1>2. IsList(Feeds) /\ Len(Feeds) \in Nat /\ DOMAIN Feeds = 1..Len(Feeds)
  BY FeedsAssumption, ListFacts DEF IsList
<1>3. ASSUME NEW row, ThreatRowOK(row), threat_digests' = Append(threat_digests, row),
             threat_run'.at = "saved"
      PROVE  ThreatRowsOK'
  <2>1. ToSet(threat_digests') = ToSet(threat_digests) \cup {row}
    BY <1>1, <1>3, ListAppends
  <2>2. QED
    BY <1>3, <2>1 DEF ThreatRowsOK
<1>4. CASE ThreatOffline
  <2>1. PICK row : row = ThreatRow(MockArticles, <<>>, OfflineAi)
    OBVIOUS
  <2>2. IsList(MockArticles)
    BY FeedsAssumption DEF AreArticles, IsList
  <2>3. ThreatRowOK(row)
    BY <2>1, <2>2, OfflineRowIsTold
  <2>4. threat_digests' = Append(threat_digests, row) /\ threat_run'.at = "saved"
    BY <1>1, <1>4, <2>1 DEF ThreatOffline
  <2>5. QED
    BY <1>3, <2>3, <2>4
<1>5. CASE AskFeeds
  <2>1. /\ threat_run.at = "start" /\ threat_run'.at = "feeds" /\ threat_digests' = threat_digests
        /\ threat_run'.answers = threat_run.answers /\ threat_run'.articles = threat_run.articles
    BY <1>1, <1>5 DEF AskFeeds
  <2>2. QED
    BY <2>1 DEF ThreatRowsOK
<1>6. ASSUME NEW answer \in FeedAnswers, FeedAnswer(answer)
      PROVE  ThreatRowsOK'
  <2>1. PICK answers, articles : answers = threat_run.answers /\ articles = threat_run.articles
    OBVIOUS
  <2>2. PICK more, collected : /\ more = Append(answers, answer)
                               /\ collected = FromFeed(articles, answer, Feeds[Len(answers) + 1])
    OBVIOUS
  <2>3. /\ threat_run.at = "feeds" /\ Len(answers) + 1 <= Len(Feeds) /\ threat_digests' = threat_digests
        /\ threat_run' = [threat_run EXCEPT !.answers = more, !.articles = collected]
    BY <1>6, <2>1, <2>2 DEF FeedAnswer
  <2>4. threat_run'.at = "feeds" /\ threat_run'.answers = more /\ threat_run'.articles = collected
    BY <1>1, <2>3
  <2>5. FromFeeds(articles, answers)
    BY <2>1, <2>3 DEF ThreatRowsOK
  <2>6. FeedAnswerOK(answer)
    BY FeedsAssumption DEF FeedAnswerOK, AreArticles, IsList
  <2>7. IsList(answers) /\ Len(answers) < Len(Feeds)
    BY <1>1, <1>2, <2>1, <2>3, ListFacts
  <2>8. FromFeeds(collected, more)
    BY <2>2, <2>5, <2>6, <2>7, FeedIsAdded
  <2>9. QED
    BY <2>3, <2>4, <2>8 DEF ThreatRowsOK
<1>7. ASSUME NEW keys \in AiKeys, NEW answer \in AiAnswers, NEW lists \in BOOLEAN,
             Narrate(keys, answer, lists)
      PROVE  ThreatRowsOK'
  <2>1. PICK answers, articles : answers = threat_run.answers /\ articles = threat_run.articles
    OBVIOUS
  <2>2. PICK ai : ai = [offline |-> FALSE, keys |-> keys, answer |-> answer, lists |-> lists]
    OBVIOUS
  <2>3. PICK row : row = ThreatRow(articles, answers, ai)
    OBVIOUS
  <2>4. /\ threat_run.at = "feeds" /\ Len(answers) = Len(Feeds)
        /\ \/ /\ row.model_source # "raises"
              /\ threat_run' = [threat_run EXCEPT !.at = "saved"]
              /\ threat_digests' = Append(threat_digests, row)
           \/ /\ row.model_source = "raises"
              /\ threat_run' = [threat_run EXCEPT !.at = "failed", !.ai = ai]
              /\ threat_digests' = threat_digests
    BY <1>7, <2>1, <2>2, <2>3 DEF Narrate
  <2>5. FromFeeds(articles, answers)
    BY <2>1, <2>4 DEF ThreatRowsOK
  <2>6. DOMAIN answers = DOMAIN Feeds
    BY <1>1, <1>2, <2>1, <2>4, ListFacts
  <2>7. IsOnline(ai, keys, answer)
    BY <2>2 DEF IsOnline
  <2>8. /\ row.model_source # "raises" => ThreatRowOK(row)
        /\ row.model_source = "raises" => \E p \in ai.keys : ai.answer[p] \in {"misshapen", "ill-typed"}
    BY <2>3, <2>5, <2>6, <2>7, OnlineRowIsTold
  <2>9. CASE row.model_source # "raises"
    <3>1. threat_run'.at = "saved" /\ threat_digests' = Append(threat_digests, row)
      BY <1>1, <2>4, <2>9
    <3>2. QED
      BY <1>3, <2>8, <2>9, <3>1
  <2>10. CASE row.model_source = "raises"
    <3>1. threat_run'.at = "failed" /\ threat_run'.ai = ai /\ threat_digests' = threat_digests
      BY <1>1, <2>4, <2>10
    <3>2. LostForAReason'
      BY <2>8, <2>10, <3>1 DEF LostForAReason
    <3>3. QED
      BY <3>1, <3>2 DEF ThreatRowsOK
  <2>11. QED
    BY <2>9, <2>10
<1>8. CASE threat_digests' = threat_digests /\ threat_run' = threat_run
  BY <1>8 DEF ThreatRowsOK, LostForAReason
<1>9. CASE CommitRaises
  <2>1. CASE threat_run' = [threat_run EXCEPT !.at = "locked"]
    <3>1. threat_run'.at = "locked" /\ threat_digests' = threat_digests
      BY <1>1, <1>9, <2>1 DEF CommitRaises
    <3>2. QED
      BY <3>1 DEF ThreatRowsOK
  <2>2. QED
    BY <1>8, <1>9, <2>1 DEF CommitRaises
<1>10. CASE CveNext
  BY <1>8, <1>10 DEF CveNext, CveOffline, AskNvd, NvdAnswer, KevAnswer
<1>11. CASE FeedNext
  BY <1>8, <1>11 DEF FeedNext, ReadMatches, ReadThreats, ReadCves, digestVars
<1>12. CASE \E m \in NewMatches : NewMatch(m)
  BY <1>8, <1>12 DEF NewMatch, digestVars
<1>13. CASE UNCHANGED fusionVars
  BY <1>8, <1>13 DEF fusionVars
<1>14. QED
  BY <1>4, <1>5, <1>6, <1>7, <1>9, <1>10, <1>11, <1>12, <1>13 DEF FusionNext, ThreatNext

\* "so a Gemini/OpenAI outage never blocks the digest from being produced", and
\* a feed that fails takes nothing of the others: whatever the feeds and the
\* models answer, an online digest has as many items as it may of every feed
\* that answered, tagged by what they mention, ranked by it unless a model sent a
\* breakdown, and a summary with grounds; only a reply of the wrong shape loses it
\* (fetch_all, tag_article, build_summary).
THEOREM ThreatDigestsAreTold == FusionSpec => []ThreatDigestsAreTruthful
<1>1. ThreatRowsOK => ThreatDigestsAreTruthful
  BY DEF ThreatRowsOK, ThreatRowOK, IsTold, LostForAReason, ThreatDigestsAreTruthful
<1>2. FusionSpec => []FusionInv
  BY FusionInitially, FusionStep, PTL DEF FusionSpec
<1>3. FusionInv /\ ThreatRowsOK /\ [FusionNext]_fusionVars => ThreatRowsOK'
  BY ThreatRowsStep
<1>4. QED
  BY <1>1, <1>2, <1>3, ThreatRowsInitially, PTL DEF FusionSpec

-----------------------------------------------------------------------------
(* The answers of the feed *)

\* What was read stays as it was, and the findings are of what was read.
FeedReadsOK ==
    /\ feed.at # "matches" => /\ feed.began[1] \in 0..Len(threat_digests)
                              /\ feed.began[2] \in 0..Len(cve_digests)
    /\ feed.at \in {"cves", "answered"} => feed.threats >= feed.began[1]
    /\ feed.at = "answered" =>
          /\ feed.cves >= feed.began[2]
          /\ feed.findings = FirstOf(correlate(feed.matches, ArticlesOf(feed.threats), CvesOf(feed.cves)), limit)

Grows(table, before) == table = before \/ \E row : table = Append(before, row)

\* A table that grows keeps its rows.
LEMMA TableGrows ==
    ASSUME NEW before, IsList(before), NEW table, Grows(table, before)
    PROVE  /\ Len(table) \in Nat /\ Len(before) \in Nat /\ Len(before) <= Len(table)
           /\ \A i \in 1..Len(before) : table[i] = before[i]
<1>1. Len(before) \in Nat
  BY ListFacts
<1>2. ASSUME NEW row, table = Append(before, row)
      PROVE  Len(table) = Len(before) + 1 /\ \A i \in 1..Len(before) : table[i] = before[i]
  BY <1>2, ListAppends
<1>3. QED
  BY <1>1, <1>2 DEF Grows

\* Commits after a read change nothing of what was read.
LEMMA ReadsStay ==
    ASSUME FusionInv, FeedReadsOK, feed' = feed,
           Grows(threat_digests', threat_digests), Grows(cve_digests', cve_digests)
    PROVE  FeedReadsOK'
<1>1. /\ Len(threat_digests') \in Nat /\ Len(threat_digests) \in Nat
      /\ Len(threat_digests) <= Len(threat_digests')
      /\ \A i \in 1..Len(threat_digests) : threat_digests'[i] = threat_digests[i]
  BY TableGrows DEF FusionInv, TablesOK
<1>2. /\ Len(cve_digests') \in Nat /\ Len(cve_digests) \in Nat
      /\ Len(cve_digests) <= Len(cve_digests')
      /\ \A i \in 1..Len(cve_digests) : cve_digests'[i] = cve_digests[i]
  BY TableGrows DEF FusionInv, TablesOK
<1>3. feed.threats \in 0..Len(threat_digests) /\ feed.cves \in 0..Len(cve_digests)
  BY DEF FusionInv, FeedOK
<1>4. PICK t, c : t = feed.threats /\ c = feed.cves
  OBVIOUS
<1>5. PICK articles, cves : articles = ArticlesOf(t) /\ cves = CvesOf(c)
  OBVIOUS
<1>6. (IF t = 0 THEN <<>> ELSE threat_digests'[t].articles) = articles
  <2>1. t # 0 => t \in 1..Len(threat_digests)
    BY <1>1, <1>3, <1>4
  <2>2. QED
    BY <1>1, <1>5, <2>1 DEF ArticlesOf
<1>7. (IF c = 0 THEN <<>> ELSE cve_digests'[c].digest.cves) = cves
  <2>1. c # 0 => c \in 1..Len(cve_digests)
    BY <1>2, <1>3, <1>4
  <2>2. QED
    BY <1>2, <1>5, <2>1 DEF CvesOf
<1>8. ArticlesOf(feed.threats)' = articles /\ CvesOf(feed.cves)' = cves
  BY <1>4, <1>6, <1>7 DEF ArticlesOf, CvesOf
<1>9. feed.at = "answered" =>
          feed.findings = FirstOf(correlate(feed.matches, ArticlesOf(feed.threats), CvesOf(feed.cves)), limit)'
  BY <1>4, <1>5, <1>8 DEF FeedReadsOK
<1>10. feed.at # "matches" => /\ feed.began[1] \in 0..Len(threat_digests')
                              /\ feed.began[2] \in 0..Len(cve_digests')
  <2>1. \A n : n \in 0..Len(threat_digests) => n \in 0..Len(threat_digests')
    BY <1>1
  <2>2. \A n : n \in 0..Len(cve_digests) => n \in 0..Len(cve_digests')
    BY <1>2
  <2>3. QED
    BY <2>1, <2>2 DEF FeedReadsOK
<1>11. QED
  BY <1>9, <1>10 DEF FeedReadsOK

\* The newest digest is the last of its table.
LEMMA NewestIsLast ==
    ASSUME NEW digests, IsList(digests)
    PROVE  Recent(digests) = Len(digests)
<1>1. digests = <<>> => Len(digests) = 0
  OBVIOUS
<1>2. QED
  BY <1>1 DEF Recent

\* Nothing has been read.
LEMMA FeedReadsInitially == FusionInit => FeedReadsOK
BY DEF FusionInit, FeedReadsOK

\* The feed reads what is newest, and computes its findings from what it read.
LEMMA FeedReadsStep ==
    ASSUME FusionInv, FeedReadsOK, [FusionNext]_fusionVars
    PROVE  FeedReadsOK'
<1>1. /\ IsList(threat_digests) /\ IsList(cve_digests)
      /\ Len(threat_digests) \in Nat /\ Len(cve_digests) \in Nat
      /\ DOMAIN feed = {"at", "matches", "threats", "cves", "findings", "began"}
      /\ feed.at \in {"matches", "threats", "cves", "answered"}
  BY ListFacts DEF FusionInv, TablesOK, FeedOK
<1>2. PICK t, c : t = Len(threat_digests) /\ c = Len(cve_digests)
  OBVIOUS
<1>3. Recent(threat_digests) = t /\ Recent(cve_digests) = c /\ t \in Nat /\ c \in Nat
  BY <1>1, <1>2, NewestIsLast
<1>4. CASE ReadMatches
  <2>1. PICK read, began : read = FirstOf(Reverse(matches), monitor_limit) /\ began = <<t, c>>
    OBVIOUS
  <2>2. feed' = [feed EXCEPT !.at = "threats", !.matches = read, !.began = began]
    BY <1>2, <1>4, <2>1 DEF ReadMatches
  <2>3. feed'.at = "threats" /\ feed'.began = began /\ began[1] = t /\ began[2] = c
    BY <1>1, <2>1, <2>2
  <2>4. threat_digests' = threat_digests /\ cve_digests' = cve_digests
    BY <1>4 DEF ReadMatches, digestVars
  <2>5. QED
    BY <1>2, <1>3, <2>3, <2>4 DEF FeedReadsOK
<1>5. CASE ReadThreats
  <2>1. /\ feed.at = "threats" /\ feed' = [feed EXCEPT !.at = "cves", !.threats = t]
        /\ threat_digests' = threat_digests /\ cve_digests' = cve_digests
    BY <1>3, <1>5 DEF ReadThreats, digestVars
  <2>2. feed'.at = "cves" /\ feed'.began = feed.began /\ feed'.threats = t
    BY <1>1, <2>1
  <2>3. feed.began[1] \in 0..t /\ feed.began[2] \in 0..c
    BY <1>2, <2>1 DEF FeedReadsOK
  <2>4. t >= feed.began[1]
    BY <1>3, <2>3
  <2>5. QED
    BY <1>2, <2>1, <2>2, <2>3, <2>4 DEF FeedReadsOK
<1>6. CASE ReadCves
  <2>1. PICK findings :
            findings = FirstOf(correlate(feed.matches, ArticlesOf(feed.threats), CvesOf(c)), limit)
    OBVIOUS
  <2>2. /\ feed.at = "cves" /\ feed' = [feed EXCEPT !.at = "answered", !.cves = c, !.findings = findings]
        /\ threat_digests' = threat_digests /\ cve_digests' = cve_digests
    BY <1>3, <1>6, <2>1 DEF ReadCves, digestVars
  <2>3. /\ feed'.at = "answered" /\ feed'.began = feed.began /\ feed'.threats = feed.threats
        /\ feed'.cves = c /\ feed'.findings = findings /\ feed'.matches = feed.matches
    BY <1>1, <2>2
  <2>4. feed.began[1] \in 0..t /\ feed.began[2] \in 0..c /\ feed.threats >= feed.began[1]
    BY <1>2, <2>2 DEF FeedReadsOK
  <2>5. c >= feed.began[2]
    BY <1>3, <2>4
  <2>6. ArticlesOf(feed.threats)' = ArticlesOf(feed.threats) /\ CvesOf(feed.cves)' = CvesOf(c)
    BY <2>2, <2>3 DEF ArticlesOf, CvesOf
  <2>7. feed'.findings = FirstOf(correlate(feed.matches, ArticlesOf(feed.threats), CvesOf(feed.cves)), limit)'
    BY <2>1, <2>3, <2>6
  <2>8. QED
    BY <1>2, <2>2, <2>3, <2>4, <2>5, <2>7 DEF FeedReadsOK
<1>7. CASE feed' = feed
  <2>1. Grows(threat_digests', threat_digests)
    BY <1>7 DEF Grows, FusionNext, fusionVars, CveNext, CveOffline, AskNvd, NvdAnswer, KevAnswer,
                ThreatNext, ThreatOffline, AskFeeds, FeedAnswer, Narrate,
                FeedNext, ReadMatches, ReadThreats, ReadCves, digestVars, CommitRaises, NewMatch
  <2>2. Grows(cve_digests', cve_digests)
    BY <1>7 DEF Grows, FusionNext, fusionVars, CveNext, CveOffline, AskNvd, NvdAnswer, KevAnswer,
                ThreatNext, ThreatOffline, AskFeeds, FeedAnswer, Narrate,
                FeedNext, ReadMatches, ReadThreats, ReadCves, digestVars, CommitRaises, NewMatch
  <2>3. QED
    BY <1>7, <2>1, <2>2, ReadsStay
<1>8. CveNext \/ ThreatNext \/ CommitRaises \/ (\E m \in NewMatches : NewMatch(m)) \/ UNCHANGED fusionVars
        => feed' = feed
  BY DEF CveNext, CveOffline, AskNvd, NvdAnswer, KevAnswer, ThreatNext, ThreatOffline, AskFeeds,
         FeedAnswer, Narrate, CommitRaises, NewMatch, fusionVars
<1>9. QED
  BY <1>4, <1>5, <1>6, <1>7, <1>8 DEF FusionNext, FeedNext

\* What the digests that were read hold is a list.
LEMMA ReadRowsAreLists ==
    ASSUME FusionInv, CveRowsOK, ThreatRowsOK
    PROVE  IsList(ArticlesOf(feed.threats)) /\ AreCves(CvesOf(feed.cves))
<1>1. PICK t, c : t = feed.threats /\ c = feed.cves
  OBVIOUS
<1>2. /\ t \in 0..Len(threat_digests) /\ c \in 0..Len(cve_digests)
      /\ DOMAIN threat_digests = 1..Len(threat_digests) /\ Len(threat_digests) \in Nat
      /\ DOMAIN cve_digests = 1..Len(cve_digests) /\ Len(cve_digests) \in Nat
  BY <1>1, ListFacts DEF FusionInv, TablesOK, FeedOK
<1>3. IsList(<<>>) /\ AreCves(<<>>)
  BY DEF IsList, AreCves
<1>4. IsList(ArticlesOf(t))
  <2>1. CASE t = 0
    BY <1>3, <2>1 DEF ArticlesOf
  <2>2. CASE t # 0
    <3>1. t \in DOMAIN threat_digests
      BY <1>2, <2>2
    <3>2. IsList(threat_digests[t].articles)
      BY <3>1 DEF ThreatRowsOK, ThreatRowOK, ToSet
    <3>3. QED
      BY <2>2, <3>2 DEF ArticlesOf
  <2>3. QED
    BY <2>1, <2>2
<1>5. AreCves(CvesOf(c))
  <2>1. CASE c = 0
    BY <1>3, <2>1 DEF CvesOf
  <2>2. CASE c # 0
    <3>1. c \in DOMAIN cve_digests
      BY <1>2, <2>2
    <3>2. AreCves(cve_digests[c].digest.cves)
      BY <3>1 DEF CveRowsOK, RowOK, ToSet
    <3>3. QED
      BY <2>2, <3>2 DEF CvesOf
  <2>3. QED
    BY <2>1, <2>2
<1>6. QED
  BY <1>1, <1>4, <1>5

\* A finding is of a match, and scores what the match and its evidence weigh.
Explains(f, mm, articles, cves) ==
    /\ f.of \in ToSet(mm) /\ Evidence(f.of, articles, cves) > 0
    /\ 10 * (f.score - Evidence(f.of, articles, cves)) - f.of.score \in -5..5

\* A match that speaks and is not found is outweighed by as many as there may be.
IsOutweighed(m, findings, articles, cves) ==
    /\ Len(findings) = limit
    /\ \A f \in ToSet(findings) : f.score >= base_score(m.score) + Evidence(m, articles, cves)

\* The findings that are kept explain themselves, and outweigh those left out.
LEMMA FirstFindingsExplain ==
    ASSUME NEW mm \in Seq(Match), NEW articles, NEW cves, IsList(articles), AreCves(cves),
           NEW findings, findings = FirstOf(correlate(mm, articles, cves), limit)
    PROVE  /\ \A i, j \in DOMAIN findings : i < j => findings[i].score >= findings[j].score
           /\ \A f \in ToSet(findings) : Explains(f, mm, articles, cves)
           /\ \A m \in ToSet(mm) : Evidence(m, articles, cves) > 0 =>
                 \/ \E f \in ToSet(findings) : f.of = m
                 \/ IsOutweighed(m, findings, articles, cves)
<1>1. PICK all : all = correlate(mm, articles, cves)
  OBVIOUS
<1>2. /\ IsList(all)
      /\ \A i, j \in DOMAIN all : i < j => all[i].score >= all[j].score
      /\ \A f \in ToSet(all) :
            /\ f.of \in ToSet(mm) /\ Evidence(f.of, articles, cves) \in Nat
            /\ Evidence(f.of, articles, cves) > 0
            /\ f.score = base_score(f.of.score) + Evidence(f.of, articles, cves)
      /\ \A m \in ToSet(mm) : Evidence(m, articles, cves) > 0 => \E f \in ToSet(all) : f.of = m
  BY <1>1, CorrelateExplains
<1>3. Len(all) \in Nat /\ DOMAIN all = 1..Len(all) /\ limit \in Nat
  BY <1>2, ListFacts, LimitAssumption
<1>4. all \in Seq(ToSet(all)) /\ findings = FirstOf(all, limit)
  BY <1>1, <1>2 DEF IsList
<1>5. /\ findings \in Seq(ToSet(all)) /\ Len(findings) = IF limit < Len(all) THEN limit ELSE Len(all)
      /\ DOMAIN findings \subseteq DOMAIN all /\ \A i \in DOMAIN findings : findings[i] = all[i]
  BY <1>3, <1>4, FirstOfProperties
<1>6. DOMAIN findings = 1..Len(findings) /\ Len(findings) \in Nat
  BY <1>5, LenProperties
<1>7. \A i, j \in DOMAIN findings : i < j => findings[i].score >= findings[j].score
  BY <1>2, <1>5
<1>8. ASSUME NEW f \in ToSet(findings)
      PROVE  Explains(f, mm, articles, cves)
  <2>1. PICK w : w = Evidence(f.of, articles, cves)
    OBVIOUS
  <2>2. f \in ToSet(all)
    BY <1>5 DEF ToSet
  <2>3. f.of \in ToSet(mm) /\ w \in Nat /\ w > 0 /\ f.score = base_score(f.of.score) + w
    BY <1>2, <2>1, <2>2
  <2>4. f.of \in Match
    BY <2>3, ElementOfSeq, LenProperties DEF ToSet
  <2>5. PICK s, b : s = f.of.score /\ b = base_score(s)
    OBVIOUS
  <2>6. s \in 0..100
    BY <2>4, <2>5 DEF Match
  <2>7. b \in Nat /\ 10 * b - s \in -5..5
    BY <2>5, <2>6, BaseIsATenth
  <2>8. f.score - w = b
    BY <2>3, <2>5, <2>7
  <2>9. 10 * (f.score - w) - s \in -5..5
    BY <2>7, <2>8
  <2>10. QED
    BY <2>1, <2>3, <2>5, <2>9 DEF Explains
<1>9. ASSUME NEW m \in ToSet(mm), Evidence(m, articles, cves) > 0, \A f \in ToSet(findings) : f.of # m
      PROVE  IsOutweighed(m, findings, articles, cves)
  <2>1. PICK g \in ToSet(all) : g.of = m
    BY <1>2, <1>9
  <2>2. PICK i \in DOMAIN all : g = all[i]
    BY DEF ToSet
  <2>3. i \notin DOMAIN findings
    BY <1>5, <1>9, <2>1, <2>2 DEF ToSet
  <2>4. PICK n, k : n = Len(findings) /\ k = Len(all)
    OBVIOUS
  <2>5. i \in 1..k /\ i \notin 1..n /\ n \in Nat /\ k \in Nat /\ n = IF limit < k THEN limit ELSE k
    BY <1>3, <1>5, <1>6, <2>3, <2>4
  <2>6. n = limit /\ i > n
    BY <1>3, <2>5
  <2>7. g.score = base_score(m.score) + Evidence(m, articles, cves)
    BY <1>2, <2>1
  <2>8. ASSUME NEW f \in ToSet(findings)
        PROVE  f.score >= g.score
    <3>1. PICK j \in DOMAIN findings : f = findings[j]
      BY DEF ToSet
    <3>2. j \in 1..n /\ j \in DOMAIN all /\ f = all[j]
      BY <1>5, <1>6, <2>4, <3>1
    <3>3. j < i
      BY <2>5, <2>6, <3>2
    <3>4. QED
      BY <1>2, <2>2, <3>2, <3>3
  <2>9. QED
    BY <2>4, <2>6, <2>7, <2>8 DEF IsOutweighed
<1>10. QED
  BY <1>7, <1>8, <1>9

\* What was read holds digests that are right, so the answer explains itself.
LEMMA ReadsExplain ==
    ASSUME FusionInv, CveRowsOK, ThreatRowsOK, FeedReadsOK
    PROVE  FeedIsExplained
<1> SUFFICES ASSUME feed.at = "answered" PROVE FeedIsExplained
  BY DEF FeedIsExplained
<1>1. PICK mm, articles, cves : /\ mm = feed.matches /\ articles = ArticlesOf(feed.threats)
                                /\ cves = CvesOf(feed.cves)
  OBVIOUS
<1>2. PICK findings : findings = feed.findings
  OBVIOUS
<1>3. IsList(articles) /\ AreCves(cves)
  BY <1>1, ReadRowsAreLists
<1>4. mm \in Seq(Match)
  BY <1>1 DEF FusionInv, FeedOK
<1>5. /\ feed.threats >= feed.began[1] /\ feed.cves >= feed.began[2]
      /\ findings = FirstOf(correlate(mm, articles, cves), limit)
  BY <1>1, <1>2 DEF FeedReadsOK
<1>6. /\ \A i, j \in DOMAIN findings : i < j => findings[i].score >= findings[j].score
      /\ \A f \in ToSet(findings) : Explains(f, mm, articles, cves)
      /\ \A m \in ToSet(mm) : Evidence(m, articles, cves) > 0 =>
            \/ \E f \in ToSet(findings) : f.of = m
            \/ IsOutweighed(m, findings, articles, cves)
  BY <1>3, <1>4, <1>5, FirstFindingsExplain
<1>7. IsSortedDown(feed.findings, LAMBDA f : f.score)
  BY <1>2, <1>6 DEF IsSortedDown
<1>8. \A f \in ToSet(feed.findings) :
          /\ f.of \in ToSet(feed.matches)
          /\ Evidence(f.of, ArticlesOf(feed.threats), CvesOf(feed.cves)) > 0
          /\ 10 * (f.score - Evidence(f.of, ArticlesOf(feed.threats), CvesOf(feed.cves))) - f.of.score \in -5..5
  BY <1>1, <1>2, <1>6 DEF Explains
<1>9. \A m \in ToSet(feed.matches) \ {f.of : f \in ToSet(feed.findings)} :
          Evidence(m, ArticlesOf(feed.threats), CvesOf(feed.cves)) > 0 =>
              /\ Len(feed.findings) = limit
              /\ \A f \in ToSet(feed.findings) :
                    f.score >= base_score(m.score) + Evidence(m, ArticlesOf(feed.threats), CvesOf(feed.cves))
  BY <1>1, <1>2, <1>6 DEF IsOutweighed
<1>10. QED
  BY <1>5, <1>7, <1>8, <1>9 DEF FeedIsExplained

\* "joins already-fetched data into a prioritized, explainable list": whatever
\* the tables hold and is committed between the reads, a feed is of digests at
\* least as new as those saved when it was asked for, its findings are of the
\* matches that a CVE or an article speaks of, and weigh what these weigh; only
\* a match that as many others outweigh is left out (get_feed, correlate).
THEOREM FeedsAreExplained == FusionSpec => []FeedIsExplained
<1>1. FusionSpec => []FusionInv
  BY FusionInitially, FusionStep, PTL DEF FusionSpec
<1>2. FusionInv /\ CveRowsOK /\ [FusionNext]_fusionVars => CveRowsOK'
  BY CveRowsStep
<1>3. FusionInv /\ ThreatRowsOK /\ [FusionNext]_fusionVars => ThreatRowsOK'
  BY ThreatRowsStep
<1>4. FusionInv /\ FeedReadsOK /\ [FusionNext]_fusionVars => FeedReadsOK'
  BY FeedReadsStep
<1>5. FusionInv /\ CveRowsOK /\ ThreatRowsOK /\ FeedReadsOK => FeedIsExplained
  BY ReadsExplain
<1>6. QED
  BY <1>1, <1>2, <1>3, <1>4, <1>5, CveRowsInitially, ThreatRowsInitially, FeedReadsInitially, PTL
     DEF FusionSpec
=============================================================================

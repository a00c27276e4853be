------------------------------- MODULE Fusion -------------------------------
(***************************************************************************)
(* A CVE digest, a threat digest and a request for the fusion feed at      *)
(* once, over the tables they share with the monitor.  The digests are     *)
(* coroutines that await their feeds and models; the feed (a thread of     *)
(* its own) reads one table after another, each read seeing the latest     *)
(* commit.  What a digest was made of is kept with its row, as history.    *)
(***************************************************************************)
EXTENDS AiProvider, CveWatch, ThreatLens

CONSTANTS
    MatchTables,      \* the rows of monitor_matches there may be to begin with
    NewMatches,       \* the row the monitor may commit meanwhile
    Watchlists, AiKeys, AiAnswers,
    OldCves, OldThreats,   \* the inputs of the digests there may be to begin with
    MAX_THREAT_VECTOR_SIGNALS, monitor_limit, limit,
    Now               \* the time of the digests, later than every date in a feed

\* A row of monitor_matches, whose score is score_asset's.
Match == [domain : Terms, keyword : Terms, score : 0..100]

ASSUME LimitAssumption ==
    {MAX_THREAT_VECTOR_SIGNALS, monitor_limit, limit} \subseteq Nat \ {0} /\ Now \in Nat

ASSUME TableAssumption ==
    /\ MatchTables \subseteq Seq(Match) /\ NewMatches \subseteq Match
    /\ \A old \in OldCves : /\ old \in Seq(ToSet(old))
                            /\ \A o \in ToSet(old) : IsNvd(o.nvd) /\ IsKev(o.kev)
    /\ \A old \in OldThreats : old \in Seq(ToSet(old)) /\ \A o \in ToSet(old) : AreArticles(o)
    /\ Watchlists \subseteq Seq([vendor : Terms \cup {NoText}, product : Terms \cup {NoText}])

\* A key is configured for a provider or it is not; a provider answers somehow.
ASSUME AiAssumption ==
    AiKeys \subseteq SUBSET AIProviderName /\ AiAnswers \subseteq [AIProviderName -> Answer]

VARIABLES
    matches,          \* monitor_matches, oldest first
    cve_digests,      \* cve_watch_digest_runs, oldest first
    threat_digests,   \* threatlens_digest_runs, oldest first
    cve_run,          \* the CVE digest under way: where it is, and NVD's answer
    threat_run,       \* the threat digest under way: the answers and articles so far
    feed              \* the request for the feed: where it is and what it has read

fusionVars == <<matches, cve_digests, threat_digests, cve_run, threat_run, feed>>
digestVars == <<cve_digests, threat_digests, cve_run, threat_run>>

Ends == {"saved", "failed", "locked"}   \* locked: the commit raised

FusionTypeOK ==
    /\ matches \in Seq(Match)
    /\ cve_run.at \in {"start", "nvd", "kev"} \cup Ends
    /\ threat_run.at \in {"start", "feeds"} \cup Ends
    /\ Len(threat_run.answers) <= Len(Feeds)
    /\ feed.at \in {"matches", "threats", "cves", "answered"}
    /\ Len(feed.matches) <= monitor_limit /\ Len(feed.findings) <= limit
    /\ feed.threats \in 0..Len(threat_digests) /\ feed.cves \in 0..Len(cve_digests)

-----------------------------------------------------------------------------
(* Digests *)

CveRow(nvd, kev, watchlist) ==
    [digest |-> run_digest(nvd, kev, watchlist, Now), nvd |-> nvd, kev |-> kev, watchlist |-> watchlist]

\* Without articles no model is asked.
SourceOf(articles, ai) ==
    IF articles = <<>> THEN "deterministic-fallback"
    ELSE build_summary(ai.offline, ai.keys, ai.answer)

\* A model wrote the summary, and its breakdown was a list of strings.
ToldBy(model_source, ai) == model_source \in AIProviderName /\ ai.lists

ThreatRow(articles, answers, ai) ==
    LET source == SourceOf(articles, ai)
    IN  [articles |-> Tagged(articles),
         breakdown |-> Breakdown(Tagged(articles), ToldBy(source, ai)),
         model_source |-> source, answers |-> answers, ai |-> ai]

OfflineAi == [offline |-> TRUE, keys |-> {}, answer |-> [p \in AIProviderName |-> "raises"],
              lists |-> FALSE]

\* Offline, nothing is awaited: the fixtures become a digest at once.
CveOffline(watchlist) ==
    /\ cve_run.at = "start"
    /\ cve_run' = [cve_run EXCEPT !.at = "saved"]
    /\ cve_digests' = Append(cve_digests, CveRow(MockNvd, MockKev, watchlist))
    /\ UNCHANGED <<matches, threat_digests, threat_run, feed>>

AskNvd ==
    /\ cve_run.at = "start"
    /\ cve_run' = [cve_run EXCEPT !.at = "nvd"]
    /\ UNCHANGED <<matches, cve_digests, threat_digests, threat_run, feed>>

NvdAnswer(answer) ==
    /\ cve_run.at = "nvd"
    /\ cve_run' = [at |-> "kev", nvd |-> answer]
    /\ UNCHANGED <<matches, cve_digests, threat_digests, threat_run, feed>>

\* The rest of the digest awaits nothing: it is merged, tagged and saved.
KevAnswer(answer, watchlist) ==
    /\ cve_run.at = "kev"
    /\ cve_run' = [cve_run EXCEPT !.at = "saved"]
    /\ cve_digests' = Append(cve_digests, CveRow(cve_run.nvd, answer, watchlist))
    /\ UNCHANGED <<matches, threat_digests, threat_run, feed>>

ThreatOffline ==
    /\ threat_run.at = "start"
    /\ threat_run' = [threat_run EXCEPT !.at = "saved"]
    /\ threat_digests' = Append(threat_digests, ThreatRow(MockArticles, <<>>, OfflineAi))
    /\ UNCHANGED <<matches, cve_digests, cve_run, feed>>

AskFeeds ==
    /\ threat_run.at = "start"
    /\ threat_run' = [threat_run EXCEPT !.at = "feeds"]
    /\ UNCHANGED <<matches, cve_digests, threat_digests, cve_run, feed>>

FeedAnswer(answer) ==
    LET f == Len(threat_run.answers) + 1
    IN  /\ threat_run.at = "feeds" /\ f <= Len(Feeds)
        /\ threat_run' = [threat_run EXCEPT
                !.answers = Append(@, answer), !.articles = FromFeed(@, answer, Feeds[f])]
        /\ UNCHANGED <<matches, cve_digests, threat_digests, cve_run, feed>>

\* The articles are tagged and summarised; without a summary nothing is saved.
Narrate(keys, answer, lists) ==
    LET ai  == [offline |-> FALSE, keys |-> keys, answer |-> answer, lists |-> lists]
        row == ThreatRow(threat_run.articles, threat_run.answers, ai)
    IN  /\ threat_run.at = "feeds" /\ Len(threat_run.answers) = Len(Feeds)
        /\ \/ /\ row.model_source # "raises"
              /\ threat_run' = [threat_run EXCEPT !.at = "saved"]
              /\ threat_digests' = Append(threat_digests, row)
           \/ /\ row.model_source = "raises"
              /\ threat_run' = [threat_run EXCEPT !.at = "failed", !.ai = ai]
              /\ UNCHANGED threat_digests
        /\ UNCHANGED <<matches, cve_digests, cve_run, feed>>

\* A writer of another process holds the database for too long.
CommitRaises ==
    /\ \/ /\ cve_run.at \in {"start", "kev"}
          /\ cve_run' = [cve_run EXCEPT !.at = "locked"]
          /\ UNCHANGED threat_run
       \/ /\ threat_run.at = "start" \/ Len(threat_run.answers) = Len(Feeds)
          /\ threat_run.at \in {"start", "feeds"}
          /\ threat_run' = [threat_run EXCEPT !.at = "locked"]
          /\ UNCHANGED cve_run
    /\ UNCHANGED <<matches, cve_digests, threat_digests, feed>>

\* MonitorPipeline!Commit, seen from here.
NewMatch(m) ==
    /\ m \notin ToSet(matches)
    /\ matches' = Append(matches, m)
    /\ UNCHANGED <<digestVars, feed>>

-----------------------------------------------------------------------------
(* correlate *)

_cve_signals(match, tracked_cves) ==
    LET needles == {match.keyword, match.domain}
        Of(cve) == Kept(cve.matched_products,
                        LAMBDA product : \E n \in needles : _keyword_in_text(n, product))
        hits == Kept(tracked_cves, LAMBDA cve : Of(cve) # <<>>)
    IN  [i \in DOMAIN hits |->
            [kind |-> IF hits[i].is_actively_exploited THEN "exploited_cve" ELSE "cve_match",
             of |-> hits[i].cve_id, by |-> Of(hits[i])[1]]]

\* Articles with a vector that mention the keyword, only so many of them.
_threat_vector_signals(match, articles) ==
    LET hits == Kept(articles, LAMBDA a :
                    a.vectors # <<>> /\ match.keyword \in MentionedIn(<<a.title, a.summary>>))
        capped == FirstOf(hits, MAX_THREAT_VECTOR_SIGNALS)
    IN  [i \in DOMAIN capped |-> [kind |-> "threat_vector", of |-> capped[i].title,
                                  by |-> capped[i].source]]

WEIGHT == [exploited_cve |-> 3, cve_match |-> 1, threat_vector |-> 1]

\* round(score / 10), halves to the even neighbour.
base_score(score) ==
    LET tens == score \div 10  over == score % 10
    IN  IF over < 5 \/ (over = 5 /\ tens % 2 = 0) THEN tens ELSE tens + 1

\* Mutant of Finding: an exploited CVE weighs what another does.
Finding_Flat(match, signals) ==
    [of |-> match, signals |-> signals, score |-> base_score(match.score) + Len(signals)]

Finding(match, signals) ==
    [of |-> match, signals |-> signals,
     score |-> base_score(match.score) + Total([i \in DOMAIN signals |-> WEIGHT[signals[i].kind]])]

\* A match without a signal is no finding; the highest scores first.
correlate(monitor_matches, articles, tracked_cves) ==
    LET Signals(m) == _cve_signals(m, tracked_cves) \o _threat_vector_signals(m, articles)
        correlated == Kept(monitor_matches, LAMBDA m : Signals(m) # <<>>)
    IN  SortedDown([i \in DOMAIN correlated |-> Finding(correlated[i], Signals(correlated[i]))],
                   LAMBDA f : f.score)

-----------------------------------------------------------------------------
(* get_feed *)

\* list_recent(limit=1) and get: the newest digest, whose rows never change.
Recent(digests) == IF digests = <<>> THEN 0 ELSE Len(digests)

\* Mutant of ReadMatches: every match is read.
ReadMatches_All ==
    /\ feed.at = "matches"
    /\ feed' = [feed EXCEPT !.at = "threats", !.matches = Reverse(matches),
                            !.began = <<Len(threat_digests), Len(cve_digests)>>]
    /\ UNCHANGED <<matches, digestVars>>

ReadMatches ==
    /\ feed.at = "matches"
    /\ feed' = [feed EXCEPT !.at = "threats", !.matches = FirstOf(Reverse(matches), monitor_limit),
                            !.began = <<Len(threat_digests), Len(cve_digests)>>]
    /\ UNCHANGED <<matches, digestVars>>

ReadThreats ==
    /\ feed.at = "threats"
    /\ feed' = [feed EXCEPT !.at = "cves", !.threats = Recent(threat_digests)]
    /\ UNCHANGED <<matches, digestVars>>

ArticlesOf(t) == IF t = 0 THEN <<>> ELSE threat_digests[t].articles
CvesOf(c) == IF c = 0 THEN <<>> ELSE cve_digests[c].digest.cves

\* The last read; the rest of the request is computed from what was read.
ReadCves ==
    /\ feed.at = "cves"
    /\ LET newest == Recent(cve_digests)
       IN  feed' = [feed EXCEPT !.at = "answered", !.cves = newest,
                       !.findings = FirstOf(correlate(feed.matches, ArticlesOf(feed.threats),
                                                      CvesOf(newest)), limit)]
    /\ UNCHANGED <<matches, digestVars>>

-----------------------------------------------------------------------------

FusionInit ==
    /\ matches \in MatchTables
    /\ \E old \in OldCves : cve_digests = [i \in DOMAIN old |-> CveRow(old[i].nvd, old[i].kev, <<>>)]
    /\ \E old \in OldThreats :
          threat_digests = [i \in DOMAIN old |-> ThreatRow(old[i], <<>>, OfflineAi)]
    /\ cve_run = [at |-> "start", nvd |-> Failed]
    /\ threat_run = [at |-> "start", answers |-> <<>>, articles |-> <<>>, ai |-> OfflineAi]
    /\ feed = [at |-> "matches", matches |-> <<>>, threats |-> 0, cves |-> 0,
               findings |-> <<>>, began |-> <<0, 0>>]

CveNext ==
    \/ \E w \in Watchlists : CveOffline(w) \/ \E answer \in KevAnswers : KevAnswer(answer, w)
    \/ AskNvd \/ \E answer \in NvdAnswers : NvdAnswer(answer)

ThreatNext ==
    \/ ThreatOffline \/ AskFeeds
    \/ \E answer \in FeedAnswers : FeedAnswer(answer)
    \/ \E keys \in AiKeys, answer \in AiAnswers, lists \in BOOLEAN : Narrate(keys, answer, lists)

FeedNext == ReadMatches \/ ReadThreats \/ ReadCves

FusionNext ==
    \/ CveNext \/ ThreatNext \/ FeedNext \/ CommitRaises
    \/ \E m \in NewMatches : NewMatch(m)

FusionSpec == FusionInit /\ [][FusionNext]_fusionVars

-----------------------------------------------------------------------------
(* Properties *)

\* "When a CVE appears in both feeds, the KEV record's exploited/product data
\* wins but the NVD record's CVSS score and description are kept": every saved
\* CVE digest agrees with the feeds that answered, each CVE once, newest first,
\* its products those of KEV and then the watched ones that occur in its text
\* and those products joined (merge_cves, tag_cve).  An entry that does not
\* parse counts as no answer: see OddEntriesAreSkipped.
CveDigestsAreFaithful ==
    \A d \in ToSet(cve_digests) : IsFaithful(d.digest, d.nvd, d.kev, d.watchlist)

\* "Tolerant of a malformed/partial entry: skipped rather than raising"
\* (parse_nvd_response): what NVD says in its other entries is in the digest.
OddEntriesAreSkipped ==
    \A d \in ToSet(cve_digests) : d.nvd # Failed =>
        \A entry \in ToSet(d.nvd) \ {Odd} :
            entry.id # Blank => \E c \in ToSet(d.digest.cves) : c.cve_id = entry.id

\* "so a Gemini/OpenAI outage never blocks the digest from being produced", and
\* a feed that fails takes nothing of the others: an online digest has the items
\* of every feed that answered, rightly tagged, counted unless a model sent a
\* breakdown of its own, and a summary by someone who was asked and answered;
\* only a reply of the wrong shape loses it.
ThreatDigestsAreTruthful ==
    /\ \A d \in ToSet(threat_digests) : ~d.ai.offline =>
          /\ IsTruthful(d, d.answers, ToldBy(d.model_source, d.ai))
          /\ d.articles # <<>> => d.model_source \in Grounds(FALSE, d.ai.keys, d.ai.answer)
    /\ threat_run.at = "failed" =>
          \E p \in threat_run.ai.keys : threat_run.ai.answer[p] \in {"misshapen", "ill-typed"}

\* The CVEs and the articles that speak of a match, and what they weigh.
About(m, cves) ==
    {c \in ToSet(cves) : \E p \in ToSet(c.matched_products) :
        {m.keyword, m.domain} \cap Mentions[p] # {}}

Spoken(m, articles) ==
    {i \in DOMAIN articles :
        /\ articles[i].vectors # <<>>
        /\ m.keyword \in MentionedIn(<<articles[i].title, articles[i].summary>>)}

Evidence(m, articles, cves) ==
    2 * Cardinality({c \in About(m, cves) : c.is_actively_exploited})
        + Cardinality(About(m, cves))
        + (IF Cardinality(Spoken(m, articles)) > MAX_THREAT_VECTOR_SIGNALS
           THEN MAX_THREAT_VECTOR_SIGNALS ELSE Cardinality(Spoken(m, articles)))

\* "joins already-fetched data into a prioritized, explainable list": the feed
\* is of digests at least as new as those saved when it was asked for, the
\* findings are the matches that someone else also speaks of, the most urgent
\* ones, in order, and each score is what its evidence weighs (correlate).
FeedIsExplained ==
    feed.at = "answered" =>
        LET Weight(m) == Evidence(m, ArticlesOf(feed.threats), CvesOf(feed.cves))
            found == {f.of : f \in ToSet(feed.findings)}
        IN  /\ feed.threats >= feed.began[1] /\ feed.cves >= feed.began[2]
            /\ IsSortedDown(feed.findings, LAMBDA f : f.score)
            /\ \A f \in ToSet(feed.findings) :
                  /\ f.of \in ToSet(feed.matches) /\ Weight(f.of) > 0
                  /\ 10 * (f.score - Weight(f.of)) - f.of.score \in -5..5
            /\ \A m \in ToSet(feed.matches) \ found : Weight(m) > 0 =>
                  /\ Len(feed.findings) = limit
                  /\ \A f \in ToSet(feed.findings) :
                        f.score >= base_score(m.score) + Weight(m)
=============================================================================

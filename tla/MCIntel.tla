------------------------------- MODULE MCIntel ------------------------------
(***************************************************************************)
(* The fusion feed with its digests, the lookalike analyses, and the       *)
(* sensor.  They share no state: a behaviour runs one of them.             *)
(***************************************************************************)
EXTENDS Fusion, Phantom, Sensor

CONSTANTS noText, acme, router, breach, plain, gateway, phish, acmeCom, acmeRouter, c1, c2, brand, bravo, zero,
          log, ipA, ipB, ipC

\* A watched product is named by a vendor and a product in a row, and a phrase
\* begins in one text and ends in the next.
MCTexts == {noText, acme, router, breach, plain, phish, acmeRouter}
MCTerms == {acme, router, phish, gateway, acmeCom, acmeRouter}
MCSpans == <<acme, router>> :> {acmeRouter} @@ <<plain, acme>> :> {phish}
MCMentions == noText :> {} @@ acme :> {acme, acmeCom} @@ router :> {router, gateway}
                @@ breach :> {phish, acme} @@ plain :> {router}
                @@ phish :> {phish} @@ acmeRouter :> {acme, acmeCom, router, gateway, acmeRouter}

en(text) == <<[lang |-> "es", value |-> plain], [lang |-> "en", value |-> text]>>
Nvd(id, text, metrics, published) ==
    [id |-> id, descriptions |-> IF text = Blank THEN <<>> ELSE en(text),
     metrics |-> metrics, published |-> published]
Kev(id, vendor, text, added) ==
    [cveID |-> id, vendorProject |-> vendor, product |-> router, shortDescription |-> text,
     dateAdded |-> added]

MCMockNvd == <<Nvd(c1, breach, <<9, Blank, 4>>, 1)>>
MCMockKev == <<Kev(c2, acme, plain, 2)>>
MCNvd == {Failed, <<Nvd(c1, Blank, <<Blank, 7, 5>>, 2), Nvd(Blank, breach, <<1, 1, 1>>, 9)>>,
          <<Nvd(c1, breach, <<9, Blank, 4>>, 1), Odd>>,
          <<Nvd(c1, breach, <<9, Blank, 4>>, 1), Nvd(c2, plain, <<Blank, Blank, Blank>>, Blank),
            Nvd(c1, plain, <<2, Blank, Blank>>, 4)>>}
MCKev == {Failed, <<Kev(c1, Blank, breach, 3), Kev(c2, acme, plain, 4)>>,
          <<Kev(c1, acme, plain, 3), Kev(c1, router, plain, Blank), Kev(Blank, acme, plain, 1)>>}
MCWatchlists == {<<>>, <<[vendor |-> phish, product |-> acmeRouter],
                         [vendor |-> router, product |-> acme]>>}

Item(title, summary) == [title |-> title, link |-> TRUE, summary |-> summary]
MCFeedAnswers == {Down, Malformed, <<Item(breach, noText), Item(noText, breach), Item(acme, plain),
                                     [title |-> breach, link |-> FALSE, summary |-> breach],
                                     Item(plain, acme)>>}
MCMockArticles == <<[title |-> breach, summary |-> noText, source |-> "mock"]>>
MCVectors == <<[vector |-> "rce", keywords |-> {router, gateway}],
               [vector |-> "phishing", keywords |-> {phish}]>>
MCOldCves == {<<[nvd |-> <<>>, kev |-> MCMockKev]>>}
MCOldThreats == {<<>>}

AiReply(gemini, openai) == [p \in AIProviderName |-> IF p = "gemini" THEN gemini ELSE openai]
MCAiAnswers == {AiReply("raises", "summary"), AiReply("prose", "raises"), AiReply("misshapen", "summary")}
MCAiKeys == {{"gemini", "openai"}}

Row(domain, keyword, score) == [domain |-> domain, keyword |-> keyword, score |-> score]
MCMatchTables == {<<Row(gateway, acme, 25), Row(gateway, router, 35), Row(gateway, acme, 70)>>}
MCNewMatches == {Row(acmeCom, phish, 15)}

-----------------------------------------------------------------------------

MCFeeds == <<"first", "second">>
MCTlds == <<"com">>
MCLures == <<"login">>
MCHomoglyphs == <<"a", "o">>
MCLetters == brand :> {"a"} @@ bravo :> {"a", "o"} @@ zero :> {}
MCTwins == <<bravo, <<"homoglyph", "com", "o">>>> :> <<"character-swap", "com", "">>
Swapped == <<"character-swap", "com", "">>
Request(keyword, root, offline, max) ==
    [keyword |-> keyword, root |-> root, offline_mode |-> offline, max_variants |-> max]
MCRequests == <<{Request(brand, NoRoot, FALSE, 2)},
                {Request(brand, NoRoot, FALSE, 1), Request(bravo, NoRoot, TRUE, 9),
                 Request(zero, <<zero, Swapped>>, TRUE, 9)}>>
Online(login, support) ==
    [t \in {"brand-prefix", "support-lure"} |-> IF t = "brand-prefix" THEN login ELSE support]
Say(crt, ips, rdap, owner) == [crt |-> crt, ips |-> ips, rdap |-> rdap, owner |-> owner]
MCWorlds ==
    {Online(Say("fails", "none", "fails", "known"), Say("some", "some", "private", "known")),
     Online(Say("some", "some", "private", "known"), Say("some", "unencodable", "other", "known")),
     Online(Say("odd", "none", "other", "known"), Say("some", "some", "other", "odd"))}
MCSummaryAnswers == {AiReply("prose", "summary"), AiReply("raises", "summary")}
MCFixtures ==
    [login    |-> [certificates |-> TRUE, privacy |-> TRUE, ips |-> TRUE, tags |-> 2],
     secure   |-> [certificates |-> TRUE, privacy |-> TRUE, ips |-> TRUE, tags |-> 2],
     fallback |-> [certificates |-> FALSE, privacy |-> FALSE, ips |-> FALSE, tags |-> 0]]
MCInterval == [crt |-> 2, rdap |-> 1]

-----------------------------------------------------------------------------

Visit(ip, body, suspicious) == [ip |-> ip, body |-> body, suspicious |-> suspicious]
MCVisits == <<Visit(ipA, <<>>, FALSE), Visit(ipB, <<>>, FALSE), Visit(ipA, <<>>, TRUE),
              Visit(ipC, <<2, 2>>, FALSE)>>
MCGiven == <<log>>

-----------------------------------------------------------------------------

VARIABLE part   \* which part of the model the behaviour runs

intelVars == <<part, fusionVars, phantomVars, sensorVars>>

IntelInit ==
    /\ FusionInit /\ PhantomInit /\ SensorInit /\ part \in {"fusion", "phantom", "sensor"}
    /\ part # "phantom" => world = CHOOSE w \in Worlds : TRUE

IntelNext ==
    \/ part = "fusion" /\ FusionNext /\ UNCHANGED <<part, phantomVars, sensorVars>>
    \/ part = "phantom" /\ PhantomNext /\ UNCHANGED <<part, fusionVars, sensorVars>>
    \/ part = "sensor" /\ SensorNext /\ UNCHANGED <<part, fusionVars, phantomVars>>

\* Weak fairness of each digest, of the feed, of each analysis and its assets, of
\* the handlers of the visits and of the analyses' clock: calls end (each has a
\* timeout), sleeps end, and what can go on for ever does; a body need not end.
\* Each is WF with its ENABLED written out, which TLC evaluates faster: the state
\* function moves only by the steps that the predicate enables (and, for the
\* visits, by the arrivals, which are finitely many).
MayGoOn(a) ==
    /\ analysis[a].at = "running"
    /\ \/ analysis[a].offline
       \/ \A i \in DOMAIN asset[a] : asset[a][i].at = "done"
       \/ \E i \in DOMAIN asset[a] : asset[a][i].at = "raised"

MayAnswer(a) ==
    \E i \in DOMAIN asset[a] :
        \/ asset[a][i].at = "idle" /\ ~analysis[a].offline
        \/ asset[a][i].at \in {"crt", "rdap", "ip"}
        \/ asset[a][i].at \in {"crt wait", "rdap wait", "ip wait"} /\ now >= asset[a][i].slot

Sleeping == \E a \in Analyses : \E i \in DOMAIN asset[a] : asset[a][i].slot > now

FairIntelSpec ==
    /\ IntelInit /\ [][IntelNext]_intelVars
    /\ <>[](cve_run.at \in {"nvd", "kev"}) => []<><<TRUE>>_cve_run
    /\ <>[](threat_run.at = "feeds") => []<><<TRUE>>_threat_run
    /\ <>[](feed.at \in {"threats", "cves"}) => []<><<TRUE>>_feed
    /\ <>[]Sleeping => []<><<TRUE>>_now
    /\ \A a \in Analyses :
          /\ <>[]MayGoOn(a) => []<><<TRUE>>_<<analysis[a], asset[a]>>
          /\ <>[]MayAnswer(a) => []<><<TRUE>>_(asset[a])
    /\ <>[](\E v \in Visits : visits[v].at \in Handled) => []<><<TRUE>>_visits

-----------------------------------------------------------------------------
(* Properties *)

\* The variables of all parts keep their types and the limits of a request (matches
\* read, findings, variants, bytes of a body) hold (get_feed,
\* generate_domain_variants, RequestSizeLimitMiddleware).
IntelTypeOK == FusionTypeOK /\ PhantomTypeOK /\ SensorTypeOK

\* Whatever feeds, models and providers answer, and however calls are staggered,
\* every digest, feed and analysis that starts and every visit that gets past its
\* body comes to an end (run_digest, get_feed, analyze, catch_all).
AnswersEnd ==
    /\ cve_run.at # "start" ~> cve_run.at \in Ends
    /\ threat_run.at # "start" ~> threat_run.at \in Ends
    /\ feed.at # "matches" ~> feed.at = "answered"
    /\ []<>(\A v \in Visits : visits[v].at \notin Handled)
    /\ \A a \in Analyses : analysis[a].at # "new" ~> analysis[a].at \notin {"new", "running"}
=============================================================================

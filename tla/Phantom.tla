------------------------------- MODULE Phantom ------------------------------
(***************************************************************************)
(* Lookalike-domain analyses (phantom/discovery.py, enrichment.py,         *)
(* providers.py, scoring.py, service.py): the variants of each target are  *)
(* enriched at once, their calls to crt.sh and rdap.org staggered by two   *)
(* rate limiters that all analyses of the process share.  Any wake-up may  *)
(* be late, since the lookup of a name blocks the loop.                    *)
(***************************************************************************)
EXTENDS AiProvider, Ordering

CONSTANTS
    Analyses,                  \* the analyses requested
    Requests,                  \* what each of them may ask for
    COMMON_TLDS, LURE_TERMS,
    HOMOGLYPHS,                \* the letters that have a lookalike, in order
    LongKeywords,              \* keywords of more than three letters
    Letters,                   \* the letters of each keyword
    NoRoot,                    \* a brand has no domain of its own
    Twins,                     \* forms that spell the domain of an earlier form
    Worlds,                    \* what the providers may say of each form of domain
    Fixtures,                  \* the offline profiles, by the word in the domain
    MIN_INTERVAL,              \* of each rate limiter, as a number of ticks
    SummaryAnswers, SummaryKeys

ASSUME IntervalAssumption == MIN_INTERVAL \in [{"crt", "rdap"} -> Nat \ {0}]
ASSUME RequestAssumption ==
    /\ \A a \in Analyses : \A r \in Requests[a] :
          r.max_variants \in 1..50 /\ r.offline_mode \in BOOLEAN
    /\ COMMON_TLDS \in Seq(STRING) \ {<<>>}
    /\ LURE_TERMS \in Seq(STRING) /\ HOMOGLYPHS \in Seq(STRING)

ASSUME ProviderAssumption ==
    /\ "fallback" \in DOMAIN Fixtures
    /\ \A word \in DOMAIN Fixtures :
          Fixtures[word] \in [certificates : BOOLEAN, privacy : BOOLEAN, ips : BOOLEAN, tags : Nat]
    /\ SummaryKeys \subseteq SUBSET AIProviderName

VARIABLES
    analysis,     \* of each request: where it is, what it asks, its variants
    asset,        \* the enrichment of each variant
    world,        \* what the providers say, from the start
    now,          \* the loop's clock
    next_slot,    \* of each rate limiter
    sent,         \* the calls made to each host: who made them, in which slot
    analyses      \* the rows of phantom_analysis_runs

phantomVars == <<analysis, asset, world, now, next_slot, sent, analyses>>

-----------------------------------------------------------------------------
(* generate_domain_variants *)

\* A domain is the way it was made: <<technique, top-level domain, part>>.
Spelled(keyword, form) ==
    <<keyword, IF <<keyword, form>> \in DOMAIN Twins THEN Twins[<<keyword, form>>] ELSE form>>

Lures(tld) ==
    [l \in DOMAIN LURE_TERMS |-> <<"brand-prefix", tld, LURE_TERMS[l]>>]
        \o << <<"support-lure", tld, "support">>, <<"security-lure", tld, "secure">>,
              <<"tld-blend", tld, "">> >>

\* Every candidate, in the order of the calls of add.
Candidates(keyword) ==
    LET tld == COMMON_TLDS[1]
    IN  FlattenSeq([t \in DOMAIN COMMON_TLDS |-> Lures(COMMON_TLDS[t])])
          \o (IF keyword \notin LongKeywords THEN <<>>
              ELSE << <<"character-omission", tld, "">>, <<"character-duplication", tld, "">>,
                      <<"character-swap", tld, "">> >>)
          \o LET present == Kept(HOMOGLYPHS, LAMBDA c : c \in Letters[keyword])
             IN  [h \in DOMAIN present |-> <<"homoglyph", tld, present[h]>>]

\* A form spells what an earlier candidate spells, and that one is no such form.
ASSUME TwinAssumption ==
    \A twin \in DOMAIN Twins :
        LET candidates == Candidates(twin[1])
        IN  /\ <<twin[1], Twins[twin]>> \notin DOMAIN Twins
            /\ \A i \in DOMAIN candidates : candidates[i] = twin[2] =>
                  \E j \in 1..(i - 1) : candidates[j] = Twins[twin]

\* add: the first ones up to the limit, each domain once, the root left out.
generate_domain_variants(keyword, root, limit) ==
    LET candidates == Candidates(keyword)
        variants   == [i \in DOMAIN candidates |->
                          [domain    |-> Spelled(keyword, candidates[i]),
                           technique |-> candidates[i][1]]]
    IN  FirstOf(FirstsBy(Kept(variants, LAMBDA v : v.domain # root), LAMBDA v : v.domain), limit)

-----------------------------------------------------------------------------
(* score_asset *)

HIGH_RISK_TECHNIQUES ==
    [t \in {"homoglyph", "character-swap", "character-duplication", "character-omission"} |->
        CASE t = "homoglyph" -> 30 [] t = "character-swap" -> 28 [] OTHER -> 18]

LURE_TECHNIQUES ==
    [t \in {"security-lure", "brand-prefix", "support-lure", "tld-blend"} |->
        CASE t = "security-lure" -> 22 [] t = "brand-prefix" -> 20
          [] t = "support-lure" -> 16 [] OTHER -> 12]

\* Mutant of score_and_prioritize: a score at a threshold stays below it.
score_and_prioritize_Above(weights) ==
    LET raw == Total(weights)
        bounded == IF raw > 100 THEN 100 ELSE raw
    IN  [score |-> bounded,
         priority |-> IF bounded > 70 THEN "high" ELSE IF bounded > 40 THEN "medium" ELSE "low"]

score_and_prioritize(weights) ==
    LET raw == Total(weights)
        bounded == IF raw > 100 THEN 100 ELSE raw
    IN  [score |-> bounded,
         priority |-> IF bounded >= 70 THEN "high" ELSE IF bounded >= 40 THEN "medium" ELSE "low"]

\* The weights of the signals that fire, in order.
score_asset(technique, found) ==
    LET When(fires, weight) == IF fires THEN <<weight>> ELSE <<>>
    IN  score_and_prioritize(
            (IF technique \in DOMAIN HIGH_RISK_TECHNIQUES
             THEN <<HIGH_RISK_TECHNIQUES[technique]>> ELSE <<>>)
            \o (IF technique \in DOMAIN LURE_TECHNIQUES
                THEN <<LURE_TECHNIQUES[technique]>> ELSE <<>>)
            \o When(found.certificates, 25) \o When(found.privacy, 10) \o When(found.ips, 10)
            \o When(found.tags > 0, IF 5 * found.tags < 15 THEN 5 * found.tags ELSE 15))

-----------------------------------------------------------------------------
(* The providers *)

\* _select_profile: the first fixture whose word is in the domain.
Profile(form) ==
    IF form[1] \in {"brand-prefix", "security-lure"} /\ form[3] \in DOMAIN Fixtures
    THEN Fixtures[form[3]] ELSE Fixtures["fallback"]

\* Live domains that get the one reputation tag, if they resolve.
Patterned(form) ==
    \/ form[1] = "brand-prefix" /\ form[3] \in {"login", "verify"}
    \/ form[1] = "security-lure" /\ form[2] = "com"

Fresh == [at |-> "idle", slot |-> 0,
          found |-> [certificates |-> FALSE, privacy |-> FALSE, ips |-> FALSE, tags |-> 0]]

Form(a, i) == analysis[a].variations[i].domain[2]
Says(a, i) == world[Form(a, i)[1]]
HostOf(at) == IF at \in {"crt wait", "crt"} THEN "crt" ELSE "rdap"

\* _RateLimiter.wait, up to its sleep: the slot the caller gets.
Slot(host) == IF now > next_slot[host] THEN now ELSE next_slot[host]

\* Mutant of Reserve: the interval is counted from now, not from the slot.
Reserve_FromNow(host) == next_slot' = [next_slot EXCEPT ![host] = now + MIN_INTERVAL[host]]

Reserve(host) == next_slot' = [next_slot EXCEPT ![host] = Slot(host) + MIN_INTERVAL[host]]

Update(a, i, new) == asset' = [asset EXCEPT ![a][i] = new]

\* Offline, the fixtures answer for all the variants, and nothing is awaited.
Mock(a) ==
    /\ analysis[a].at = "running" /\ analysis[a].offline
    /\ \A i \in DOMAIN asset[a] : asset[a][i].at = "idle"
    /\ asset' = [asset EXCEPT ![a] = [i \in DOMAIN asset[a] |->
                    [at |-> "done", slot |-> 0, found |-> Profile(Form(a, i))]]]
    /\ UNCHANGED <<analysis, world, now, next_slot, sent, analyses>>

Fetch(a, i) ==
    /\ analysis[a].at # "new" /\ ~analysis[a].offline
    /\ asset[a][i].at = "idle"
    /\ Update(a, i, [asset[a][i] EXCEPT !.at = "crt wait", !.slot = Slot("crt")])
    /\ Reserve("crt")
    /\ UNCHANGED <<analysis, world, now, sent, analyses>>

\* The sleep is over and the call goes out.
Send(a, i) ==
    LET it == asset[a][i]
    IN  /\ it.at \in {"crt wait", "rdap wait", "ip wait"} /\ now >= it.slot
        /\ Update(a, i, [it EXCEPT !.at = CASE it.at = "crt wait" -> "crt"
                                            [] it.at = "rdap wait" -> "rdap"
                                            [] OTHER -> "ip"])
        /\ sent' = [sent EXCEPT ![HostOf(it.at)] = @ \cup {[by |-> <<a, i, it.at>>, slot |-> it.slot]}]
        /\ UNCHANGED <<analysis, world, now, next_slot, analyses>>

\* An entry that is no object, a name that cannot be looked up at all, or an
\* owner of the address that is listed in another shape.
Raises(a, i) ==
    \/ asset[a][i].at = "crt" /\ (Says(a, i).crt = "odd" \/ Says(a, i).ips = "unencodable")
    \/ asset[a][i].at = "ip" /\ Says(a, i).owner = "odd"

\* The certificates, or those of the fixtures if the call failed; the name is
\* looked up, which blocks the loop; the next call takes its slot.
CrtAnswers(a, i) ==
    LET it == asset[a][i]
        certs == \/ Says(a, i).crt = "some"
                 \/ Says(a, i).crt = "fails" /\ Profile(Form(a, i)).certificates
    IN  /\ it.at = "crt" /\ ~Raises(a, i)
        /\ Update(a, i, [at |-> "rdap wait", slot |-> Slot("rdap"),
                         found |-> [it.found EXCEPT !.certificates = certs,
                                                    !.ips = Says(a, i).ips = "some"]])
        /\ Reserve("rdap")
        /\ UNCHANGED <<analysis, world, now, sent, analyses>>

\* Mutant of AssetRaises: the call is made again, in the same slot.
AssetRaises_Retries(a, i) ==
    /\ Raises(a, i)
    /\ Update(a, i, [asset[a][i] EXCEPT !.at = "crt wait"])
    /\ UNCHANGED <<analysis, world, now, next_slot, sent, analyses>>

\* The exception ends the asset.
AssetRaises(a, i) ==
    /\ Raises(a, i)
    /\ Update(a, i, [asset[a][i] EXCEPT !.at = "raised"])
    /\ UNCHANGED <<analysis, world, now, next_slot, sent, analyses>>

\* Who registered the domain; only one that resolves is asked about further.
RdapAnswers(a, i) ==
    LET found == [asset[a][i].found EXCEPT !.privacy = Says(a, i).rdap = "private"]
    IN  /\ asset[a][i].at = "rdap"
        /\ \/ /\ found.ips
              /\ Update(a, i, [at |-> "ip wait", slot |-> Slot("rdap"), found |-> found])
              /\ Reserve("rdap")
           \/ /\ ~found.ips
              /\ Update(a, i, [at |-> "done", slot |-> 0, found |-> found])
              /\ UNCHANGED next_slot
        /\ UNCHANGED <<analysis, world, now, sent, analyses>>

IpAnswers(a, i) ==
    /\ asset[a][i].at = "ip" /\ ~Raises(a, i)
    /\ Update(a, i, [at |-> "done", slot |-> 0,
                     found |-> [asset[a][i].found EXCEPT !.tags = IF Patterned(Form(a, i)) THEN 1 ELSE 0]])
    /\ UNCHANGED <<analysis, world, now, next_slot, sent, analyses>>

\* Time passes while someone sleeps; other time only spreads the calls more.
Tick ==
    /\ \E a \in Analyses : \E i \in DOMAIN asset[a] : asset[a][i].slot > now
    /\ now' = now + 1
    /\ UNCHANGED <<analysis, asset, world, next_slot, sent, analyses>>

-----------------------------------------------------------------------------
(* analyze *)

Analyze(a, request) ==
    LET variations == generate_domain_variants(request.keyword, request.root, request.max_variants)
    IN  /\ analysis[a].at = "new"
        /\ analysis' = [analysis EXCEPT ![a] =
                [at |-> "running", offline |-> request.offline_mode, root |-> request.root,
                 max_variants |-> request.max_variants, variations |-> variations]]
        /\ asset' = [asset EXCEPT ![a] = [i \in DOMAIN variations |-> Fresh]]
        /\ UNCHANGED <<world, now, next_slot, sent, analyses>>

\* The assets that scored, in the order of the scores.
Scored(a) ==
    LET all == [i \in DOMAIN asset[a] |->
                   LET verdict == score_asset(analysis[a].variations[i].technique, asset[a][i].found)
                   IN  [domain |-> analysis[a].variations[i].domain, score |-> verdict.score,
                        priority |-> verdict.priority]]
        some == Kept(all, LAMBDA s : s.score # 0)
    IN  SortedDown(some, LAMBDA s : s.score)

\* gather returned: the assets are scored, summarised and saved.  A reply of
\* the wrong shape, or a commit that raises, loses the analysis.
Conclude(a, keys, answer) ==
    /\ analysis[a].at = "running"
    /\ \A i \in DOMAIN asset[a] : asset[a][i].at = "done"
    /\ LET source == build_summary(analysis[a].offline, keys, answer)
       IN  \/ /\ source # "raises"
              /\ analyses' = Append(analyses, [of |-> a, assets |-> Scored(a), model_source |-> source,
                                               grounds |-> Grounds(analysis[a].offline, keys, answer)])
              /\ analysis' = [analysis EXCEPT ![a].at = "saved"]
           \/ /\ analysis' = [analysis EXCEPT ![a].at = IF source = "raises" THEN "failed" ELSE "locked"]
              /\ UNCHANGED analyses
    /\ UNCHANGED <<asset, world, now, next_slot, sent>>

\* One asset raised: the analysis fails, the other assets go on for nothing.
GatherRaises(a) ==
    /\ analysis[a].at = "running"
    /\ \E i \in DOMAIN asset[a] : asset[a][i].at = "raised"
    /\ analysis' = [analysis EXCEPT ![a].at = "failed"]
    /\ UNCHANGED <<asset, world, now, next_slot, sent, analyses>>

PhantomInit ==
    /\ analysis = [a \in Analyses |-> [at |-> "new", offline |-> TRUE, root |-> NoRoot,
                                       max_variants |-> 1, variations |-> <<>>]]
    /\ asset = [a \in Analyses |-> <<>>]
    /\ world \in Worlds
    /\ now = 0
    /\ next_slot = [host \in {"crt", "rdap"} |-> 0]
    /\ sent = [host \in {"crt", "rdap"} |-> {}]
    /\ analyses = <<>>

AssetStep(a, i) ==
    Fetch(a, i) \/ Send(a, i) \/ CrtAnswers(a, i) \/ AssetRaises(a, i)
        \/ RdapAnswers(a, i) \/ IpAnswers(a, i)

AnalysisStep(a) ==
    \/ Mock(a) \/ GatherRaises(a)
    \/ \E keys \in SummaryKeys, answer \in SummaryAnswers : Conclude(a, keys, answer)

PhantomNext ==
    \/ Tick
    \/ \E a \in Analyses :
          \/ \E request \in Requests[a] : Analyze(a, request)
          \/ AnalysisStep(a)
          \/ \E i \in DOMAIN asset[a] : AssetStep(a, i)

PhantomSpec == PhantomInit /\ [][PhantomNext]_phantomVars

-----------------------------------------------------------------------------
(* Properties *)

Stages == {"idle", "crt wait", "crt", "rdap wait", "rdap", "ip wait", "ip", "done", "raised"}

PhantomTypeOK ==
    /\ \A a \in Analyses :
          /\ analysis[a].at \in {"new", "running", "saved", "failed", "locked"}
          /\ Len(analysis[a].variations) <= analysis[a].max_variants
          /\ Len(asset[a]) = Len(analysis[a].variations)
          /\ \A i \in DOMAIN asset[a] :
                asset[a][i].at \in Stages /\ asset[a][i].slot \in Nat
    /\ \A row \in ToSet(analyses) : \A s \in ToSet(row.assets) : s.score \in 1..100

\* "only their dispatch times are spread out": however many analyses run and
\* however late sleepers wake, the slots of the calls to a host lie an interval
\* apart and no call goes out before its slot (_RateLimiter.wait).
CallsAreSpaced ==
    \A host \in {"crt", "rdap"} :
        /\ \A call, later \in sent[host] :
              call # later /\ call.slot <= later.slot =>
                  later.slot >= call.slot + MIN_INTERVAL[host]
        /\ \A call \in sent[host] : call.slot <= now

\* What the providers said of a form, or the fixtures where they stand in.
HasCertificates(a, f) ==
    IF analysis[a].offline \/ world[f[1]].crt = "fails" THEN Profile(f).certificates
    ELSE world[f[1]].crt = "some"
Resolves(a, f) == IF analysis[a].offline THEN Profile(f).ips ELSE world[f[1]].ips = "some"
IsPrivate(a, f) == IF analysis[a].offline THEN Profile(f).privacy ELSE world[f[1]].rdap = "private"
TagsOf(a, f) ==
    IF analysis[a].offline THEN Profile(f).tags
    ELSE IF Resolves(a, f) /\ Patterned(f) THEN 1 ELSE 0

\* What all of that weighs together with the technique.
Weighs(a, f) ==
    (IF f[1] \in DOMAIN LURE_TECHNIQUES THEN LURE_TECHNIQUES[f[1]] ELSE HIGH_RISK_TECHNIQUES[f[1]])
        + (IF HasCertificates(a, f) THEN 25 ELSE 0) + (IF IsPrivate(a, f) THEN 10 ELSE 0)
        + (IF Resolves(a, f) THEN 10 ELSE 0)
        + (IF 5 * TagsOf(a, f) < 15 THEN 5 * TagsOf(a, f) ELSE 15)

\* Every variant is accounted for: a saved analysis has each exactly once, none
\* of them the target's own domain, the highest score first, with a score that
\* is what the providers (or, offline or where crt.sh failed, the fixtures)
\* said, whichever answered first, and a priority by the documented thresholds;
\* and its summary is by someone asked.
AnalysesAreAccounted ==
    \A row \in ToSet(analyses) :
        LET domains == {v.domain : v \in ToSet(analysis[row.of].variations)}
        IN  /\ Len(row.assets) = Cardinality(domains) /\ analysis[row.of].root \notin domains
            /\ {s.domain : s \in ToSet(row.assets)} = domains
            /\ IsSortedDown(row.assets, LAMBDA s : s.score)
            /\ \A s \in ToSet(row.assets) :
                  /\ s.score = Weighs(row.of, s.domain[2])
                  /\ s.priority = "high" <=> s.score >= 70
                  /\ s.priority = "low" <=> s.score < 40
            /\ row.model_source \in row.grounds
=============================================================================

------------------------------ MODULE CveWatch ------------------------------
(***************************************************************************)
(* A CVE digest (cve_watch/sources.py, tagging.py, service.py): two feeds  *)
(* parsed and merged by CVE, then tagged against a watchlist.              *)
(***************************************************************************)
EXTENDS Wording

CONSTANTS
    Failed,      \* a feed whose request raised
    Odd,         \* an entry of another shape, at which parsing raises
    Blank,       \* a missing id, vendor, product, date or score
    NvdAnswers, KevAnswers,   \* what each feed may answer
    MockNvd, MockKev          \* the fixtures of offline mode

\* A list of CVEs as NVD tells of them, and one as KEV does.
IsNvd(answer) ==
    /\ answer \in Seq(ToSet(answer))
    /\ \A cve \in ToSet(answer) \ {Odd} :
          /\ cve.descriptions \in Seq(ToSet(cve.descriptions)) /\ cve.metrics \in Seq(Nat \cup {Blank})
          /\ \A d \in ToSet(cve.descriptions) : d.value \in Texts
          /\ cve.published \in Nat \cup {Blank}

IsKev(answer) ==
    /\ answer \in Seq(ToSet(answer))
    /\ \A item \in ToSet(answer) \ {Odd} :
          /\ {item.vendorProject, item.product} \subseteq (Texts \ {NoText}) \cup {Blank}
          /\ item.shortDescription \in Texts
          /\ item.dateAdded \in Nat \cup {Blank}

ASSUME FeedAssumption ==
    /\ \A answer \in (NvdAnswers \cup {MockNvd}) \ {Failed} : IsNvd(answer)
    /\ \A answer \in (KevAnswers \cup {MockKev}) \ {Failed} : IsKev(answer)
    /\ Failed \notin {MockNvd, MockKev}

\* A missing date reads as the time of the digest.
_parse_datetime(raw, now) == IF raw = Blank THEN now ELSE raw

\* The first of the versions 3.1, 3.0 and 2 that has a score.
_extract_cvss_score(cve) ==
    LET scored == Kept(cve.metrics, LAMBDA score : score # Blank)
    IN  IF scored = <<>> THEN Blank ELSE scored[1]

_extract_description(cve) ==
    LET english == Kept(cve.descriptions, LAMBDA d : d.lang = "en")
    IN  IF english = <<>> THEN NoText ELSE english[1].value

parse_nvd_response(items, now) ==
    LET named == Kept(items, LAMBDA cve : cve.id # Blank)
    IN  [i \in DOMAIN named |->
            [cve_id |-> named[i].id,
             description |-> _extract_description(named[i]),
             cvss_score |-> _extract_cvss_score(named[i]),
             published_at |-> _parse_datetime(named[i].published, now),
             is_actively_exploited |-> FALSE,
             matched_products |-> <<>>, source |-> {"NVD"}]]

parse_cisa_kev_response(items, now) ==
    LET named == Kept(items, LAMBDA item : item.cveID # Blank)
    IN  [i \in DOMAIN named |->
            [cve_id |-> named[i].cveID,
             description |-> named[i].shortDescription,
             cvss_score |-> Blank,
             published_at |-> _parse_datetime(named[i].dateAdded, now),
             is_actively_exploited |-> TRUE,
             matched_products |-> Kept(<<named[i].vendorProject, named[i].product>>,
                                       LAMBDA p : p # Blank),
             source |-> {"CISA KEV"}]]

\* What is left of the records of one CVE: the last of NVD, or else the first
\* of KEV, takes up the exploited flag and products of every further KEV record,
\* and the first description there is.
Joined(nvd, kev) ==
    LET existing == IF nvd # <<>> THEN Last(nvd) ELSE Head(kev)
        further  == IF nvd # <<>> THEN kev ELSE Tail(kev)
        texts    == Kept(<<existing.description>> \o [k \in DOMAIN further |-> further[k].description],
                         LAMBDA t : t # NoText)
    IN  IF further = <<>> THEN existing
        ELSE [existing EXCEPT
                !.is_actively_exploited = TRUE,
                !.matched_products = FromKeys(@ \o FlattenSeq([k \in DOMAIN further |->
                                                                  further[k].matched_products])),
                !.description = IF texts = <<>> THEN NoText ELSE Head(texts),
                !.source = {"NVD", "CISA KEV"}]

\* One record by CVE, in the order the feeds first name it, then the newest first.
merge_cves(nvd_cves, kev_cves) ==
    LET ids == FromKeys([i \in DOMAIN (nvd_cves \o kev_cves) |-> (nvd_cves \o kev_cves)[i].cve_id])
        Of(cves, id) == Kept(cves, LAMBDA cve : cve.cve_id = id)
    IN  SortedDown([i \in DOMAIN ids |-> Joined(Of(nvd_cves, ids[i]), Of(kev_cves, ids[i]))],
                   LAMBDA cve : cve.published_at)

\* A feed that fails, or has one entry that does not parse, is empty.
Ingested(answer) == IF answer = Failed \/ Odd \in ToSet(answer) THEN <<>> ELSE answer

fetch_all(nvd_answer, kev_answer, now) ==
    merge_cves(parse_nvd_response(Ingested(nvd_answer), now),
               parse_cisa_kev_response(Ingested(kev_answer), now))

\* Mutant of Hits: the description and each product are searched on their own.
Hits_Apart(cve, watched) ==
    Kept(<<watched.vendor, watched.product>>,
         LAMBDA keyword : \E text \in {cve.description} \cup ToSet(cve.matched_products) :
                              keyword # NoText /\ keyword \in Mentions[text])

\* The names of a watched product that occur in the CVE's haystack: its
\* description and its products, joined.
Hits(cve, watched) ==
    Kept(<<watched.vendor, watched.product>>,
         LAMBDA keyword :
             keyword # NoText /\ keyword \in MentionedIn(<<cve.description>> \o cve.matched_products))

\* tag_cve and the update of the record in run_digest.
tag_cve(cve, watchlist) ==
    LET hits == FlattenSeq([w \in DOMAIN watchlist |-> Hits(cve, watchlist[w])])
    IN  [cve EXCEPT !.matched_products = FromKeys(cve.matched_products \o FromKeys(hits))]

\* The digest that is saved, with the counts of its row and of its summary.
run_digest(nvd_answer, kev_answer, watchlist, now) ==
    LET found == fetch_all(nvd_answer, kev_answer, now)
        cves  == [i \in DOMAIN found |-> tag_cve(found[i], watchlist)]
    IN  [cves |-> cves,
         cve_count |-> Len(cves),
         actively_exploited_count |-> Len(Kept(cves, LAMBDA c : c.is_actively_exploited)),
         watchlist_matches |-> Len(Kept(cves, LAMBDA c : c.matched_products # <<>>))]

-----------------------------------------------------------------------------
(* What a digest says of the feeds it came from                            *)

NvdOf(answer) == {cve \in ToSet(Ingested(answer)) : cve.id # Blank}
KevOf(answer) == {item \in ToSet(Ingested(answer)) : item.cveID # Blank}

IsFaithful(digest, nvd_answer, kev_answer, watchlist) ==
    LET nvd == NvdOf(nvd_answer)
        kev == KevOf(kev_answer)
        Kev(id) == {item \in kev : item.cveID = id}
        Named(id) == (UNION {{item.vendorProject, item.product} : item \in Kev(id)}) \ {Blank}
        Watched == (UNION {{w.vendor, w.product} : w \in ToSet(watchlist)}) \ {NoText}
        \* The names from KEV, which come first; a record that was not joined with
        \* another was searched with them as its one item has them.
        Own(c) == SubSeq(c.matched_products, 1, Cardinality(Named(c.cve_id)))
        Searched(c) == IF c.source # {"CISA KEV"} THEN {Own(c)}
                       ELSE {Kept(<<i.vendorProject, i.product>>, LAMBDA p : p # Blank) :
                                i \in Kev(c.cve_id)}
    IN  /\ {c.cve_id : c \in ToSet(digest.cves)} = {c.id : c \in nvd} \cup {i.cveID : i \in kev}
        /\ IsSortedDown(digest.cves, LAMBDA cve : cve.published_at)
        /\ \A i, j \in DOMAIN digest.cves :
              digest.cves[i].cve_id = digest.cves[j].cve_id => i = j
        /\ digest.actively_exploited_count = Cardinality({i.cveID : i \in kev})
        /\ \A c \in ToSet(digest.cves) :
              LET id == c.cve_id
              IN  /\ c.is_actively_exploited <=> Kev(id) # {}
                  /\ id \in {n.id : n \in nvd} => "NVD" \in c.source
                  /\ "CISA KEV" \in c.source <=> Kev(id) # {}
                  /\ LET ofNvd == {n \in nvd : n.id = id}
                         texts == {_extract_description(n) : n \in ofNvd}
                     IN  /\ ofNvd # {} => c.cvss_score \in {_extract_cvss_score(n) : n \in ofNvd}
                         /\ ofNvd # {} /\ NoText \notin texts => c.description \in texts
                         /\ c.description \in texts \cup {i.shortDescription : i \in Kev(id)}
                  /\ IsInjective(c.matched_products)
                  /\ ToSet(Own(c)) = Named(id)
                  /\ \A names \in Searched(c) :
                        ToSet(c.matched_products) \ Named(id)
                            = (Watched \ Named(id)) \cap MentionedIn(<<c.description>> \o names)
=============================================================================

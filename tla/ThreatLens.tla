------------------------------ MODULE ThreatLens ----------------------------
(***************************************************************************)
(* A threat digest (threatlens/sources.py, vectors.py, ai_analysis.py,     *)
(* db.py): articles from several feeds, each tagged with the vectors whose *)
(* keywords it mentions.                                                   *)
(***************************************************************************)
EXTENDS Wording

CONSTANTS
    Feeds,            \* the feeds, in order
    FeedAnswers,      \* what a feed may answer: its items, or
    Down,             \*   the request raises, or
    Malformed,        \*   the XML does not parse
    MockArticles,     \* the fixture of offline mode
    VECTOR_KEYWORDS,  \* vectors and their keywords, in order
    Retold,           \* a breakdown as a model words it
    max_per_feed

\* The vectors are the keys of a dictionary.
ASSUME VectorAssumption ==
    /\ VECTOR_KEYWORDS \in Seq(ToSet(VECTOR_KEYWORDS))
    /\ \A v \in DOMAIN VECTOR_KEYWORDS : VECTOR_KEYWORDS[v].keywords \subseteq Terms
    /\ \A v, w \in DOMAIN VECTOR_KEYWORDS :
          VECTOR_KEYWORDS[v].vector = VECTOR_KEYWORDS[w].vector => v = w

AreArticles(articles) ==
    /\ articles \in Seq(ToSet(articles))
    /\ \A a \in ToSet(articles) : a.title \in Texts /\ a.summary \in Texts

\* No two feeds have one name.
ASSUME FeedsAssumption ==
    /\ Feeds \in Seq(ToSet(Feeds)) /\ IsInjective(Feeds)
    /\ \A answer \in FeedAnswers \ {Down, Malformed} :
          AreArticles(answer) /\ \A a \in ToSet(answer) : a.link \in BOOLEAN
    /\ AreArticles(MockArticles)
    /\ max_per_feed \in Nat \ {0}

\* The vectors an article's title and summary mention, joined, in order.
tag_article(article) ==
    LET tagged == Kept(VECTOR_KEYWORDS, LAMBDA v : \E keyword \in v.keywords :
                           keyword \in MentionedIn(<<article.title, article.summary>>))
    IN  [i \in DOMAIN tagged |-> tagged[i].vector]

\* Items with a title and a link; none if the XML does not parse.
parse_rss_feed(answer, source_name) ==
    LET whole == Kept(answer, LAMBDA item : item.title # NoText /\ item.link)
    IN  IF answer = Malformed THEN <<>>
        ELSE [i \in DOMAIN whole |-> [title |-> whole[i].title, summary |-> whole[i].summary,
                                      source |-> source_name]]

\* One turn of fetch_all's loop: a feed that fails adds nothing.
FromFeed(collected, answer, source_name) ==
    IF answer = Down THEN collected
    ELSE collected \o FirstOf(parse_rss_feed(answer, source_name), max_per_feed)

Tagged(articles) ==
    [i \in DOMAIN articles |->
        [title |-> articles[i].title, summary |-> articles[i].summary,
         source |-> articles[i].source, vectors |-> tag_article(articles[i])]]

\* Vectors by the number of articles that have them, the most frequent first.
ranked_vectors(articles) ==
    LET seen == FromKeys(FlattenSeq([i \in DOMAIN articles |-> articles[i].vectors]))
    IN  SortedDown([v \in DOMAIN seen |->
                       [vector |-> seen[v],
                        count |-> Quantify(DOMAIN articles,
                                           LAMBDA i : seen[v] \in ToSet(articles[i].vectors))]],
                   LAMBDA ranked : ranked.count)

\* The count is the digest's own; the vectors are told by a model if it sent a
\* list of strings, and counted otherwise.
Breakdown(articles, told) ==
    [article_count |-> Len(articles),
     vector_breakdown |-> IF told THEN Retold ELSE ranked_vectors(articles)]

-----------------------------------------------------------------------------
(* What a digest says of the feeds it came from                            *)

IsTruthful(digest, answers, told) ==
    LET Of(f) == Kept(digest.articles, LAMBDA a : a.source = Feeds[f])
        Whole(f) == IF answers[f] \in {Down, Malformed} THEN {}
                    ELSE {i \in DOMAIN answers[f] : answers[f][i].title # NoText /\ answers[f][i].link}
        Having(v) == {i \in DOMAIN digest.articles : v \in ToSet(digest.articles[i].vectors)}
    IN  /\ \A f \in DOMAIN Feeds :
              /\ Len(Of(f)) = IF Cardinality(Whole(f)) < max_per_feed THEN Cardinality(Whole(f))
                              ELSE max_per_feed
              /\ \A a \in ToSet(Of(f)) : \E i \in Whole(f) :
                    answers[f][i].title = a.title /\ answers[f][i].summary = a.summary
        /\ \A a \in ToSet(digest.articles) : \A v \in ToSet(VECTOR_KEYWORDS) :
              v.vector \in ToSet(a.vectors)
                <=> v.keywords \cap MentionedIn(<<a.title, a.summary>>) # {}
        /\ digest.breakdown.article_count = Len(digest.articles)
        /\ ~told =>
              /\ IsSortedDown(digest.breakdown.vector_breakdown, LAMBDA r : r.count)
              /\ \A v \in ToSet(VECTOR_KEYWORDS) : \A n \in 1..Len(digest.articles) :
                    Cardinality(Having(v.vector)) = n
                      <=> [vector |-> v.vector, count |-> n] \in ToSet(digest.breakdown.vector_breakdown)
=============================================================================

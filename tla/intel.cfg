SPECIFICATION FairIntelSpec
CONSTANTS
    noText = noText
    acme = acme
    router = router
    breach = breach
    plain = plain
    gateway = gateway
    phish = phish
    acmeCom = acmeCom
    acmeRouter = acmeRouter
    c1 = c1
    c2 = c2
    brand = brand
    bravo = bravo
    zero = zero
    log = log
    ipA = ipA
    ipB = ipB
    ipC = ipC
    NoRoot = NoRoot
    Failed = Failed
    Odd = Odd
    Blank = Blank
    Down = Down
    Malformed = Malformed
    Texts <- MCTexts
    NoText = noText
    Terms <- MCTerms
    Mentions <- MCMentions
    Spans <- MCSpans
    NvdAnswers <- MCNvd
    KevAnswers <- MCKev
    MockNvd <- MCMockNvd
    MockKev <- MCMockKev
    Feeds <- MCFeeds
    FeedAnswers <- MCFeedAnswers
    MockArticles <- MCMockArticles
    VECTOR_KEYWORDS <- MCVectors
    Retold = Retold
    max_per_feed = 2
    MatchTables <- MCMatchTables
    NewMatches <- MCNewMatches
    Watchlists <- MCWatchlists
    AiKeys <- MCAiKeys
    AiAnswers <- MCAiAnswers
    OldCves <- MCOldCves
    OldThreats <- MCOldThreats
    MAX_THREAT_VECTOR_SIGNALS = 2
    monitor_limit = 2
    limit = 1
    Now = 10
    Analyses = {1, 2}
    Requests <- MCRequests
    COMMON_TLDS <- MCTlds
    LURE_TERMS <- MCLures
    HOMOGLYPHS <- MCHomoglyphs
    LongKeywords = {brand, bravo, zero}
    Letters <- MCLetters
    Twins <- MCTwins
    Worlds <- MCWorlds
    Fixtures <- MCFixtures
    MIN_INTERVAL <- MCInterval
    SummaryAnswers <- MCSummaryAnswers
    SummaryKeys <- MCAiKeys
    Sink = {log}
    LogSink = log
    DiscordSink = discord
    Given <- MCGiven
    Visits = {1, 2, 3, 4}
    VisitOf <- MCVisits
    NoGeo = NoGeo
    max_bytes = 3
    _MAX_CACHE_ENTRIES = 2
    _CACHE_TTL_SECONDS = 1
    MaxClock = 1
INVARIANTS
    IntelTypeOK
    CveDigestsAreFaithful
    ThreatDigestsAreTruthful
    FeedIsExplained
    CallsAreSpaced
    AnalysesAreAccounted
    RecentVisitorsAreKnown
PROPERTY AnswersEnd
CHECK_DEADLOCK FALSE

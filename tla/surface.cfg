SPECIFICATION FairScanSpec
CONSTANTS
    root = root
    sub = sub
    odd = odd
    url = url
    space = space
    NoHost = NoHost
    anyroot = anyroot
    anysub = anysub
    anyodd = anyodd
    onlystar = onlystar
    rroot = rroot
    rsub = rsub
    rany = rany
    rblank = rblank
    scan = scan
    fuzz = fuzz
    Hosts = {root, sub, odd}
    SubdomainsOf <- MCSubdomainsOf
    Identifiers = {root, sub, odd, url, space}
    HostIn <- MCHostIn
    Verbatim <- MCVerbatim
    RawRules = {rroot, rsub, rany, rblank}
    RuleOf <- MCRuleOf
    Blank = Blank
    Techniques = {scan, fuzz}
    CtAnswers <- MCCtAnswers
    Cleaned <- MCCleaned
    Unencodable = {odd}
    COMMON_PORTS <- MCPorts
    EXPOSURE_TAGS <- MCTags
    DEFAULT_CONCURRENCY = 2
    AllowLists <- MCAllowLists
    DenyLists <- MCDenyLists
    SampleLimits <- MCLimits
    SampleActions <- MCActions
INVARIANTS
    SurfaceTypeOK
    NothingTouchedOutOfScope
    ReportIsTrue
    ActionsAreGated
PROPERTY ScanEnds
CHECK_DEADLOCK FALSE

SPECIFICATION FairSpec
CONSTANTS
    home = home
    other = other
    inner = inner
    file = file
    hostless = hostless
    mangled = mangled
    broken = broken
    port = port
    odd = odd
    ours = ours
    theirs = theirs
    strange = strange
    literal = literal
    public = public
    elsewhere = elsewhere
    private = private
    NoHost = NoHost
    NoAddress = NoAddress
    Urls <- MCUrls
    WebUrls = {home, other, inner, hostless, broken, port, odd}
    Malformed = {mangled}
    BadPort = {port}
    Unencodable = {strange}
    Unbuildable = {odd}
    Hosts = {ours, theirs, strange, literal}
    HostOf <- MCHostOf
    Addresses = {public, elsewhere, private}
    Public = {public, elsewhere}
    LiteralOf <- MCLiteralOf
    Allowlists <- MCAllowlists
    Retries = 1
    MAX_REDIRECTS = 2
INVARIANTS
    TypeOK
    SentWhereValidated
    StaysHome
    WorkIsBounded
    AllAttemptsMade
PROPERTY CallEnds
CHECK_DEADLOCK FALSE

SPECIFICATION FairMonitorSpec
CONSTANTS
    log = log
    discord = discord
    spy = spy
    bank = bank
    wildbank = wildbank
    long = long
    plain = plain
    bankfile = bankfile
    longfile = longfile
    plainfile = plainfile
    login = login
    pay = pay
    Sink = {log, discord, spy}
    LogSink = log
    DiscordSink = discord
    Given <- MCGiven
    Names = {bank, wildbank, long, plain}
    Keywords <- MCKeywords
    Holds <- MCHolds
    Clean <- MCClean
    SafeName <- MCSafeName
    LongNames = {long}
    Stream <- MCStream
    capture_enabled = TRUE
    Playwright = TRUE
    MaxTime = 1
INVARIANTS
    MonitorTypeOK
    CustodyUnlessReplaced
    SinksIsolated
PROPERTIES
    RecordsWholeThenTells
    EveryMatchEnds
CHECK_DEADLOCK FALSE

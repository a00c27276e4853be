SPECIFICATION ReconSpec
CONSTANTS
    ann = ann
    lea = lea
    s1 = s1
    s2 = s2
    h1 = h1
    h2 = h2
    inside = inside
    outside = outside
    Users <- MCUsers
    RoleOf <- MCRoleOf
    Targets <- MCTargets
    InScope <- MCInScope
    NoDeadline = NoDeadline
    Nobody = Nobody
    System = System
    NoRow = NoRow
    Lifetimes <- MCLifetimes
    Sessions <- MCTwoSessions
    Subjects = {h1}
    MaxTime = 1
    MaxRequests = 3
    MaxAudit = 3
    MaxExecutions = 1
    MaxFindings = 1
INVARIANTS
    TypeOK
    DecidedByQualifiedOther
    ExpiredOnlyWhenDue
    TrailMatchesTable
    ClearedByRecordedApproval
    ReconTypeOK
    ExecutionsStayInScope
    CompletedIffReported
    StatusIsEarned
PROPERTY NothingExecutesWithoutApproval
SYMMETRY MCInterchangeable
CHECK_DEADLOCK FALSE

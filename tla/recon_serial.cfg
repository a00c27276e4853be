SPECIFICATION ReconSpec
CONSTANTS
    ann = ann
    lea = lea
    s1 = s1
    s2 = s2
    h1 = h1
    h2 = h2
    inside = inside
    outside = outside
    Users <- MCUsers
    RoleOf <- MCRoleOf
    Targets <- MCTargets
    InScope <- MCInScope
    NoDeadline = NoDeadline
    Nobody = Nobody
    System = System
    NoRow = NoRow
    Lifetimes <- MCLifetimes
    Sessions <- MCOneSession
    Subjects = {h1, h2}
    MaxTime = 1
    MaxRequests = 2
    MaxAudit = 4
    MaxExecutions = 2
    MaxFindings = 2
INVARIANTS
    OneOpenDecision
    MirrorAgrees
    OneFindingPerExecution
PROPERTIES
    DecisionsAreFinal
    QueuedWhileApproved
CHECK_DEADLOCK FALSE

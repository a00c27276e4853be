SPECIFICATION ReconSpec
CONSTANTS
    ann = ann
    lea = lea
    s1 = s1
    s2 = s2
    h1 = h1
    h2 = h2
    inside = inside
    outside = outside
    Users <- MCUsers
    RoleOf <- MCRoleOf
    Targets <- MCTargets
    InScope <- MCInScope
    NoDeadline = NoDeadline
    Nobody = Nobody
    System = System
    NoRow = NoRow
    Lifetimes <- MCNoExpiry
    Sessions <- MCOneSession
    Subjects = {h1}
    MaxTime = 0
    MaxRequests = 2
    MaxAudit = 4
    MaxExecutions = 1
    MaxFindings = 1
PROPERTY ExecutedIsTerminal
CHECK_DEADLOCK FALSE

SPECIFICATION Spec
CONSTANTS
    ann = ann
    lea = lea
    s1 = s1
    s2 = s2
    Users <- MCUsers
    RoleOf <- MCRoleOf
    Lifetimes <- MCLifetimes
    NoDeadline = NoDeadline
    Nobody = Nobody
    System = System
    h1 = h1
    h2 = h2
    Sessions <- MCTwoSessions
    Subjects = {h1}
    MaxTime = 0
    MaxRequests = 1
    MaxAudit = 3
PROPERTY DecisionsAreFinal
CHECK_DEADLOCK FALSE

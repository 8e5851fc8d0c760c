CONSTANTS
    p1 = p1
    r1 = r1
    Calls = {c1, c2}
    Users = {alice, bob}
    Domains = {"site"}
    URLs = {plain, secure}
    Credentials <- MCCredentials
    Policies = {p1}
    Rules = {r1}
    Requested <- MCRequested
    MaxCalls = 3
    DBFails = TRUE
SPECIFICATION ProvisioningSpec
SYMMETRY MCSymmetry
CHECK_DEADLOCK FALSE
INVARIANT ProvisioningTypeOK
INVARIANT AnsweredComplete
INVARIANT SitesBounded
PROPERTY TargetStays

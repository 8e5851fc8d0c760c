CONSTANTS
    Calls = {c1, c2}
    Emails = {e1, e2}
    Passwords = {p1, p2}
    TTL = 1
    MaxTime = 2
    MaxCalls = 4
    MaxTokens = 2
    DBFails = TRUE
    Policies <- MCPolicies
    Nil = Nil
    MaxAttached = 3
    exact = exact
    broken = broken
    Rules = {exact, broken}
    Methods = {"GET", "POST"}
    Paths = {"/billing", "/"}
    Hits <- MCHits
    Broken = {broken}
    Checks = {k1}
    Edits <- MCEdits
    MaxEdits = 4
    QueryFails = TRUE
SPECIFICATION OwnerSpec
SYMMETRY MCSymmetry
CHECK_DEADLOCK FALSE
INVARIANT AuthTypeOK
INVARIANT RegisteredOnce
INVARIANT AdmittedJustified
INVARIANT MostRestrictiveWins
INVARIANT BlacklistTypeOK
INVARIANT StandingRuleBlocks
PROPERTY RefusedJustified

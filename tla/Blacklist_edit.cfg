CONSTANTS
    exact = exact
    broken = broken
    Rules = {exact}
    Methods = {"GET", "POST"}
    Paths = {"/billing", "/"}
    Hits <- MCHits
    Broken = {}
    Checks = {c1}
    Edits <- MCEdits
    MaxEdits = 4
    QueryFails = FALSE
SPECIFICATION BlacklistSpec
INVARIANT EditKeepsBlocking

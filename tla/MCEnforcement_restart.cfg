CONSTANTS
    Links = {l1}
    Requests = {r1, r2}
    Owners = {}
    Policy <- MCCounterPolicy
    Faults = {"redis"}
    MaxResponse = 0
    MaxWork = 4
SPECIFICATION FairSpec
PROPERTY WarmLoadRestoresQuota

CONSTANTS
    Links = {l1}
    Requests = {r1, r2}
    Owners = {}
    Policy <- MCRequestPolicy
    Faults = {}
    MaxResponse = 1
    MaxWork = 9
SPECIFICATION FairSpec
PROPERTY UsageCatchesUp

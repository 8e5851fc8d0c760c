CONSTANTS
    Links = {l1}
    Requests = {r1, r2}
    Owners = {o1}
    Policy <- MCCounterPolicy
    Faults = {}
    MaxResponse = 1
    MaxWork = 9
SPECIFICATION FairSpec
INVARIANT TrafficOverrun
INVARIANT ViolationOverrun
INVARIANT TerminationExplained
PROPERTY LimitTerminates
PROPERTY TerminatedDrains

CONSTANTS
    Links = {l1}
    Requests = {r1, r2}
    Owners = {}
    Policy <- MCPolicy
    Faults = {"crash", "redis"}
    MaxResponse = 0
    MaxWork = 3
SPECIFICATION Spec
SYMMETRY MCSymmetry
INVARIANT EveryViolationRecorded

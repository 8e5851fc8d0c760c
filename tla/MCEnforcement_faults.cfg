CONSTANTS
    Links = {l1}
    Requests = {r1, r2}
    Owners = {}
    Policy <- MCRequestPolicy
    Faults = {"io", "abort", "crash"}
    MaxResponse = 1
    MaxWork = 3
SPECIFICATION Spec
SYMMETRY MCSymmetry
INVARIANT TypeOK
INVARIANT QuotaOverrun
INVARIANT UsageInv
INVARIANT ReasonJustified
PROPERTY ImplementsGate

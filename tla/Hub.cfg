CONSTANTS
    l1 = l1
    l2 = l2
    s1 = s1
    s2 = s2
    Subscribers = {s1, s2}
    Links = {l1, l2}
    Owner <- MCOwner
    Caller <- MCCaller
    Filters <- MCFilters
    Buffer = 2
    MaxEvents = 3
    LookupFails = TRUE
SPECIFICATION StreamSpec
CHECK_DEADLOCK FALSE
INVARIANT HubTypeOK
INVARIANT NoSendOnClosed
INVARIANT OwnEventsOnly
INVARIANT FeedInOrder
PROPERTY PublishReturns
PROPERTY GoneReleased

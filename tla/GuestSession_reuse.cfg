CONSTANTS
    l1 = l1
    l2 = l2
    Requests = {r1, r2}
    Links = {l1, l2}
    Clients = {"firefox", "chrome", "phone"}
    IP <- MCIP
    Agent <- MCAgent
    Cookies <- MCCookies
    Tokens <- MCTokens
    Sent = {"Cookie", "Authorization", "X-Auth", "Accept"}
    Answered = {"Set-Cookie", "Content-Type"}
    MaxRequests = 3
    DBFails = TRUE
SPECIFICATION GuestSpec
SYMMETRY MCSymmetry
CHECK_DEADLOCK FALSE
INVARIANT GuestTypeOK
INVARIANT LogsOwnSession
INVARIANT OwnCredentialsOnly
INVARIANT GuestsBounded
 

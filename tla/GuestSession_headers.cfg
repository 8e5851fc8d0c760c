CONSTANTS
    l1 = l1
    l2 = l2
    Requests = {r1, r2}
    Links = {l1, l2}
    Clients = {"firefox", "chrome", "phone"}
    IP <- MCIP
    Agent <- MCAgent
    Cookies <- MCCookies
    Tokens <- MCTokens
    Sent = {"Cookie", "Authorization", "X-Auth", "Accept"}
    Answered = {"Set-Cookie", "Content-Type"}
    MaxRequests = 2
    DBFails = FALSE
SPECIFICATION GuestSpec
CHECK_DEADLOCK FALSE
INVARIANT GuestHeadersReplaced

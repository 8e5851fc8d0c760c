---------------------------- MODULE GuestSession ----------------------------
(***************************************************************************)
(* The way of a guest request through Handler.ServeHTTP: the guest and the *)
(* guest session (GuestRepo.GetOrCreate, resolveGuestSession), each a      *)
(* SELECT followed by an INSERT when nothing was found, with no constraint *)
(* in the schema that would stop two requests from inserting the same      *)
(* thing; the check of the limits, whose answer is free here; the owner's  *)
(* credentials, read in two statements; the reverse proxy, one instance    *)
(* for all requests, which gets them through the request's context; and    *)
(* the access-log row that carries the session.                            *)
(*                                                                         *)
(* Guests and sessions are numbered in the order of insertion, which is    *)
(* the order of first_seen_at and started_at.                              *)
(***************************************************************************)
EXTENDS Integers, Sequences, FiniteSets

CONSTANTS
    Requests,      \* requests served at the same time, at most
    Links,         \* shared links
    Clients,       \* what sends requests
    IP,            \* Clients -> address (clientIP)
    Agent,         \* Clients -> User-Agent
    Cookies,       \* Links -> cookies of the link's session, decrypted
    Tokens,        \* Links -> its tokens: pairs of a header and a value
    Sent,          \* names of the headers guests send
    Answered,      \* names of the headers target sites answer with
    MaxRequests,   \* bound: requests served
    DBFails        \* whether a statement may fail

ASSUME GuestAssumption ==
    /\ IsFiniteSet(Requests) /\ Requests # {}
    /\ DOMAIN IP = Clients /\ DOMAIN Agent = Clients
    /\ DOMAIN Cookies = Links /\ DOMAIN Tokens = Links
    /\ MaxRequests \in Nat
    /\ DBFails \in BOOLEAN

Addresses == {IP[c] : c \in Clients}
Agents == {Agent[c] : c \in Clients}

VARIABLES
    pc,        \* Requests -> where the handler is
    link,      \* Requests -> the link of the request
    client,    \* Requests -> who sent it
    guest,     \* Requests -> the guest it was assigned, None before
    session,   \* Requests -> the guest session it was assigned, None before
    plan,      \* Requests -> InjectionPlan: pairs of a header and a value
    upstream,  \* Requests -> headers of the request the target received
    reply,     \* Requests -> names of the headers the guest received
    guests,    \* table guests: a sequence of [ip, agent]
    sessions,  \* table guest_sessions: a sequence of [link, guest]
    logs,      \* proxy_access_logs: the set of [client, link, session]
    served     \* number of requests started

guestVars == <<pc, link, client, guest, session, plan, upstream, reply, guests,
               sessions, logs, served>>
forwarding == <<plan, upstream, reply>>
tables == <<guests, sessions, logs>>

None == 0

\* What GetOrCreate stores of a client: its address and its User-Agent (the
\* fingerprint is always empty).
RowOf(c) == [ip |-> IP[c], agent |-> Agent[c]]

\* The value of every header a guest sends.
OfGuest == "guest"

\* What BuildInjectionPlan makes of the rows of link l's session.
CookieHeaders(l) == {<<"Cookie", v>> : v \in Cookies[l]}
Credentials(l) == CookieHeaders(l) \cup Tokens[l]

\* The values of guests and owners can be told apart.
ASSUME CredentialAssumption ==
    \A l \in Links : \A h \in Credentials(l) : h[2] # OfGuest

Headers == {<<n, OfGuest>> : n \in Sent} \cup UNION {Credentials(l) : l \in Links}

identityHeaders == {"Set-Cookie", "Set-Cookie2", "Authorization", "X-Powered-By"}

GuestTypeOK ==
    /\ pc \in [Requests -> {"idle", "findGuest", "insertGuest", "findSession",
                            "insertSession", "check", "tokens", "forward",
                            "log"}]
    /\ link \in [Requests -> Links]
    /\ client \in [Requests -> Clients]
    /\ guests \in Seq([ip : Addresses, agent : Agents])
    /\ sessions \in Seq([link : Links, guest : DOMAIN guests])
    /\ guest \in [Requests -> DOMAIN guests \cup {None}]
    /\ session \in [Requests -> DOMAIN sessions \cup {None}]
    /\ plan \in [Requests -> SUBSET Headers]
    /\ upstream \in [Requests -> SUBSET Headers]
    /\ reply \in [Requests -> SUBSET Answered]
    /\ logs \subseteq [client : Clients, link : Links, session : DOMAIN sessions]
    /\ served \in 0..MaxRequests

GuestInit ==
    /\ pc = [r \in Requests |-> "idle"]
    /\ link \in [Requests -> Links]
    /\ client \in [Requests -> Clients]
    /\ guest = [r \in Requests |-> None]
    /\ session = [r \in Requests |-> None]
    /\ plan = [r \in Requests |-> {}]
    /\ upstream = [r \in Requests |-> {}]
    /\ reply = [r \in Requests |-> {}]
    /\ guests = <<>>
    /\ sessions = <<>>
    /\ logs = {}
    /\ served = 0

Goto(r, where) == pc' = [pc EXCEPT ![r] = where]

\* The newest of a set of rows, None if there is none: ORDER BY ... DESC LIMIT 1.
Newest(rows) ==
    IF rows = {} THEN None ELSE CHOOSE i \in rows : \A j \in rows : j <= i

\* The guests a client may be taken for: the query compares the address and
\* the fingerprint, and not the User-Agent.
GuestsAt(ip) == {g \in DOMAIN guests : guests[g].ip = ip}

\* The link is not part of the condition.
SessionsOfAnyLink(l, g) == {s \in DOMAIN sessions : sessions[s].guest = g}

\* Active sessions of guest g on link l (no session is ever terminated).
SessionsOf(l, g) ==
    {s \in DOMAIN sessions : sessions[s].link = l /\ sessions[s].guest = g}

-----------------------------------------------------------------------------

\* A request of client c for link l has passed the link lookup.
Arrive(r, c, l) ==
    /\ pc[r] = "idle"
    /\ served < MaxRequests
    /\ Goto(r, "findGuest")
    /\ client' = [client EXCEPT ![r] = c]
    /\ link' = [link EXCEPT ![r] = l]
    /\ served' = served + 1
    /\ UNCHANGED <<guest, session, tables, forwarding>>

\* GetOrCreate always inserts.
FindGuestNever(r) ==
    /\ pc[r] = "findGuest"
    /\ Goto(r, "insertGuest")
    /\ UNCHANGED <<link, client, guest, session, tables, served, forwarding>>

\* GetOrCreate forgets to insert.
FindGuestOnly(r) ==
    /\ pc[r] = "findGuest"
    /\ guest' = [guest EXCEPT ![r] = Newest(GuestsAt(IP[client[r]]))]
    /\ Goto(r, "findSession")
    /\ UNCHANGED <<link, client, session, tables, served, forwarding>>

\* GetOrCreate, SELECT (and the UPDATE of last_seen_at).
FindGuest(r) ==
    LET found == Newest(GuestsAt(IP[client[r]]))
    IN  /\ pc[r] = "findGuest"
        /\ guest' = [guest EXCEPT ![r] = found]
        /\ Goto(r, IF found = None THEN "insertGuest" ELSE "findSession")
        /\ UNCHANGED <<link, client, session, tables, served, forwarding>>

\* GetOrCreate, INSERT.
InsertGuest(r) ==
    /\ pc[r] = "insertGuest"
    /\ guests' = Append(guests, RowOf(client[r]))
    /\ guest' = [guest EXCEPT ![r] = Len(guests) + 1]
    /\ Goto(r, "findSession")
    /\ UNCHANGED <<link, client, session, sessions, logs, served, forwarding>>

\* resolveGuestSession, GetActiveByLinkAndGuest.
FindSession(r) ==
    LET found == Newest(SessionsOf(link[r], guest[r]))
    IN  /\ pc[r] = "findSession"
        /\ session' = [session EXCEPT ![r] = found]
        /\ Goto(r, IF found = None THEN "insertSession" ELSE "check")
        /\ UNCHANGED <<link, client, guest, tables, served, forwarding>>

\* resolveGuestSession, Create.
InsertSession(r) ==
    /\ pc[r] = "insertSession"
    /\ sessions' = Append(sessions, [link |-> link[r], guest |-> guest[r]])
    /\ session' = [session EXCEPT ![r] = Len(sessions) + 1]
    /\ Goto(r, "check")
    /\ UNCHANGED <<link, client, guest, guests, logs, served, forwarding>>

\* BeforeProxy refuses the request (403, 410, 429).
Refuse(r) ==
    /\ pc[r] = "check"
    /\ Goto(r, "log")
    /\ UNCHANGED <<link, client, guest, session, tables, served, forwarding>>

\* The plan is kept in the Handler, where every request finds it.
ReadCookiesShared(r) ==
    /\ pc[r] = "check"
    /\ plan' = [q \in Requests |-> CookieHeaders(link[r])]
    /\ Goto(r, "tokens")
    /\ UNCHANGED <<link, client, guest, session, upstream, reply, tables, served>>

\* BeforeProxy lets it pass.  BuildInjectionPlan: session_cookies of the link's
\* session.
ReadCookies(r) ==
    /\ pc[r] = "check"
    /\ plan' = [plan EXCEPT ![r] = CookieHeaders(link[r])]
    /\ Goto(r, "tokens")
    /\ UNCHANGED <<link, client, guest, session, upstream, reply, tables, served>>

\* BuildInjectionPlan: session_tokens of the link's session.
ReadTokens(r) ==
    /\ pc[r] = "tokens"
    /\ plan' = [plan EXCEPT ![r] = @ \cup Tokens[link[r]]]
    /\ Goto(r, "forward")
    /\ UNCHANGED <<link, client, guest, session, upstream, reply, tables, served>>

\* InjectionPlan.Apply: two headers are deleted, the plan is added.
Apply(headers, p) ==
    {h \in headers : h[1] \notin {"Cookie", "Authorization"}} \cup p

\* The reverse proxy: Rewrite, the target, and StripIdentityHeaders; or the
\* target cannot be reached, 502.
Forward(r) ==
    /\ pc[r] = "forward"
    /\ \/ /\ upstream' = [upstream EXCEPT
                ![r] = Apply({<<n, OfGuest>> : n \in Sent}, plan[r])]
          /\ reply' = [reply EXCEPT ![r] = Answered \ identityHeaders]
       \/ UNCHANGED <<upstream, reply>>
    /\ plan' = [plan EXCEPT ![r] = {}]
    /\ Goto(r, "log")
    /\ UNCHANGED <<link, client, guest, session, tables, served>>

\* The handler returns.
Return(r) ==
    /\ Goto(r, "idle")
    /\ guest' = [guest EXCEPT ![r] = None]
    /\ session' = [session EXCEPT ![r] = None]
    /\ plan' = [plan EXCEPT ![r] = {}]
    /\ upstream' = [upstream EXCEPT ![r] = {}]
    /\ reply' = [reply EXCEPT ![r] = {}]

\* The request has been refused or proxied (then TouchLastRequest): logAccess.
LogAccess(r) ==
    /\ pc[r] = "log"
    /\ logs' = logs \cup {[client |-> client[r], link |-> link[r],
                           session |-> session[r]]}
    /\ Return(r)
    /\ UNCHANGED <<link, client, guests, sessions, served>>

\* A statement fails (500), or the handler ends without a log row; an INSERT
\* that failed may have been applied.
Fail(r) ==
    /\ DBFails
    /\ pc[r] # "idle"
    /\ \/ UNCHANGED <<guests, sessions>>
       \/ /\ pc[r] = "insertGuest"
          /\ guests' = Append(guests, RowOf(client[r]))
          /\ UNCHANGED sessions
       \/ /\ pc[r] = "insertSession"
          /\ sessions' = Append(sessions, [link |-> link[r], guest |-> guest[r]])
          /\ UNCHANGED guests
    /\ Return(r)
    /\ UNCHANGED <<link, client, logs, served>>

GuestNext ==
    \E r \in Requests :
        \/ \E c \in Clients, l \in Links : Arrive(r, c, l)
        \/ FindGuest(r) \/ InsertGuest(r)
        \/ FindSession(r) \/ InsertSession(r)
        \/ Refuse(r) \/ ReadCookies(r) \/ ReadTokens(r) \/ Forward(r)
        \/ LogAccess(r) \/ Fail(r)

GuestSpec == GuestInit /\ [][GuestNext]_guestVars

-----------------------------------------------------------------------------
(* Properties.                                                             *)

\* A log row carries a session of its own link and of its own client's
\* address, whatever other requests inserted meanwhile: the foreign key of
\* proxy_access_logs never mixes two links or two addresses.
LogsOwnSession ==
    \A e \in logs :
        /\ sessions[e.session].link = e.link
        /\ guests[sessions[e.session].guest].ip = IP[e.client]

\* The target sees the link's own session: whatever other requests go through
\* the one reverse proxy and wherever a read fails, a request carries all
\* credentials of its own link and none of another, and neither the Cookie nor
\* the Authorization of the guest (BuildInjectionPlan, Apply).
OwnCredentialsOnly ==
    \A r \in Requests :
        /\ upstream[r] # {} =>
              {h \in upstream[r] : h[2] # OfGuest} = Credentials(link[r])
        /\ \A h \in upstream[r] :
              h[1] \in {"Cookie", "Authorization"} => h[2] # OfGuest

\* Guest rows that hold the address and the User-Agent of client c, and requests
\* that are about to insert one.
OwnGuests(c) == {g \in DOMAIN guests : guests[g] = RowOf(c)}
Inserting(c) == {r \in Requests : pc[r] = "insertGuest" /\ RowOf(client[r]) = RowOf(c)}

\* No unique constraint protects GetOrCreate, but only requests that were under
\* way together can duplicate a guest: no address and User-Agent have more rows
\* than requests can run at once, whether or not inserts fail half-way.
GuestsBounded ==
    \A c \in Clients :
        Cardinality(OwnGuests(c)) + Cardinality(Inserting(c)) <= Cardinality(Requests)

\* The newest row of c has a session on l, and no request is about to insert
\* another row of c, or works for an older one, or is about to insert another
\* session for it on l.
Known(c, l) ==
    /\ OwnGuests(c) # {}
    /\ SessionsOf(l, Newest(OwnGuests(c))) # {}
    /\ \A r \in Requests :
          /\ pc[r] = "insertGuest" => RowOf(client[r]) # RowOf(c)
          /\ guest[r] \in OwnGuests(c) =>
                /\ pc[r] = "findSession" => guest[r] = Newest(OwnGuests(c))
                /\ pc[r] = "insertSession" => link[r] # l

\* The sessions of c's rows on a link.
OwnSessions(c, l) ==
    {s \in DOMAIN sessions : sessions[s].link = l /\ sessions[s].guest \in OwnGuests(c)}

\* "a returning guest (reuse the guest_session [...])": once the race of its
\* first requests is over, a guest keeps its session on the link for good and no
\* further guest or session row is ever inserted for it, although guests of
\* another User-Agent share its address, race and are taken for it.
ReturningGuestReuses ==
    [][\A c \in Clients, l \in Links : Known(c, l) =>
          /\ Known(c, l)'
          /\ OwnSessions(c, l)' = OwnSessions(c, l)
          /\ OwnGuests(c)' = OwnGuests(c)]_guestVars

-----------------------------------------------------------------------------
(* What a comment of the code says, and the code does not do.              *)

\* Apply adds the plan's headers to the outgoing request, "replacing whatever the
\* guest sent": the target gets no value of the guest's in a header of the plan.
GuestHeadersReplaced ==
    \A r \in Requests : \A h \in upstream[r] :
        (\E k \in Credentials(link[r]) : k[1] = h[1]) => h[2] # OfGuest

=============================================================================

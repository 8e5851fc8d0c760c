------------------------- MODULE GuestSessionProofs -------------------------
(***************************************************************************)
(* Proofs about GuestSession, for any number of requests, links, clients,  *)
(* cookies and tokens: through the one reverse proxy a request carries the *)
(* credentials of its own link and of no other; a log row carries a        *)
(* session of its own link and address; an address and User-Agent have at  *)
(* most as many guests as there are requests at once, and once the race of *)
(* their first requests is over, never another one.                        *)
(***************************************************************************)
EXTENDS GuestSession, FiniteSetTheorems, SequenceTheorems, WellFoundedInduction,
        TLAPS

PCs == {"idle", "findGuest", "insertGuest", "findSession", "insertSession", "check",
        "tokens", "forward", "log"}

\* What a guest sends.
GuestHeaders == {<<n, OfGuest>> : n \in Sent}

\* The parts of the type invariant the proof needs.
Types ==
    /\ pc \in [Requests -> PCs]
    /\ link \in [Requests -> Links]
    /\ plan \in [Requests -> SUBSET Headers]
    /\ upstream \in [Requests -> SUBSET Headers]
    /\ reply \in [Requests -> SUBSET Answered]

\* A plan grows with the handler of its own request: first the cookies, then
\* all credentials of the link.
PlanInv ==
    \A r \in Requests :
        /\ pc[r] = "tokens" => plan[r] = CookieHeaders(link[r])
        /\ pc[r] = "forward" => plan[r] = Credentials(link[r])

\* Only a request that has been forwarded has reached a target, with its whole
\* plan; a request slot that is used again starts afresh.
SentInv ==
    \A r \in Requests :
        /\ pc[r] # "log" => upstream[r] = {}
        /\ upstream[r] # {} =>
              upstream[r] = Apply(GuestHeaders, Credentials(link[r]))

CredInv == Types /\ PlanInv /\ SentInv

-----------------------------------------------------------------------------

LEMMA CredInit == GuestInit => CredInv
<1> SUFFICES ASSUME GuestInit PROVE CredInv
  OBVIOUS
<1>1. Types
  BY DEF GuestInit, Types, PCs
<1>2. \A r \in Requests : pc[r] = "idle" /\ upstream[r] = {}
  BY DEF GuestInit
<1>. QED  BY <1>1, <1>2 DEF CredInv, PlanInv, SentInv

\* What a plan may hold, and what is made of it, are headers.
LEMMA PlansAreHeaders ==
    ASSUME NEW l \in Links
    PROVE  /\ CookieHeaders(l) \subseteq Headers
           /\ Credentials(l) \subseteq Headers
           /\ GuestHeaders \subseteq Headers
           /\ Apply(GuestHeaders, Credentials(l)) \subseteq Headers
<1>1. Credentials(l) \subseteq Headers
  BY DEF Headers
<1>2. CookieHeaders(l) \subseteq Headers
  BY <1>1 DEF Credentials
<1>3. GuestHeaders \subseteq Headers
  BY DEF Headers, GuestHeaders
<1>4. Apply(GuestHeaders, Credentials(l)) \subseteq Headers
  BY <1>1, <1>3 DEF Apply
<1>. QED  BY <1>1, <1>2, <1>3, <1>4

\* A step that leaves what was planned and sent alone, and leads neither to the
\* tokens nor to the reverse proxy.
LEMMA PlainStep ==
    ASSUME CredInv, NEW r \in Requests, NEW where \in PCs,
           Goto(r, where),
           where # "tokens", where # "forward", pc[r] # "log",
           UNCHANGED <<link, plan, upstream, reply>>
    PROVE  CredInv'
BY DEF CredInv, Types, PlanInv, SentInv, Goto

LEMMA ReturnStep ==
    ASSUME CredInv, NEW r \in Requests, Return(r), UNCHANGED link
    PROVE  CredInv'
<1>1. Types'
  BY DEF CredInv, Types, PCs, Return, Goto
<1>2. pc'[r] = "idle" /\ upstream'[r] = {} /\ reply'[r] = {}
  BY DEF CredInv, Types, Return, Goto
<1>3. \A q \in Requests \ {r} : pc'[q] = pc[q] /\ plan'[q] = plan[q]
                               /\ upstream'[q] = upstream[q] /\ reply'[q] = reply[q]
  BY DEF CredInv, Types, Return, Goto
<1>. QED  BY <1>1, <1>2, <1>3 DEF CredInv, PlanInv, SentInv

LEMMA CredStep == CredInv /\ [GuestNext]_guestVars => CredInv'
<1> SUFFICES ASSUME CredInv, [GuestNext]_guestVars PROVE CredInv'
  OBVIOUS
<1> USE DEF forwarding, tables, PCs
<1>1. CASE UNCHANGED guestVars
  BY <1>1 DEF CredInv, Types, PlanInv, SentInv, guestVars
<1>2. ASSUME NEW r \in Requests, NEW c \in Clients, NEW l \in Links, Arrive(r, c, l)
      PROVE  CredInv'
  <2>1. /\ pc[r] = "idle" /\ pc' = [pc EXCEPT ![r] = "findGuest"]
        /\ link' = [link EXCEPT ![r] = l]
        /\ UNCHANGED <<plan, upstream, reply>>
    BY <1>2 DEF Arrive, Goto
  <2>. QED  BY <2>1 DEF CredInv, Types, PlanInv, SentInv
<1>3. ASSUME NEW r \in Requests, FindGuest(r) PROVE CredInv'
  <2>1. PICK where \in {"insertGuest", "findSession"} : Goto(r, where)
    BY <1>3 DEF FindGuest
  <2>2. pc[r] = "findGuest" /\ UNCHANGED <<link, plan, upstream, reply>>
    BY <1>3 DEF FindGuest
  <2>. QED  BY <2>1, <2>2, PlainStep
<1>4. ASSUME NEW r \in Requests, InsertGuest(r) PROVE CredInv'
  <2>1. /\ pc[r] = "insertGuest" /\ Goto(r, "findSession")
        /\ UNCHANGED <<link, plan, upstream, reply>>
    BY <1>4 DEF InsertGuest
  <2>. QED  BY <2>1, PlainStep
<1>5. ASSUME NEW r \in Requests, FindSession(r) PROVE CredInv'
  <2>1. PICK where \in {"insertSession", "check"} : Goto(r, where)
    BY <1>5 DEF FindSession
  <2>2. pc[r] = "findSession" /\ UNCHANGED <<link, plan, upstream, reply>>
    BY <1>5 DEF FindSession
  <2>. QED  BY <2>1, <2>2, PlainStep
<1>6. ASSUME NEW r \in Requests, InsertSession(r) PROVE CredInv'
  <2>1. /\ pc[r] = "insertSession" /\ Goto(r, "check")
        /\ UNCHANGED <<link, plan, upstream, reply>>
    BY <1>6 DEF InsertSession
  <2>. QED  BY <2>1, PlainStep
<1>7. ASSUME NEW r \in Requests, Refuse(r) PROVE CredInv'
  <2>1. /\ pc[r] = "check" /\ Goto(r, "log")
        /\ UNCHANGED <<link, plan, upstream, reply>>
    BY <1>7 DEF Refuse
  <2>. QED  BY <2>1, PlainStep
<1>8. ASSUME NEW r \in Requests, ReadCookies(r) PROVE CredInv'
  <2>1. CookieHeaders(link[r]) \subseteq Headers
    BY PlansAreHeaders DEF CredInv, Types
  <2>2. /\ pc[r] = "check" /\ pc' = [pc EXCEPT ![r] = "tokens"]
        /\ plan' = [plan EXCEPT ![r] = CookieHeaders(link[r])]
        /\ UNCHANGED <<link, upstream, reply>>
    BY <1>8 DEF ReadCookies, Goto
  <2>. QED  BY <2>1, <2>2 DEF CredInv, Types, PlanInv, SentInv
<1>9. ASSUME NEW r \in Requests, ReadTokens(r) PROVE CredInv'
  <2>1. Credentials(link[r]) \subseteq Headers
    BY PlansAreHeaders DEF CredInv, Types
  <2>2. plan[r] \cup Tokens[link[r]] = Credentials(link[r])
    BY <1>9 DEF CredInv, PlanInv, ReadTokens, Credentials
  <2>3. /\ pc[r] = "tokens" /\ pc' = [pc EXCEPT ![r] = "forward"]
        /\ plan' = [plan EXCEPT ![r] = Credentials(link[r])]
        /\ UNCHANGED <<link, upstream, reply>>
    BY <1>9, <2>2 DEF ReadTokens, Goto, CredInv, Types
  <2>. QED  BY <2>1, <2>3 DEF CredInv, Types, PlanInv, SentInv
<1>10. ASSUME NEW r \in Requests, Forward(r) PROVE CredInv'
  <2> DEFINE sent == Apply(GuestHeaders, Credentials(link[r]))
  <2>1. sent \subseteq Headers
    BY PlansAreHeaders DEF CredInv, Types
  <2>2. plan[r] = Credentials(link[r])
    BY <1>10 DEF CredInv, PlanInv, Forward
  <2>3. /\ pc[r] = "forward" /\ pc' = [pc EXCEPT ![r] = "log"]
        /\ plan' = [plan EXCEPT ![r] = {}]
        /\ UNCHANGED link
    BY <1>10 DEF Forward, Goto
  <2>4. \/ /\ upstream' = [upstream EXCEPT ![r] = sent]
           /\ reply' = [reply EXCEPT ![r] = Answered \ identityHeaders]
        \/ UNCHANGED <<upstream, reply>>
    BY <1>10, <2>2 DEF Forward, GuestHeaders
  <2> HIDE DEF sent
  <2>5. Types'
    BY <2>1, <2>3, <2>4 DEF CredInv, Types
  <2>6. PlanInv'
    BY <2>3 DEF CredInv, Types, PlanInv
  <2>7. SentInv'
    BY <2>3, <2>4 DEF CredInv, Types, SentInv, sent
  <2>. QED  BY <2>5, <2>6, <2>7 DEF CredInv
<1>11. ASSUME NEW r \in Requests, LogAccess(r) PROVE CredInv'
  BY <1>11, ReturnStep DEF LogAccess
<1>12. ASSUME NEW r \in Requests, Fail(r) PROVE CredInv'
  BY <1>12, ReturnStep DEF Fail
<1>. QED
  BY <1>1, <1>2, <1>3, <1>4, <1>5, <1>6, <1>7, <1>8, <1>9, <1>10, <1>11, <1>12
     DEF GuestNext

LEMMA CredSuffices == CredInv => OwnCredentialsOnly
<1> SUFFICES ASSUME CredInv, NEW r \in Requests
    PROVE  /\ upstream[r] # {} =>
                 {h \in upstream[r] : h[2] # OfGuest} = Credentials(link[r])
           /\ \A h \in upstream[r] :
                 h[1] \in {"Cookie", "Authorization"} => h[2] # OfGuest
  BY DEF OwnCredentialsOnly
<1>1. link[r] \in Links
  BY DEF CredInv, Types
<1>2. \A h \in Credentials(link[r]) : h[2] # OfGuest
  BY <1>1, CredentialAssumption
<1>3. \A h \in GuestHeaders : h[2] = OfGuest
  BY DEF GuestHeaders
<1>4. upstream[r] = {} \/ upstream[r] = Apply(GuestHeaders, Credentials(link[r]))
  BY DEF CredInv, SentInv
<1>5. CASE upstream[r] = Apply(GuestHeaders, Credentials(link[r]))
  BY <1>2, <1>3, <1>5 DEF Apply, CredInv, SentInv
<1>6. CASE upstream[r] = {}
  BY <1>6 DEF CredInv, SentInv
<1>. QED  BY <1>4, <1>5, <1>6

\* A request carries all credentials of its own link, none of another link's and
\* neither cookies nor authorization of the guest (BuildInjectionPlan, Apply).
THEOREM OwnCredentialsTheorem == GuestSpec => []OwnCredentialsOnly
<1>. QED  BY CredInit, CredStep, CredSuffices, PTL DEF GuestSpec

-----------------------------------------------------------------------------
(* The rows: what SELECT and INSERT do to the tables.                      *)

\* A bounded set of row numbers has a largest one.
LEMMA LargestExists ==
    ASSUME NEW n \in Nat, NEW rows \in SUBSET (1..n), rows # {}
    PROVE  \E i \in rows : \A j \in rows : j <= i
<1> DEFINE Less == OpToRel(<, Nat)
           below == {k \in Nat : n - k \in rows}
<1>1. \E k \in below : \A m \in below : ~ (<<m, k>> \in Less)
  <2>1. PICK i \in rows : TRUE
    OBVIOUS
  <2>2. n - i \in below
    OBVIOUS
  <2>3. IsWellFoundedOn(Less, Nat)
    BY NatLessThanWellFounded, Zenon
  <2> HIDE DEF Less
  <2>4. below \subseteq Nat /\ below # {}
    BY <2>2
  <2> HIDE DEF below
  <2>. QED  BY <2>3, <2>4, WFMin
<1>2. PICK k \in below : \A m \in below : ~ (m < k)
  BY <1>1 DEF OpToRel
<1>3. \A j \in rows : n - j \in below
  OBVIOUS
<1>4. n - k \in rows /\ \A j \in rows : j <= n - k
  BY <1>2, <1>3
<1>. QED  BY <1>4

\* ORDER BY ... DESC LIMIT 1 answers with a row, and with none only if there is
\* none.
LEMMA NewestOfRows ==
    ASSUME NEW n \in Nat, NEW rows \in SUBSET (1..n)
    PROVE  /\ rows # {} => /\ Newest(rows) \in rows /\ Newest(rows) # None
                           /\ \A j \in rows : j <= Newest(rows)
           /\ rows = {} => Newest(rows) = None
<1>1. CASE rows = {}
  BY <1>1 DEF Newest
<1>2. CASE rows # {}
  <2>1. \E i \in rows : \A j \in rows : j <= i
    BY <1>2, LargestExists
  <2>2. Newest(rows) \in rows /\ \A j \in rows : j <= Newest(rows)
    BY <1>2, <2>1 DEF Newest
  <2>3. \A i \in rows : i # None
    BY DEF None
  <2>. QED  BY <1>2, <2>2, <2>3
<1>. QED  BY <1>1, <1>2

Guests == [ip : Addresses, agent : Agents]

\* Where a handler has its guest, and where it has its session too.
WithGuest == {"findSession", "insertSession", "check", "tokens", "forward", "log"}
WithSession == {"check", "tokens", "forward", "log"}

\* The types of the tables and of what the handlers hold, stated so that the
\* range of a row number is an interval.
RowTypes ==
    /\ pc \in [Requests -> PCs]
    /\ link \in [Requests -> Links]
    /\ client \in [Requests -> Clients]
    /\ guests \in Seq(Guests)
    /\ sessions \in Seq([link : Links, guest : Nat])
    /\ \A s \in 1..Len(sessions) : sessions[s].guest \in 1..Len(guests)
    /\ guest \in [Requests -> Nat]
    /\ \A r \in Requests : guest[r] \in 0..Len(guests)
    /\ session \in [Requests -> Nat]
    /\ \A r \in Requests : session[r] \in 0..Len(sessions)
    /\ logs \subseteq [client : Clients, link : Links, session : Nat]
    /\ \A e \in logs : e.session \in 1..Len(sessions)
    /\ served \in 0..MaxRequests

\* A handler that has a guest has one of its client's address, and a handler
\* that has a session has the one of its link and guest.
OwnRows ==
    \A r \in Requests :
        /\ pc[r] \in WithGuest =>
              /\ guest[r] \in 1..Len(guests)
              /\ guests[guest[r]].ip = IP[client[r]]
        /\ pc[r] \in WithSession =>
              /\ session[r] \in 1..Len(sessions)
              /\ sessions[session[r]].link = link[r]
              /\ sessions[session[r]].guest = guest[r]

RowInv == RowTypes /\ OwnRows /\ LogsOwnSession

LEMMA RowInit == GuestInit => RowInv
<1> SUFFICES ASSUME GuestInit PROVE RowInv
  OBVIOUS
<1>1. guests = <<>> /\ sessions = <<>> /\ logs = {}
  BY DEF GuestInit
<1>2. RowTypes
  BY <1>1, GuestAssumption DEF GuestInit, RowTypes, PCs, None
<1>3. OwnRows
  BY DEF GuestInit, OwnRows, WithGuest, WithSession
<1>4. LogsOwnSession
  BY <1>1 DEF LogsOwnSession
<1>. QED  BY <1>2, <1>3, <1>4 DEF RowInv

\* Rows are only appended.
LEMMA AppendedRow ==
    ASSUME NEW S, NEW table \in Seq(S), NEW row \in S
    PROVE  LET longer == Append(table, row)
           IN  /\ longer \in Seq(S)
               /\ Len(longer) = Len(table) + 1
               /\ \A i \in 1..Len(table) : longer[i] = table[i]
               /\ longer[Len(table) + 1] = row
OBVIOUS

\* The guest row of a client.
LEMMA ClientRow ==
    ASSUME NEW c \in Clients
    PROVE  RowOf(c) \in Guests /\ RowOf(c).ip = IP[c]
BY DEF RowOf, Guests, Addresses, Agents

\* What a step keeps of the tables, whoever takes it.
RowsKept ==
    /\ guests' \in Seq(Guests)
    /\ sessions' \in Seq([link : Links, guest : Nat])
    /\ Len(guests) <= Len(guests') /\ Len(sessions) <= Len(sessions')
    /\ \A g \in 1..Len(guests) : guests'[g] = guests[g]
    /\ \A s \in 1..Len(sessions) : sessions'[s] = sessions[s]
    /\ \A s \in 1..Len(sessions') : sessions'[s].guest \in 1..Len(guests')

LEMMA UnchangedRows ==
    ASSUME RowTypes, UNCHANGED <<guests, sessions>>
    PROVE  RowsKept
BY DEF RowTypes, RowsKept

LEMMA GuestRowAdded ==
    ASSUME RowTypes, NEW r \in Requests, UNCHANGED sessions,
           guests' = Append(guests, RowOf(client[r]))
    PROVE  /\ RowsKept
           /\ Len(guests') = Len(guests) + 1
           /\ guests'[Len(guests')].ip = IP[client[r]]
<1> DEFINE row == RowOf(client[r])
<1>1. row \in Guests /\ row.ip = IP[client[r]]
  BY ClientRow DEF RowTypes
<1>2. guests \in Seq(Guests) /\ guests' = Append(guests, row)
  BY DEF RowTypes
<1> HIDE DEF row
<1>3. /\ guests' \in Seq(Guests)
      /\ Len(guests') = Len(guests) + 1
      /\ \A i \in 1..Len(guests) : guests'[i] = guests[i]
      /\ guests'[Len(guests) + 1] = row
  BY <1>1, <1>2, AppendedRow
<1>. QED  BY <1>1, <1>3 DEF RowTypes, RowsKept

LEMMA SessionRowAdded ==
    ASSUME RowTypes, NEW r \in Requests, guest[r] \in 1..Len(guests), UNCHANGED guests,
           sessions' = Append(sessions, [link |-> link[r], guest |-> guest[r]])
    PROVE  /\ RowsKept
           /\ Len(sessions') = Len(sessions) + 1
           /\ sessions'[Len(sessions')].link = link[r]
           /\ sessions'[Len(sessions')].guest = guest[r]
<1> DEFINE row == [link |-> link[r], guest |-> guest[r]]
           S == [link : Links, guest : Nat]
<1>1. row \in S /\ row.link = link[r] /\ row.guest = guest[r]
  BY DEF RowTypes
<1>2. sessions \in Seq(S) /\ sessions' = Append(sessions, row)
  BY DEF RowTypes
<1>3. guests \in Seq(Guests)
  BY DEF RowTypes
<1>4. \A s \in 1..Len(sessions) : sessions[s].guest \in 1..Len(guests)
  BY DEF RowTypes
<1> HIDE DEF row, S
<1>5. /\ sessions' \in Seq(S)
      /\ Len(sessions') = Len(sessions) + 1
      /\ \A i \in 1..Len(sessions) : sessions'[i] = sessions[i]
      /\ sessions'[Len(sessions) + 1] = row
  BY <1>1, <1>2, AppendedRow
<1>6. \A s \in 1..Len(sessions') : sessions'[s].guest \in 1..Len(guests')
  BY <1>1, <1>2, <1>4, <1>5
<1>. QED  BY <1>1, <1>2, <1>3, <1>5, <1>6 DEF RowsKept, S

\* Request r moves to where, with guest g, session s, client c and link l; the
\* rows it holds there are its own, and what it logs is what it held.
RowMove(r, where, g, s, c, l) ==
    /\ where \in PCs /\ Goto(r, where)
    /\ g \in 0..Len(guests') /\ guest' = [guest EXCEPT ![r] = g]
    /\ s \in 0..Len(sessions') /\ session' = [session EXCEPT ![r] = s]
    /\ c \in Clients /\ client' = [client EXCEPT ![r] = c]
    /\ l \in Links /\ link' = [link EXCEPT ![r] = l]
    /\ where \in WithGuest => g # 0 /\ guests'[g].ip = IP[c]
    /\ where \in WithSession =>
          s # 0 /\ sessions'[s].link = l /\ sessions'[s].guest = g
    /\ \/ logs' = logs
       \/ /\ pc[r] = "log"
          /\ logs' = logs \cup {[client |-> client[r], link |-> link[r],
                                 session |-> session[r]]}
    /\ served' \in 0..MaxRequests

LEMMA RowStep ==
    ASSUME RowInv, RowsKept, NEW r \in Requests, NEW where, NEW g, NEW s, NEW c, NEW l,
           RowMove(r, where, g, s, c, l)
    PROVE  RowInv'
<1> USE DEF RowMove
<1>1. Len(guests) \in Nat /\ Len(sessions) \in Nat
      /\ Len(guests') \in Nat /\ Len(sessions') \in Nat
  BY DEF RowInv, RowTypes, RowsKept
<1>2. \A q \in Requests \ {r} :
          /\ pc'[q] = pc[q] /\ guest'[q] = guest[q] /\ session'[q] = session[q]
          /\ client'[q] = client[q] /\ link'[q] = link[q]
  BY DEF RowInv, RowTypes, Goto
<1>3. /\ pc'[r] = where /\ guest'[r] = g /\ session'[r] = s
      /\ client'[r] = c /\ link'[r] = l
  BY DEF RowInv, RowTypes, Goto
<1>4. /\ pc' \in [Requests -> PCs] /\ link' \in [Requests -> Links]
      /\ client' \in [Requests -> Clients]
  BY DEF RowInv, RowTypes, Goto
<1>5. /\ guest' \in [Requests -> Nat]
      /\ \A q \in Requests : guest'[q] \in 0..Len(guests')
  <2>1. \A q \in Requests : guest[q] \in 0..Len(guests')
    BY <1>1 DEF RowInv, RowTypes, RowsKept
  <2>2. guest \in [Requests -> Nat] /\ guest' = [guest EXCEPT ![r] = g]
        /\ g \in 0..Len(guests')
    BY DEF RowInv, RowTypes
  <2>. QED  BY <1>1, <2>1, <2>2
<1>6. /\ session' \in [Requests -> Nat]
      /\ \A q \in Requests : session'[q] \in 0..Len(sessions')
  <2>1. \A q \in Requests : session[q] \in 0..Len(sessions')
    BY <1>1 DEF RowInv, RowTypes, RowsKept
  <2>2. session \in [Requests -> Nat] /\ session' = [session EXCEPT ![r] = s]
        /\ s \in 0..Len(sessions')
    BY DEF RowInv, RowTypes
  <2>. QED  BY <1>1, <2>1, <2>2
<1>7. \A e \in logs : /\ e \in [client : Clients, link : Links, session : Nat]
                      /\ e.session \in 1..Len(sessions)
                      /\ sessions[e.session].guest \in 1..Len(guests)
                      /\ sessions[e.session].link = e.link
                      /\ guests[sessions[e.session].guest].ip = IP[e.client]
  <2>1. \A e \in logs : /\ e \in [client : Clients, link : Links, session : Nat]
                        /\ e.session \in 1..Len(sessions)
    BY DEF RowInv, RowTypes
  <2>2. \A t \in 1..Len(sessions) : sessions[t].guest \in 1..Len(guests)
    BY DEF RowInv, RowTypes
  <2>3. \A e \in logs : /\ sessions[e.session].link = e.link
                        /\ guests[sessions[e.session].guest].ip = IP[e.client]
    BY DEF RowInv, LogsOwnSession
  <2>. QED  BY <2>1, <2>2, <2>3
<1>8. \A e \in logs' : /\ e \in [client : Clients, link : Links, session : Nat]
                       /\ e.session \in 1..Len(sessions)
                       /\ sessions[e.session].guest \in 1..Len(guests)
                       /\ sessions[e.session].link = e.link
                       /\ guests[sessions[e.session].guest].ip = IP[e.client]
  <2>1. CASE logs' = logs
    BY <1>7, <2>1
  <2>2. CASE logs' # logs
    <3> DEFINE row == [client |-> client[r], link |-> link[r], session |-> session[r]]
    <3>1. pc[r] = "log" /\ logs' = logs \cup {row}
      BY <2>2
    <3>2. /\ row \in [client : Clients, link : Links, session : Nat]
          /\ row.session = session[r] /\ row.link = link[r] /\ row.client = client[r]
      BY DEF RowInv, RowTypes
    <3> HIDE DEF row
    <3>3. /\ session[r] \in 1..Len(sessions)
          /\ sessions[session[r]].link = link[r]
          /\ sessions[session[r]].guest = guest[r]
          /\ guest[r] \in 1..Len(guests)
          /\ guests[guest[r]].ip = IP[client[r]]
      BY <3>1 DEF RowInv, OwnRows, WithGuest, WithSession
    <3>. QED  BY <1>7, <3>1, <3>2, <3>3
  <2>. QED  BY <2>1, <2>2
<1>9. RowTypes'
  <2>1. /\ guests' \in Seq(Guests)
        /\ sessions' \in Seq([link : Links, guest : Nat])
        /\ \A t \in 1..Len(sessions') : sessions'[t].guest \in 1..Len(guests')
    BY DEF RowsKept
  <2>2. /\ logs' \subseteq [client : Clients, link : Links, session : Nat]
        /\ \A e \in logs' : e.session \in 1..Len(sessions')
    BY <1>1, <1>8 DEF RowsKept
  <2>. QED  BY <1>4, <1>5, <1>6, <2>1, <2>2 DEF RowTypes
<1>10. OwnRows'
  <2>1. ASSUME NEW q \in Requests, q # r
        PROVE  /\ pc'[q] \in WithGuest =>
                     /\ guest'[q] \in 1..Len(guests')
                     /\ guests'[guest'[q]].ip = IP[client'[q]]
               /\ pc'[q] \in WithSession =>
                     /\ session'[q] \in 1..Len(sessions')
                     /\ sessions'[session'[q]].link = link'[q]
                     /\ sessions'[session'[q]].guest = guest'[q]
    <3>1. /\ pc[q] \in WithGuest => /\ guest[q] \in 1..Len(guests)
                                    /\ guests[guest[q]].ip = IP[client[q]]
          /\ pc[q] \in WithSession => /\ session[q] \in 1..Len(sessions)
                                      /\ sessions[session[q]].link = link[q]
                                      /\ sessions[session[q]].guest = guest[q]
      BY DEF RowInv, OwnRows
    <3>2. /\ \A i \in 1..Len(guests) : i \in 1..Len(guests') /\ guests'[i] = guests[i]
          /\ \A i \in 1..Len(sessions) : /\ i \in 1..Len(sessions')
                                         /\ sessions'[i] = sessions[i]
      BY <1>1 DEF RowsKept
    <3>3. /\ pc'[q] = pc[q] /\ guest'[q] = guest[q] /\ session'[q] = session[q]
          /\ client'[q] = client[q] /\ link'[q] = link[q]
      BY <1>2, <2>1
    <3>. QED  BY <3>1, <3>2, <3>3
  <2>2. /\ pc'[r] \in WithGuest =>
              /\ guest'[r] \in 1..Len(guests')
              /\ guests'[guest'[r]].ip = IP[client'[r]]
        /\ pc'[r] \in WithSession =>
              /\ session'[r] \in 1..Len(sessions')
              /\ sessions'[session'[r]].link = link'[r]
              /\ sessions'[session'[r]].guest = guest'[r]
    BY <1>1, <1>3
  <2>. QED  BY <2>1, <2>2 DEF OwnRows, WithGuest, WithSession
<1>11. LogsOwnSession'
  BY <1>1, <1>8 DEF LogsOwnSession, RowsKept
<1>. QED  BY <1>9, <1>10, <1>11 DEF RowInv

\* Writing back what is there changes nothing.
LEMMA Rewritten ==
    ASSUME RowTypes, NEW r \in Requests
    PROVE  /\ guest = [guest EXCEPT ![r] = guest[r]]
           /\ session = [session EXCEPT ![r] = session[r]]
           /\ client = [client EXCEPT ![r] = client[r]]
           /\ link = [link EXCEPT ![r] = link[r]]
           /\ guest[r] \in 0..Len(guests) /\ session[r] \in 0..Len(sessions)
           /\ client[r] \in Clients /\ link[r] \in Links
BY DEF RowTypes

\* A handler that has its session goes on with it.
LEMMA GoOnStep ==
    ASSUME RowInv, NEW r \in Requests, NEW where \in WithSession, Goto(r, where),
           pc[r] \in WithSession,
           UNCHANGED <<link, client, guest, session, guests, sessions, logs, served>>
    PROVE  RowInv'
<1>1. RowsKept
  BY UnchangedRows DEF RowInv
<1>2. /\ guest[r] \in 1..Len(guests) /\ guests[guest[r]].ip = IP[client[r]]
      /\ session[r] \in 1..Len(sessions)
      /\ sessions[session[r]].link = link[r] /\ sessions[session[r]].guest = guest[r]
  BY DEF RowInv, OwnRows, WithGuest, WithSession
<1>3. where \in PCs
  BY DEF WithSession, PCs
<1>4. served' \in 0..MaxRequests
  BY DEF RowInv, RowTypes
<1>5. RowMove(r, where, guest[r], session[r], client[r], link[r])
  BY <1>2, <1>3, <1>4, Rewritten DEF RowInv, RowMove
<1>. QED  BY <1>1, <1>5, RowStep

\* A handler that returns lets go of its rows.
LEMMA LetGoStep ==
    ASSUME RowInv, RowsKept, NEW r \in Requests, Return(r),
           UNCHANGED <<link, client, served>>,
           \/ logs' = logs
           \/ /\ pc[r] = "log"
              /\ logs' = logs \cup {[client |-> client[r], link |-> link[r],
                                     session |-> session[r]]}
    PROVE  RowInv'
<1>1. /\ Goto(r, "idle") /\ "idle" \in PCs
      /\ "idle" \notin WithGuest /\ "idle" \notin WithSession
  BY DEF Return, PCs, WithGuest, WithSession
<1>2. /\ guest' = [guest EXCEPT ![r] = 0] /\ session' = [session EXCEPT ![r] = 0]
      /\ 0 \in 0..Len(guests') /\ 0 \in 0..Len(sessions')
  BY DEF Return, None, RowsKept
<1>3. served' \in 0..MaxRequests
  BY DEF RowInv, RowTypes
<1>4. RowMove(r, "idle", 0, 0, client[r], link[r])
  BY <1>1, <1>2, <1>3, Rewritten DEF RowInv, RowMove
<1>. QED  BY <1>4, RowStep

\* The answers of the two queries.
LEMMA FoundGuest ==
    ASSUME RowTypes, NEW ip
    PROVE  LET found == Newest(GuestsAt(ip))
           IN  /\ GuestsAt(ip) \subseteq 1..Len(guests)
               /\ found \in 0..Len(guests)
               /\ GuestsAt(ip) # {} => found # None /\ found \in GuestsAt(ip)
               /\ GuestsAt(ip) = {} => found = None
<1>1. DOMAIN guests = 1..Len(guests) /\ Len(guests) \in Nat
  BY DEF RowTypes
<1>2. GuestsAt(ip) \in SUBSET (1..Len(guests))
  BY <1>1 DEF GuestsAt
<1> DEFINE rows == GuestsAt(ip)
<1>3. rows \in SUBSET (1..Len(guests))
  BY <1>2
<1> HIDE DEF rows
<1>4. /\ rows # {} => Newest(rows) \in rows /\ Newest(rows) # None
      /\ rows = {} => Newest(rows) = None
  BY <1>1, <1>3, NewestOfRows
<1>5. Newest(rows) \in 0..Len(guests)
  <2>1. CASE rows = {}
    BY <1>1, <1>4, <2>1 DEF None
  <2>2. CASE rows # {}
    <3>1. \A i \in rows : i \in 0..Len(guests)
      BY <1>1, <1>3
    <3>. QED  BY <1>4, <2>2, <3>1
  <2>. QED  BY <2>1, <2>2
<1>. QED  BY <1>2, <1>4, <1>5 DEF rows

LEMMA FoundSession ==
    ASSUME RowTypes, NEW l, NEW g
    PROVE  LET found == Newest(SessionsOf(l, g))
           IN  /\ SessionsOf(l, g) \subseteq 1..Len(sessions)
               /\ found \in 0..Len(sessions)
               /\ SessionsOf(l, g) # {} => found # None /\ found \in SessionsOf(l, g)
               /\ SessionsOf(l, g) = {} => found = None
<1>1. DOMAIN sessions = 1..Len(sessions) /\ Len(sessions) \in Nat
  BY DEF RowTypes
<1>2. SessionsOf(l, g) \in SUBSET (1..Len(sessions))
  BY <1>1 DEF SessionsOf
<1> DEFINE rows == SessionsOf(l, g)
<1>3. rows \in SUBSET (1..Len(sessions))
  BY <1>2
<1> HIDE DEF rows
<1>4. /\ rows # {} => Newest(rows) \in rows /\ Newest(rows) # None
      /\ rows = {} => Newest(rows) = None
  BY <1>1, <1>3, NewestOfRows
<1>5. Newest(rows) \in 0..Len(sessions)
  <2>1. CASE rows = {}
    BY <1>1, <1>4, <2>1 DEF None
  <2>2. CASE rows # {}
    <3>1. \A i \in rows : i \in 0..Len(sessions)
      BY <1>1, <1>3
    <3>. QED  BY <1>4, <2>2, <3>1
  <2>. QED  BY <2>1, <2>2
<1>. QED  BY <1>2, <1>4, <1>5 DEF rows

LEMMA RowNext == RowInv /\ [GuestNext]_guestVars => RowInv'
<1> SUFFICES ASSUME RowInv, [GuestNext]_guestVars PROVE RowInv'
  OBVIOUS
<1>0. RowTypes /\ Len(guests) \in Nat /\ Len(sessions) \in Nat
  BY DEF RowInv, RowTypes
<1>1. CASE UNCHANGED guestVars
  BY <1>1 DEF RowInv, RowTypes, OwnRows, LogsOwnSession, guestVars
<1>2. ASSUME NEW r \in Requests, NEW c \in Clients, NEW l \in Links, Arrive(r, c, l)
      PROVE  RowInv'
  <2>1. /\ Goto(r, "findGuest") /\ client' = [client EXCEPT ![r] = c]
        /\ link' = [link EXCEPT ![r] = l] /\ logs' = logs
        /\ UNCHANGED <<guest, session, guests, sessions>>
    BY <1>2 DEF Arrive, tables
  <2>2. served' \in 0..MaxRequests
    BY <1>0, <1>2, GuestAssumption DEF Arrive, RowTypes
  <2>3. RowsKept
    BY <1>0, <2>1, UnchangedRows
  <2>4. "findGuest" \in PCs /\ "findGuest" \notin WithGuest /\ "findGuest" \notin WithSession
    BY DEF PCs, WithGuest, WithSession
  <2>5. /\ guest' = [guest EXCEPT ![r] = guest[r]]
        /\ session' = [session EXCEPT ![r] = session[r]]
        /\ guest[r] \in 0..Len(guests') /\ session[r] \in 0..Len(sessions')
    BY <1>0, <2>1, Rewritten
  <2>6. RowMove(r, "findGuest", guest[r], session[r], c, l)
    BY <2>1, <2>2, <2>4, <2>5 DEF RowMove
  <2>. QED  BY <2>6, <2>3, RowStep
<1>3. ASSUME NEW r \in Requests, FindGuest(r) PROVE RowInv'
  <2> DEFINE found == Newest(GuestsAt(IP[client[r]]))
             where == IF found = None THEN "insertGuest" ELSE "findSession"
  <2>1. /\ Goto(r, where) /\ guest' = [guest EXCEPT ![r] = found] /\ logs' = logs
        /\ UNCHANGED <<link, client, session, guests, sessions, served>>
    BY <1>3 DEF FindGuest, tables
  <2>2. served' \in 0..MaxRequests
    BY <1>0, <2>1 DEF RowTypes
  <2>3. RowsKept
    BY <1>0, <2>1, UnchangedRows
  <2>4. /\ found \in 0..Len(guests)
        /\ found # None => guests[found].ip = IP[client[r]]
    BY <1>0, FoundGuest DEF GuestsAt
  <2>5. where \in PCs /\ where \notin WithSession /\ (where \in WithGuest => found # None)
    BY DEF PCs, WithGuest, WithSession
  <2> HIDE DEF found, where
  <2>6. where \in WithGuest => found # 0 /\ guests'[found].ip = IP[client[r]]
    BY <2>1, <2>4, <2>5 DEF None
  <2>7. /\ session' = [session EXCEPT ![r] = session[r]]
        /\ client' = [client EXCEPT ![r] = client[r]]
        /\ link' = [link EXCEPT ![r] = link[r]]
        /\ client[r] \in Clients /\ link[r] \in Links
        /\ found \in 0..Len(guests') /\ session[r] \in 0..Len(sessions')
    BY <1>0, <2>1, <2>4, Rewritten
  <2>8. RowMove(r, where, found, session[r], client[r], link[r])
    BY <2>1, <2>2, <2>5, <2>6, <2>7 DEF RowMove
  <2>. QED  BY <2>8, <2>3, RowStep
<1>4. ASSUME NEW r \in Requests, InsertGuest(r) PROVE RowInv'
  <2>1. /\ Goto(r, "findSession") /\ guest' = [guest EXCEPT ![r] = Len(guests) + 1]
        /\ guests' = Append(guests, RowOf(client[r]))
        /\ logs' = logs
        /\ UNCHANGED <<link, client, session, sessions, served>>
    BY <1>4 DEF InsertGuest
  <2>2. served' \in 0..MaxRequests
    BY <1>0, <2>1 DEF RowTypes
  <2>3. /\ RowsKept /\ Len(guests') = Len(guests) + 1
        /\ guests'[Len(guests')].ip = IP[client[r]]
    BY <1>0, <2>1, GuestRowAdded
  <2>4. "findSession" \in PCs /\ "findSession" \notin WithSession
    BY DEF PCs, WithSession
  <2>5. /\ guest' = [guest EXCEPT ![r] = Len(guests')]
        /\ Len(guests') \in 0..Len(guests') /\ Len(guests') # 0
    BY <1>0, <2>1, <2>3
  <2>6. /\ session' = [session EXCEPT ![r] = session[r]]
        /\ client' = [client EXCEPT ![r] = client[r]]
        /\ link' = [link EXCEPT ![r] = link[r]]
        /\ client[r] \in Clients /\ link[r] \in Links
        /\ session[r] \in 0..Len(sessions')
    BY <1>0, <2>1, Rewritten
  <2>7. RowMove(r, "findSession", Len(guests'), session[r], client[r], link[r])
    BY <2>1, <2>2, <2>3, <2>4, <2>5, <2>6 DEF RowMove
  <2>. QED  BY <2>7, <2>3, RowStep
<1>5. ASSUME NEW r \in Requests, FindSession(r) PROVE RowInv'
  <2> DEFINE found == Newest(SessionsOf(link[r], guest[r]))
             where == IF found = None THEN "insertSession" ELSE "check"
  <2>1. /\ Goto(r, where) /\ session' = [session EXCEPT ![r] = found] /\ logs' = logs
        /\ UNCHANGED <<link, client, guest, guests, sessions, served>>
    BY <1>5 DEF FindSession, tables
  <2>2. served' \in 0..MaxRequests
    BY <1>0, <2>1 DEF RowTypes
  <2>3. RowsKept
    BY <1>0, <2>1, UnchangedRows
  <2>4. /\ found \in 0..Len(sessions)
        /\ found # None => /\ sessions[found].link = link[r]
                           /\ sessions[found].guest = guest[r]
    <3>1. /\ found \in 0..Len(sessions)
          /\ found # None => found \in SessionsOf(link[r], guest[r])
      BY <1>0, FoundSession
    <3>. QED  BY <3>1 DEF SessionsOf
  <2>5. where \in PCs /\ (where \in WithSession => found # None)
    BY DEF PCs, WithSession
  <2>6. guest[r] # 0 /\ guests[guest[r]].ip = IP[client[r]]
    BY <1>0, <1>5 DEF RowInv, OwnRows, WithGuest, FindSession
  <2> HIDE DEF found, where
  <2>7. where \in WithSession => /\ found # 0
                                 /\ sessions'[found].link = link[r]
                                 /\ sessions'[found].guest = guest[r]
    BY <2>1, <2>4, <2>5 DEF None
  <2>8. /\ guest' = [guest EXCEPT ![r] = guest[r]]
        /\ client' = [client EXCEPT ![r] = client[r]]
        /\ link' = [link EXCEPT ![r] = link[r]]
        /\ client[r] \in Clients /\ link[r] \in Links
        /\ guest[r] \in 0..Len(guests') /\ found \in 0..Len(sessions')
        /\ guests'[guest[r]].ip = IP[client[r]]
    BY <1>0, <2>1, <2>4, <2>6, Rewritten
  <2>9. RowMove(r, where, guest[r], found, client[r], link[r])
    BY <2>1, <2>2, <2>5, <2>6, <2>7, <2>8 DEF RowMove
  <2>. QED  BY <2>9, <2>3, RowStep
<1>6. ASSUME NEW r \in Requests, InsertSession(r) PROVE RowInv'
  <2>1. /\ Goto(r, "check") /\ session' = [session EXCEPT ![r] = Len(sessions) + 1]
        /\ sessions' = Append(sessions, [link |-> link[r], guest |-> guest[r]])
        /\ logs' = logs
        /\ UNCHANGED <<link, client, guest, guests, served>>
    BY <1>6 DEF InsertSession
  <2>2. served' \in 0..MaxRequests
    BY <1>0, <2>1 DEF RowTypes
  <2>3. guest[r] \in 1..Len(guests) /\ guests[guest[r]].ip = IP[client[r]]
    BY <1>6 DEF RowInv, OwnRows, WithGuest, InsertSession
  <2>4. /\ RowsKept /\ Len(sessions') = Len(sessions) + 1
        /\ sessions'[Len(sessions')].link = link[r]
        /\ sessions'[Len(sessions')].guest = guest[r]
    BY <1>0, <2>1, <2>3, SessionRowAdded
  <2>5. "check" \in PCs
    BY DEF PCs
  <2>6. /\ session' = [session EXCEPT ![r] = Len(sessions')]
        /\ Len(sessions') \in 0..Len(sessions') /\ Len(sessions') # 0
    BY <1>0, <2>1, <2>4
  <2>7. /\ guest' = [guest EXCEPT ![r] = guest[r]]
        /\ client' = [client EXCEPT ![r] = client[r]]
        /\ link' = [link EXCEPT ![r] = link[r]]
        /\ client[r] \in Clients /\ link[r] \in Links
        /\ guest[r] \in 0..Len(guests') /\ guest[r] # 0
        /\ guests'[guest[r]].ip = IP[client[r]]
    BY <1>0, <2>1, <2>3, Rewritten
  <2>8. RowMove(r, "check", guest[r], Len(sessions'), client[r], link[r])
    BY <2>1, <2>2, <2>4, <2>5, <2>6, <2>7 DEF RowMove
  <2>. QED  BY <2>8, <2>4, RowStep
<1>7. ASSUME NEW r \in Requests,
             Refuse(r) \/ ReadCookies(r) \/ ReadTokens(r) \/ Forward(r)
      PROVE  RowInv'
  <2>1. PICK where \in WithSession : Goto(r, where)
    BY <1>7 DEF Refuse, ReadCookies, ReadTokens, Forward, WithSession
  <2>2. /\ pc[r] \in WithSession
        /\ UNCHANGED <<link, client, guest, session, guests, sessions, logs, served>>
    BY <1>7 DEF Refuse, ReadCookies, ReadTokens, Forward, WithSession, tables
  <2>. QED  BY <2>1, <2>2, GoOnStep
<1>8. ASSUME NEW r \in Requests, LogAccess(r) PROVE RowInv'
  <2>1. RowsKept
    BY <1>0, <1>8, UnchangedRows DEF LogAccess
  <2>. QED  BY <1>8, <2>1, LetGoStep DEF LogAccess
<1>9. ASSUME NEW r \in Requests, Fail(r) PROVE RowInv'
  <2>1. pc[r] = "insertSession" => guest[r] \in 1..Len(guests)
    BY DEF RowInv, OwnRows, WithGuest
  <2>2. RowsKept
    BY <1>0, <1>9, <2>1, UnchangedRows, GuestRowAdded, SessionRowAdded DEF Fail
  <2>. QED  BY <1>9, <2>2, LetGoStep DEF Fail
<1>. QED
  BY <1>1, <1>2, <1>3, <1>4, <1>5, <1>6, <1>7, <1>8, <1>9 DEF GuestNext

\* Tables, handlers and what they forward always have their types.
THEOREM GuestTypeTheorem == GuestSpec => []GuestTypeOK
<1>1. RowInv /\ CredInv => GuestTypeOK
  <2> SUFFICES ASSUME RowTypes, Types PROVE GuestTypeOK
    BY DEF RowInv, CredInv
  <2>1. DOMAIN guests = 1..Len(guests) /\ DOMAIN sessions = 1..Len(sessions)
    BY DEF RowTypes
  <2>2. sessions \in Seq([link : Links, guest : DOMAIN guests])
    <3>1. sessions \in Seq([link : Links, guest : Nat])
      BY DEF RowTypes
    <3>2. /\ sessions \in [1..Len(sessions) -> [link : Links, guest : Nat]]
          /\ Len(sessions) \in Nat
      BY <3>1, LenProperties, Zenon
    <3>3. \A s \in 1..Len(sessions) : sessions[s].guest \in DOMAIN guests
      BY <2>1 DEF RowTypes
    <3>4. sessions \in [1..Len(sessions) -> [link : Links, guest : DOMAIN guests]]
      BY <3>2, <3>3
    <3> DEFINE S == [link : Links, guest : DOMAIN guests]
    <3> HIDE DEF S
    <3>5. sessions \in [1..Len(sessions) -> S]
      BY <3>4 DEF S
    <3>6. sessions \in Seq(S)
      BY <3>2, <3>5, SeqDef
    <3>. QED  BY <3>6 DEF S
  <2>3. /\ guest \in [Requests -> DOMAIN guests \cup {None}]
        /\ session \in [Requests -> DOMAIN sessions \cup {None}]
    BY <2>1 DEF RowTypes, None
  <2>4. logs \subseteq [client : Clients, link : Links, session : DOMAIN sessions]
    BY <2>1 DEF RowTypes
  <2>. QED  BY <2>2, <2>3, <2>4 DEF GuestTypeOK, RowTypes, Types, Guests, PCs
<1>. QED  BY <1>1, RowInit, RowNext, CredInit, CredStep, PTL DEF GuestSpec

\* A log row carries a session of its own link and of its own client's address,
\* whatever other requests inserted between the SELECT and the INSERT of its
\* handler (resolveGuestSession, logAccess).
THEOREM LogsOwnSessionTheorem == GuestSpec => []LogsOwnSession
<1>1. RowInv => LogsOwnSession
  BY DEF RowInv
<1>. QED  BY <1>1, RowInit, RowNext, PTL DEF GuestSpec

-----------------------------------------------------------------------------
(* How many rows an address may have, whatever the User-Agents.            *)

InsertingAt(ip) == {r \in Requests : pc[r] = "insertGuest" /\ IP[client[r]] = ip}

\* The sets that are counted are finite.
LEMMA Counted ==
    ASSUME RowTypes, NEW ip
    PROVE  /\ IsFiniteSet(GuestsAt(ip)) /\ Cardinality(GuestsAt(ip)) \in Nat
           /\ IsFiniteSet(InsertingAt(ip)) /\ Cardinality(InsertingAt(ip)) \in Nat
           /\ Cardinality(InsertingAt(ip)) <= Cardinality(Requests)
           /\ Cardinality(Requests) \in Nat
<1>1. IsFiniteSet(1..Len(guests))
  <2>1. Len(guests) \in Int
    BY DEF RowTypes
  <2>. QED  BY <2>1, FS_Interval
<1>2. GuestsAt(ip) \in SUBSET (1..Len(guests))
  BY FoundGuest
<1>3. IsFiniteSet(GuestsAt(ip))
  BY <1>1, <1>2, FS_Subset
<1>4. IsFiniteSet(Requests) /\ InsertingAt(ip) \in SUBSET Requests
  BY GuestAssumption DEF InsertingAt
<1>5. IsFiniteSet(InsertingAt(ip)) /\ Cardinality(InsertingAt(ip)) <= Cardinality(Requests)
  BY <1>4, FS_Subset
<1>. QED  BY <1>3, <1>4, <1>5, FS_CardinalityType

Bounded(ip) ==
    Cardinality(GuestsAt(ip)) + Cardinality(InsertingAt(ip)) <= Cardinality(Requests)

AddressesBounded == \A ip \in Addresses : Bounded(ip)

\* The three ways a step may go: nothing is inserted or announced; a row is
\* inserted that was announced; a row is announced where there was none.
LEMMA NothingInserted ==
    ASSUME RowTypes, NEW ip, Bounded(ip), GuestsAt(ip)' = GuestsAt(ip),
           InsertingAt(ip)' \subseteq InsertingAt(ip)
    PROVE  Bounded(ip)'
<1> DEFINE before == InsertingAt(ip)
           after == InsertingAt(ip)'
           rows == GuestsAt(ip)
           more == GuestsAt(ip)'
<1>1. /\ IsFiniteSet(before) /\ after \in SUBSET before /\ more = rows
      /\ Cardinality(before) \in Nat /\ Cardinality(rows) \in Nat
      /\ Cardinality(Requests) \in Nat
      /\ Cardinality(rows) + Cardinality(before) <= Cardinality(Requests)
  BY Counted DEF Bounded
<1> SUFFICES Cardinality(more) + Cardinality(after) <= Cardinality(Requests)
  BY DEF Bounded
<1> HIDE DEF before, after, rows, more
<1>2. /\ IsFiniteSet(after) /\ Cardinality(after) <= Cardinality(before)
  BY <1>1, FS_Subset
<1>3. Cardinality(after) \in Nat
  BY <1>2, FS_CardinalityType
<1>. QED  BY <1>1, <1>2, <1>3

LEMMA AnnouncedInserted ==
    ASSUME RowTypes, NEW ip, Bounded(ip), NEW r \in InsertingAt(ip), NEW g,
           GuestsAt(ip)' = GuestsAt(ip) \cup {g},
           InsertingAt(ip)' = InsertingAt(ip) \ {r}
    PROVE  Bounded(ip)'
<1> DEFINE before == InsertingAt(ip)
           after == InsertingAt(ip)'
           rows == GuestsAt(ip)
           more == GuestsAt(ip)'
<1>1. /\ IsFiniteSet(before) /\ after = before \ {r} /\ r \in before
      /\ IsFiniteSet(rows) /\ more = rows \cup {g}
      /\ Cardinality(before) \in Nat /\ Cardinality(rows) \in Nat
      /\ Cardinality(Requests) \in Nat
      /\ Cardinality(rows) + Cardinality(before) <= Cardinality(Requests)
  BY Counted DEF Bounded
<1> SUFFICES Cardinality(more) + Cardinality(after) <= Cardinality(Requests)
  BY DEF Bounded
<1> HIDE DEF before, after, rows, more
<1>2. Cardinality(after) = Cardinality(before) - 1
  BY <1>1, FS_RemoveElement
<1>3. Cardinality(more) \in {Cardinality(rows), Cardinality(rows) + 1}
  BY <1>1, FS_AddElement
<1>. QED  BY <1>1, <1>2, <1>3

LEMMA FirstAnnounced ==
    ASSUME NEW ip, GuestsAt(ip)' = {}
    PROVE  Bounded(ip)'
<1> DEFINE after == InsertingAt(ip)'
<1>1. IsFiniteSet(Requests) /\ after \in SUBSET Requests
  BY GuestAssumption DEF InsertingAt
<1> SUFFICES Cardinality({}) + Cardinality(after) <= Cardinality(Requests)
  BY DEF Bounded
<1> HIDE DEF after
<1>2. IsFiniteSet(after) /\ Cardinality(after) <= Cardinality(Requests)
  BY <1>1, FS_Subset
<1>3. Cardinality(after) \in Nat /\ Cardinality(Requests) \in Nat /\ Cardinality({}) = 0
  BY <1>1, <1>2, FS_CardinalityType, FS_EmptySet
<1>. QED  BY <1>2, <1>3

\* A guest row of one address leaves the others alone.
LEMMA GuestsAtAfterInsert ==
    ASSUME RowTypes, NEW r \in Requests, UNCHANGED sessions,
           guests' = Append(guests, RowOf(client[r])),
           NEW ip
    PROVE  GuestsAt(ip)' = IF IP[client[r]] = ip THEN GuestsAt(ip) \cup {Len(guests) + 1}
                                                 ELSE GuestsAt(ip)
<1>1. /\ RowsKept /\ Len(guests') = Len(guests) + 1
      /\ guests'[Len(guests')].ip = IP[client[r]]
  BY GuestRowAdded
<1>2. /\ DOMAIN guests = 1..Len(guests) /\ DOMAIN guests' = 1..Len(guests')
      /\ Len(guests) \in Nat
  BY <1>1 DEF RowTypes, RowsKept
<1>3. \A g \in 1..Len(guests) : guests'[g] = guests[g]
  BY <1>1 DEF RowsKept
<1>. QED  BY <1>1, <1>2, <1>3 DEF GuestsAt

LEMMA BoundInit == GuestInit => AddressesBounded
<1> SUFFICES ASSUME GuestInit, NEW ip \in Addresses PROVE Bounded(ip)
  BY DEF AddressesBounded, Bounded
<1>1. GuestsAt(ip) = {} /\ InsertingAt(ip) = {}
  BY DEF GuestInit, GuestsAt, InsertingAt
<1>2. Cardinality(Requests) \in Nat
  BY GuestAssumption, FS_CardinalityType
<1>. QED  BY <1>1, <1>2, FS_EmptySet DEF Bounded

\* Who announces an insertion after a step of request r.
LEMMA InsertingAfter ==
    ASSUME RowTypes, NEW r \in Requests, NEW where, Goto(r, where), NEW ip,
           \A q \in Requests \ {r} : client'[q] = client[q]
    PROVE  /\ where # "insertGuest" => InsertingAt(ip)' = InsertingAt(ip) \ {r}
           /\ where = "insertGuest" /\ IP[client'[r]] # ip =>
                 InsertingAt(ip)' = InsertingAt(ip) \ {r}
<1>1. /\ pc'[r] = where /\ \A q \in Requests \ {r} : pc'[q] = pc[q]
  BY DEF RowTypes, Goto
<1>. QED  BY <1>1 DEF InsertingAt

LEMMA BoundStep == RowInv /\ AddressesBounded /\ [GuestNext]_guestVars => AddressesBounded'
<1> SUFFICES ASSUME RowInv, AddressesBounded, [GuestNext]_guestVars, NEW ip \in Addresses
    PROVE  Bounded(ip)'
  BY DEF AddressesBounded, Bounded
<1>1. RowTypes /\ Bounded(ip)
  BY DEF RowInv, AddressesBounded, Bounded
<1>2. CASE UNCHANGED guestVars
  <2>1. GuestsAt(ip)' = GuestsAt(ip) /\ InsertingAt(ip)' = InsertingAt(ip)
    BY <1>2 DEF guestVars, GuestsAt, InsertingAt
  <2>. QED  BY <1>1, <2>1, NothingInserted
<1>3. ASSUME NEW r \in Requests, NEW where, Goto(r, where), where # "insertGuest",
             \A q \in Requests \ {r} : client'[q] = client[q], UNCHANGED guests
      PROVE  Bounded(ip)'
  <2>1. GuestsAt(ip)' = GuestsAt(ip)
    BY <1>3 DEF GuestsAt
  <2>2. InsertingAt(ip)' \subseteq InsertingAt(ip)
    BY <1>1, <1>3, InsertingAfter
  <2>. QED  BY <1>1, <2>1, <2>2, NothingInserted
<1>4. ASSUME NEW r \in Requests, NEW where, Goto(r, where), where # "insertGuest",
             UNCHANGED <<client, sessions>>, pc[r] = "insertGuest",
             guests' = Append(guests, RowOf(client[r]))
      PROVE  Bounded(ip)'
  <2>1. InsertingAt(ip)' = InsertingAt(ip) \ {r}
    BY <1>1, <1>4, InsertingAfter
  <2>2. CASE IP[client[r]] = ip
    <3>1. GuestsAt(ip)' = GuestsAt(ip) \cup {Len(guests) + 1}
      BY <1>1, <1>4, <2>2, GuestsAtAfterInsert
    <3>2. r \in InsertingAt(ip)
      BY <1>4, <2>2 DEF InsertingAt
    <3>. QED  BY <1>1, <2>1, <3>1, <3>2, AnnouncedInserted
  <2>3. CASE IP[client[r]] # ip
    <3>1. GuestsAt(ip)' = GuestsAt(ip)
      BY <1>1, <1>4, <2>3, GuestsAtAfterInsert
    <3>. QED  BY <1>1, <2>1, <3>1, NothingInserted
  <2>. QED  BY <2>2, <2>3
<1>5. ASSUME NEW r \in Requests, NEW c \in Clients, NEW l \in Links, Arrive(r, c, l)
      PROVE  Bounded(ip)'
  <2>1. /\ Goto(r, "findGuest") /\ UNCHANGED guests
        /\ \A q \in Requests \ {r} : client'[q] = client[q]
    BY <1>1, <1>5 DEF Arrive, RowTypes, tables
  <2>. QED  BY <1>3, <2>1
<1>6. ASSUME NEW r \in Requests, FindGuest(r) PROVE Bounded(ip)'
  <2> DEFINE found == Newest(GuestsAt(IP[client[r]]))
  <2>1. /\ Goto(r, IF found = None THEN "insertGuest" ELSE "findSession")
        /\ UNCHANGED <<client, guests>>
    BY <1>6 DEF FindGuest, tables
  <2>2. GuestsAt(ip)' = GuestsAt(ip)
    BY <2>1 DEF GuestsAt
  <2>3. found = None => GuestsAt(IP[client[r]]) = {}
    BY <1>1, FoundGuest
  <2> HIDE DEF found
  <2>4. CASE found = None /\ IP[client[r]] = ip
    BY <2>2, <2>3, <2>4, FirstAnnounced
  <2>5. CASE found = None /\ IP[client[r]] # ip
    <3>1. Goto(r, "insertGuest") /\ IP[client'[r]] # ip
      BY <2>1, <2>5
    <3>2. InsertingAt(ip)' \subseteq InsertingAt(ip)
      BY <1>1, <2>1, <3>1, InsertingAfter
    <3>. QED  BY <1>1, <2>2, <3>2, NothingInserted
  <2>6. CASE found # None
    <3>1. Goto(r, "findSession")
      BY <2>1, <2>6
    <3>. QED  BY <1>3, <2>1, <3>1
  <2>. QED  BY <2>4, <2>5, <2>6
<1>7. ASSUME NEW r \in Requests, InsertGuest(r) PROVE Bounded(ip)'
  BY <1>4, <1>7 DEF InsertGuest
<1>8. ASSUME NEW r \in Requests, FindSession(r) PROVE Bounded(ip)'
  <2>1. PICK where \in {"insertSession", "check"} : Goto(r, where)
    BY <1>8 DEF FindSession
  <2>2. UNCHANGED <<client, guests>>
    BY <1>8 DEF FindSession, tables
  <2>. QED  BY <1>3, <2>1, <2>2
<1>9. ASSUME NEW r \in Requests,
             \/ InsertSession(r) \/ Refuse(r) \/ ReadCookies(r) \/ ReadTokens(r)
             \/ Forward(r)
      PROVE  Bounded(ip)'
  <2>1. PICK where \in {"check", "log", "tokens", "forward"} : Goto(r, where)
    BY <1>9 DEF InsertSession, Refuse, ReadCookies, ReadTokens, Forward
  <2>2. UNCHANGED <<client, guests>>
    BY <1>9 DEF InsertSession, Refuse, ReadCookies, ReadTokens, Forward, tables
  <2>. QED  BY <1>3, <2>1, <2>2
<1>10. ASSUME NEW r \in Requests, LogAccess(r) PROVE Bounded(ip)'
  BY <1>3, <1>10 DEF LogAccess, Return
<1>11. ASSUME NEW r \in Requests, Fail(r) PROVE Bounded(ip)'
  <2>1. Goto(r, "idle") /\ UNCHANGED client
    BY <1>11 DEF Fail, Return
  <2>2. CASE UNCHANGED guests
    BY <1>3, <2>1, <2>2
  <2>3. CASE ~ UNCHANGED guests
    BY <1>4, <1>11, <2>1, <2>3 DEF Fail
  <2>. QED  BY <2>2, <2>3
<1>. QED
  BY <1>2, <1>5, <1>6, <1>7, <1>8, <1>9, <1>10, <1>11 DEF GuestNext

\* The rows of a client are among those of its address.
LEMMA BoundSuffices == RowInv /\ AddressesBounded => GuestsBounded
<1> SUFFICES ASSUME RowInv, AddressesBounded, NEW c \in Clients
    PROVE  Cardinality(OwnGuests(c)) + Cardinality(Inserting(c)) <= Cardinality(Requests)
  BY DEF GuestsBounded
<1> DEFINE rows == GuestsAt(IP[c])
           more == InsertingAt(IP[c])
<1>1. RowTypes /\ Bounded(IP[c])
  BY DEF RowInv, AddressesBounded, Addresses
<1>2. /\ IsFiniteSet(rows) /\ Cardinality(rows) \in Nat
      /\ IsFiniteSet(more) /\ Cardinality(more) \in Nat
      /\ Cardinality(Requests) \in Nat
      /\ Cardinality(rows) + Cardinality(more) <= Cardinality(Requests)
  BY <1>1, Counted DEF Bounded
<1>3. OwnGuests(c) \in SUBSET rows /\ Inserting(c) \in SUBSET more
  <2>1. ASSUME NEW d, RowOf(d) = RowOf(c) PROVE IP[d] = IP[c]
    BY <2>1 DEF RowOf
  <2>2. RowOf(c).ip = IP[c]
    BY ClientRow
  <2>. QED  BY <2>1, <2>2 DEF OwnGuests, Inserting, GuestsAt, InsertingAt
<1> HIDE DEF rows, more
<1>4. /\ IsFiniteSet(OwnGuests(c)) /\ Cardinality(OwnGuests(c)) <= Cardinality(rows)
      /\ IsFiniteSet(Inserting(c)) /\ Cardinality(Inserting(c)) <= Cardinality(more)
  BY <1>2, <1>3, FS_Subset
<1>5. Cardinality(OwnGuests(c)) \in Nat /\ Cardinality(Inserting(c)) \in Nat
  BY <1>4, FS_CardinalityType
<1>. QED  BY <1>2, <1>4, <1>5

\* No unique constraint protects GetOrCreate, yet no address and User-Agent have
\* more guest rows, inserted or about to be, than requests can run at once;
\* whether or not a failed INSERT was applied.
THEOREM GuestsBoundedTheorem == GuestSpec => []GuestsBounded
<1>. QED
  BY BoundInit, BoundStep, BoundSuffices, RowInit, RowNext, PTL DEF GuestSpec

-----------------------------------------------------------------------------
(* Once the race of the first requests is over.                            *)

\* What a step keeps for a client that is known on a link.
Reused(c, l) ==
    /\ Known(c, l)'
    /\ OwnSessions(c, l)' = OwnSessions(c, l)
    /\ OwnGuests(c)' = OwnGuests(c)

\* No handler is about to insert a row for the client that would be a second.
Settled(c, l) ==
    \A r \in Requests :
        /\ pc[r] = "insertGuest" => RowOf(client[r]) # RowOf(c)
        /\ guest[r] \in OwnGuests(c) =>
              /\ pc[r] = "findSession" => guest[r] = Newest(OwnGuests(c))
              /\ pc[r] = "insertSession" => link[r] # l

\* If the newest row of an address is a row of client c, it is the newest of
\* them.
LEMMA FoundOwn ==
    ASSUME RowTypes, NEW c \in Clients, NEW ip, OwnGuests(c) # {},
           Newest(GuestsAt(ip)) \in OwnGuests(c)
    PROVE  Newest(GuestsAt(ip)) = Newest(OwnGuests(c))
<1> DEFINE rows == GuestsAt(ip)
           own == OwnGuests(c)
<1>1. DOMAIN guests = 1..Len(guests) /\ Len(guests) \in Nat
  BY DEF RowTypes
<1>2. rows \in SUBSET (1..Len(guests)) /\ own \in SUBSET (1..Len(guests))
  BY <1>1 DEF GuestsAt, OwnGuests
<1>3. rows # {}
  BY <1>1, FoundGuest DEF OwnGuests, None
<1>4. own \subseteq rows
  <2>1. Newest(rows) \in rows
    BY <1>3, FoundGuest
  <2>. QED  BY <2>1 DEF GuestsAt, OwnGuests
<1>5. own # {} /\ Newest(rows) \in own
  OBVIOUS
<1> HIDE DEF rows, own
<1>6. /\ Newest(rows) \in rows /\ \A j \in rows : j <= Newest(rows)
      /\ Newest(own) \in own /\ \A j \in own : j <= Newest(own)
  BY <1>1, <1>2, <1>3, <1>5, NewestOfRows
<1>7. Newest(rows) <= Newest(own) /\ Newest(own) <= Newest(rows)
  BY <1>4, <1>5, <1>6
<1>8. Newest(rows) \in Int /\ Newest(own) \in Int
  <2>1. \A i \in 1..Len(guests) : i \in Int
    BY <1>1
  <2>2. Newest(rows) \in 1..Len(guests) /\ Newest(own) \in 1..Len(guests)
    BY <1>2, <1>6
  <2>. QED  BY <2>1, <2>2
<1>. QED  BY <1>7, <1>8 DEF rows, own

LEMMA KnownStep ==
    ASSUME RowInv, NEW c, NEW l, Known(c, l), RowsKept,
           OwnGuests(c)' = OwnGuests(c), OwnSessions(c, l)' = OwnSessions(c, l),
           Settled(c, l)'
    PROVE  Reused(c, l)
<1> DEFINE newest == Newest(OwnGuests(c))
<1>1. OwnGuests(c) # {} /\ SessionsOf(l, newest) # {}
  BY DEF Known
<1>2. /\ DOMAIN sessions = 1..Len(sessions) /\ DOMAIN sessions' = 1..Len(sessions')
      /\ Len(sessions) \in Nat /\ Len(sessions') \in Nat
  BY DEF RowInv, RowTypes, RowsKept
<1>3. Newest(OwnGuests(c)') = newest
  OBVIOUS
<1> HIDE DEF newest
<1>4. PICK s \in 1..Len(sessions) : sessions[s].link = l /\ sessions[s].guest = newest
  BY <1>1, <1>2 DEF SessionsOf
<1>5. s \in 1..Len(sessions') /\ sessions'[s] = sessions[s]
  BY <1>2 DEF RowsKept
<1>6. {t \in DOMAIN sessions' : sessions'[t].link = l /\ sessions'[t].guest = newest} # {}
  BY <1>2, <1>4, <1>5
<1>. QED  BY <1>1, <1>3, <1>6 DEF Reused, Known, Settled, SessionsOf

\* A handler that moves on keeps within what is settled.
LEMMA SettledStep ==
    ASSUME RowInv, NEW c, NEW l, Known(c, l), NEW r \in Requests, NEW where,
           Goto(r, where), OwnGuests(c)' = OwnGuests(c),
           \A q \in Requests \ {r} : /\ client'[q] = client[q]
                                     /\ guest'[q] = guest[q] /\ link'[q] = link[q],
           where = "insertGuest" => RowOf(client'[r]) # RowOf(c),
           guest'[r] \in OwnGuests(c) =>
               /\ where = "findSession" => guest'[r] = Newest(OwnGuests(c))
               /\ where = "insertSession" => link'[r] # l
    PROVE  Settled(c, l)'
<1>1. pc'[r] = where /\ \A q \in Requests \ {r} : pc'[q] = pc[q]
  BY DEF RowInv, RowTypes, Goto
<1>2. Newest(OwnGuests(c)') = Newest(OwnGuests(c))
  OBVIOUS
<1>3. Settled(c, l)
  BY DEF Known, Settled
<1>4. RowOf(c)' = RowOf(c) /\ \A q \in Requests : RowOf(client[q])' = RowOf(client'[q])
  BY DEF RowOf
<1> SUFFICES ASSUME NEW q \in Requests
    PROVE  /\ pc'[q] = "insertGuest" => RowOf(client'[q]) # RowOf(c)
           /\ guest'[q] \in OwnGuests(c) =>
                 /\ pc'[q] = "findSession" => guest'[q] = Newest(OwnGuests(c))
                 /\ pc'[q] = "insertSession" => link'[q] # l
  BY <1>2, <1>4 DEF Settled
<1>5. CASE q = r
  BY <1>1, <1>5
<1>6. CASE q # r
  <2>1. pc'[q] = pc[q] /\ client'[q] = client[q] /\ guest'[q] = guest[q] /\ link'[q] = link[q]
    BY <1>1, <1>6
  <2>. QED  BY <1>3, <2>1 DEF Settled
<1>. QED  BY <1>5, <1>6

\* Sessions on the link, when only guest rows of others are inserted or none.
LEMMA OwnSessionsKept ==
    ASSUME UNCHANGED sessions, NEW c, NEW l, OwnGuests(c)' = OwnGuests(c)
    PROVE  OwnSessions(c, l)' = OwnSessions(c, l)
BY DEF OwnSessions

\* A step that inserts no row.
LEMMA NoRowStep ==
    ASSUME RowInv, UNCHANGED <<guests, sessions>>, NEW c, NEW l, Known(c, l),
           NEW r \in Requests, NEW where, Goto(r, where),
           \A q \in Requests \ {r} : /\ client'[q] = client[q]
                                     /\ guest'[q] = guest[q] /\ link'[q] = link[q],
           where = "insertGuest" => RowOf(client'[r]) # RowOf(c),
           guest'[r] \in OwnGuests(c) =>
               /\ where = "findSession" => guest'[r] = Newest(OwnGuests(c))
               /\ where = "insertSession" => link'[r] # l
    PROVE  Reused(c, l)
<1>1. RowsKept
  BY UnchangedRows DEF RowInv
<1>2. OwnGuests(c)' = OwnGuests(c)
  BY DEF OwnGuests, RowOf
<1>3. OwnSessions(c, l)' = OwnSessions(c, l)
  BY <1>2, OwnSessionsKept
<1>4. Settled(c, l)'
  BY <1>2, SettledStep
<1>. QED  BY <1>1, <1>2, <1>3, <1>4, KnownStep

\* A guest row is inserted, which is then of another client.
LEMMA GuestRowStep ==
    ASSUME RowInv, NEW c, NEW l, Known(c, l),
           NEW r \in Requests, NEW where \in {"idle", "findSession"}, Goto(r, where),
           pc[r] = "insertGuest", UNCHANGED <<sessions, client, link>>,
           guests' = Append(guests, RowOf(client[r])),
           where = "findSession" => guest'[r] = Len(guests) + 1,
           \A q \in Requests \ {r} : guest'[q] = guest[q]
    PROVE  Reused(c, l)
<1>1. RowOf(client[r]) # RowOf(c)
  BY DEF Known
<1>2. RowTypes
  BY DEF RowInv
<1>3. RowsKept
  BY <1>2, GuestRowAdded
<1>4. /\ DOMAIN guests = 1..Len(guests) /\ Len(guests) \in Nat
      /\ DOMAIN guests' = 1..(Len(guests) + 1)
      /\ guests'[Len(guests) + 1] = RowOf(client[r])
  BY <1>2, ClientRow DEF RowTypes
<1>5. \A g \in 1..Len(guests) : guests'[g] = guests[g]
  BY <1>3 DEF RowsKept
<1>6. OwnGuests(c)' = {g \in DOMAIN guests' : guests'[g] = RowOf(c)}
  BY DEF OwnGuests, RowOf
<1>7. OwnGuests(c)' = OwnGuests(c)
  BY <1>1, <1>4, <1>5, <1>6 DEF OwnGuests
<1>8. OwnSessions(c, l)' = OwnSessions(c, l)
  BY <1>7, OwnSessionsKept
<1>9. Len(guests) + 1 \notin OwnGuests(c)
  BY <1>4 DEF OwnGuests
<1>10. Settled(c, l)'
  BY <1>7, <1>9, SettledStep
<1>. QED  BY <1>3, <1>7, <1>8, <1>10, KnownStep

\* A session row is inserted, which is then of another link or another guest.
LEMMA SessionRowStep ==
    ASSUME RowInv, NEW c, NEW l, Known(c, l),
           NEW r \in Requests, NEW where \in {"idle", "check"}, Goto(r, where),
           pc[r] = "insertSession", UNCHANGED <<guests, client, link>>,
           sessions' = Append(sessions, [link |-> link[r], guest |-> guest[r]]),
           \A q \in Requests \ {r} : guest'[q] = guest[q]
    PROVE  Reused(c, l)
<1>1. guest[r] \in OwnGuests(c) => link[r] # l
  BY DEF Known
<1>2. RowTypes
  BY DEF RowInv
<1>3. guest[r] \in 1..Len(guests)
  BY DEF RowInv, OwnRows, WithGuest
<1>4. /\ RowsKept /\ Len(sessions') = Len(sessions) + 1
      /\ sessions'[Len(sessions')].link = link[r]
      /\ sessions'[Len(sessions')].guest = guest[r]
  BY <1>2, <1>3, SessionRowAdded
<1>5. OwnGuests(c)' = OwnGuests(c)
  BY DEF OwnGuests, RowOf
<1>6. OwnSessions(c, l)' = OwnSessions(c, l)
  <2>1. /\ DOMAIN sessions = 1..Len(sessions) /\ DOMAIN sessions' = 1..Len(sessions')
        /\ Len(sessions) \in Nat
    BY <1>2, <1>4 DEF RowTypes, RowsKept
  <2>2. \A s \in 1..Len(sessions) : sessions'[s] = sessions[s]
    BY <1>4 DEF RowsKept
  <2>3. ~ (/\ sessions'[Len(sessions')].link = l
           /\ sessions'[Len(sessions')].guest \in OwnGuests(c))
    BY <1>1, <1>4
  <2>4. OwnSessions(c, l)' = {s \in DOMAIN sessions' :
             sessions'[s].link = l /\ sessions'[s].guest \in OwnGuests(c)}
    BY <1>5 DEF OwnSessions
  <2>. QED  BY <1>4, <2>1, <2>2, <2>3, <2>4 DEF OwnSessions
<1>7. Settled(c, l)'
  BY <1>5, SettledStep
<1>. QED  BY <1>4, <1>5, <1>6, <1>7, KnownStep

LEMMA ReuseStep ==
    ASSUME RowInv, [GuestNext]_guestVars, NEW c \in Clients, NEW l \in Links,
           Known(c, l)
    PROVE  Reused(c, l)
<1>0. RowTypes
  BY DEF RowInv
<1>1. CASE UNCHANGED guestVars
  BY <1>1 DEF guestVars, Reused, Known, OwnSessions, OwnGuests, SessionsOf, RowOf
<1>2. ASSUME NEW r \in Requests, NEW d \in Clients, NEW k \in Links, Arrive(r, d, k)
      PROVE  Reused(c, l)
  <2>1. /\ Goto(r, "findGuest") /\ UNCHANGED <<guests, sessions>>
        /\ \A q \in Requests \ {r} : /\ client'[q] = client[q]
                                     /\ guest'[q] = guest[q] /\ link'[q] = link[q]
    BY <1>0, <1>2 DEF Arrive, RowTypes, tables
  <2>. QED  BY <2>1, NoRowStep
<1>3. ASSUME NEW r \in Requests, FindGuest(r) PROVE Reused(c, l)
  <2> DEFINE found == Newest(GuestsAt(IP[client[r]]))
             where == IF found = None THEN "insertGuest" ELSE "findSession"
  <2>1. /\ Goto(r, where) /\ UNCHANGED <<guests, sessions, client, link>>
        /\ guest'[r] = found /\ \A q \in Requests \ {r} : guest'[q] = guest[q]
    BY <1>0, <1>3 DEF FindGuest, RowTypes, tables
  <2>2. found \in OwnGuests(c) => found = Newest(OwnGuests(c))
    BY <1>0, FoundOwn DEF Known
  <2>3. found = None => RowOf(client[r]) # RowOf(c)
    <3> SUFFICES ASSUME RowOf(client[r]) = RowOf(c) PROVE found # None
      OBVIOUS
    <3>1. IP[client[r]] = IP[c] /\ RowOf(c).ip = IP[c]
      BY DEF RowOf
    <3>2. GuestsAt(IP[client[r]]) # {}
      BY <3>1 DEF Known, OwnGuests, GuestsAt
    <3>. QED  BY <1>0, <3>2, FoundGuest
  <2>4. where \in {"insertGuest", "findSession"} /\ (where = "insertGuest" => found = None)
    OBVIOUS
  <2> HIDE DEF found, where
  <2>. QED  BY <2>1, <2>2, <2>3, <2>4, NoRowStep
<1>4. ASSUME NEW r \in Requests, InsertGuest(r) PROVE Reused(c, l)
  <2>1. guest'[r] = Len(guests) + 1 /\ \A q \in Requests \ {r} : guest'[q] = guest[q]
    BY <1>0, <1>4 DEF InsertGuest, RowTypes
  <2>. QED  BY <1>4, <2>1, GuestRowStep DEF InsertGuest
<1>5. ASSUME NEW r \in Requests, FindSession(r) PROVE Reused(c, l)
  <2> DEFINE found == Newest(SessionsOf(link[r], guest[r]))
             where == IF found = None THEN "insertSession" ELSE "check"
  <2>1. /\ Goto(r, where) /\ UNCHANGED <<guests, sessions, client, link, guest>>
    BY <1>5 DEF FindSession, tables
  <2>2. guest[r] \in OwnGuests(c) /\ link[r] = l => found # None
    BY <1>0, <1>5, FoundSession DEF Known, FindSession
  <2>3. /\ where # "insertGuest" /\ where # "findSession"
        /\ where = "insertSession" => found = None
    OBVIOUS
  <2> HIDE DEF found, where
  <2>. QED  BY <2>1, <2>2, <2>3, NoRowStep
<1>6. ASSUME NEW r \in Requests, InsertSession(r) PROVE Reused(c, l)
  BY <1>6, SessionRowStep DEF InsertSession
<1>7. ASSUME NEW r \in Requests,
             Refuse(r) \/ ReadCookies(r) \/ ReadTokens(r) \/ Forward(r)
      PROVE  Reused(c, l)
  <2>1. PICK where \in {"log", "tokens", "forward"} : Goto(r, where)
    BY <1>7 DEF Refuse, ReadCookies, ReadTokens, Forward
  <2>2. UNCHANGED <<link, client, guest, guests, sessions>>
    BY <1>7 DEF Refuse, ReadCookies, ReadTokens, Forward, tables
  <2>. QED  BY <2>1, <2>2, NoRowStep
<1>8. ASSUME NEW r \in Requests, LogAccess(r) PROVE Reused(c, l)
  <2>1. \A q \in Requests \ {r} : guest'[q] = guest[q]
    BY <1>0, <1>8 DEF LogAccess, Return, RowTypes
  <2>2. Goto(r, "idle") /\ UNCHANGED <<link, client, guests, sessions>>
    BY <1>8 DEF LogAccess, Return
  <2>. QED  BY <2>1, <2>2, NoRowStep
<1>9. ASSUME NEW r \in Requests, Fail(r) PROVE Reused(c, l)
  <2>1. \A q \in Requests \ {r} : guest'[q] = guest[q]
    BY <1>0, <1>9 DEF Fail, Return, RowTypes
  <2>2. Goto(r, "idle") /\ UNCHANGED <<link, client>>
    BY <1>9 DEF Fail, Return
  <2>3. CASE UNCHANGED <<guests, sessions>>
    BY <2>1, <2>2, <2>3, NoRowStep
  <2>4. CASE /\ pc[r] = "insertGuest" /\ UNCHANGED sessions
             /\ guests' = Append(guests, RowOf(client[r]))
    BY <2>1, <2>2, <2>4, GuestRowStep
  <2>5. CASE /\ pc[r] = "insertSession" /\ UNCHANGED guests
             /\ sessions' = Append(sessions, [link |-> link[r], guest |-> guest[r]])
    BY <2>1, <2>2, <2>5, SessionRowStep
  <2>. QED  BY <1>9, <2>3, <2>4, <2>5 DEF Fail
<1>. QED
  BY <1>1, <1>2, <1>3, <1>4, <1>5, <1>6, <1>7, <1>8, <1>9 DEF GuestNext

\* Once the race of its first requests is over, a guest keeps its session on the
\* link and no further guest or session row is inserted for its address and
\* User-Agent (GetOrCreate, resolveGuestSession).
THEOREM ReuseTheorem == GuestSpec => ReturningGuestReuses
<1>1. ASSUME RowInv, [GuestNext]_guestVars
      PROVE  [\A c \in Clients, l \in Links : Known(c, l) =>
                 /\ Known(c, l)'
                 /\ OwnSessions(c, l)' = OwnSessions(c, l)
                 /\ OwnGuests(c)' = OwnGuests(c)]_guestVars
  BY <1>1, ReuseStep DEF Reused
<1>. QED  BY <1>1, RowInit, RowNext, PTL DEF GuestSpec, ReturningGuestReuses

=============================================================================

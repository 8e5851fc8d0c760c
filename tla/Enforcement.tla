---------------------------- MODULE Enforcement ----------------------------
(***************************************************************************)
(* The data plane's limit enforcement: concurrent guest requests           *)
(* (proxy.Handler.ServeHTTP with EnforcementService around the reverse     *)
(* proxy), the owner's TerminateLink, the limiter's SyncWorker, and the    *)
(* three stores they share: the counters in Redis, and usage_counters,     *)
(* shared_links.status and link_terminations in Postgres.                  *)
(*                                                                         *)
(* A step of the model is one round trip to Redis or to Postgres: between  *)
(* two of them any other request, owner or worker may run.                 *)
(***************************************************************************)
EXTENDS CounterStore, FiniteSets, Sequences

CONSTANTS
    Links,         \* shared links
    Requests,      \* guest requests served at the same time, at most
    Owners,        \* concurrent calls of the owner's terminate endpoints
    Policy,        \* Links -> effective policy (what PolicyResolver returns)
    Faults,        \* the faults that may happen, see FaultKinds
    MaxResponse,   \* bound: bytes of one response
    MaxWork        \* bound: work started on one link, see Room

FaultKinds == {"io",      \* a call to Redis or Postgres returns an error
               "abort",   \* the guest goes away, the reverse proxy panics
               "crash",   \* the application process dies and is restarted
               "redis"}   \* Redis restarts and has lost its data

\* A limit, or none (a nil pointer).  One below 0 is reached when 0 is.
Limits == Nat \cup {Nil}

Policies == [maxRequests : Limits, maxBytes : Limits, maxViolations : Nat,
             ttl : BOOLEAN, expires : BOOLEAN]

ASSUME ConstantsAssumption ==
    /\ IsFiniteSet(Requests) /\ Requests # {}
    /\ Requests \cap Owners = {}
    /\ Policy \in [Links -> Policies]
    /\ Faults \subseteq FaultKinds
    /\ MaxResponse \in Nat
    /\ MaxWork \in Nat

Procs == Requests \cup Owners

VARIABLES
    pc,            \* Procs -> where the handler is
    on,            \* Procs -> the link the handler works on
    seed,          \* Requests -> usage_counters row read by warmLoad
    reason,        \* Procs -> reason code AutoTerminate was called with
    redis,         \* Links -> the link's counter keys
    dirty,         \* the set of links marked dirty in Redis
    usage,         \* Links -> usage_counters row
    status,        \* Links -> shared_links.status
    terminations,  \* Links -> link_terminations rows (their reason codes)
    events,        \* Links -> number of security_events rows
    passed,        \* Links -> which of the link's deadlines are in the past
    worker,        \* SyncWorker: where it is
    todo,          \* SyncWorker: links of this flush still to be done
    cur,           \* SyncWorker: the link being flushed
    snap,          \* SyncWorker: its counters as read from Redis
    forwarded,     \* history: Links -> requests sent to the target site
    lost           \* history: Links -> of those, the ones never counted

storeVars == <<redis, dirty, usage, status, terminations, events>>
workerVars == <<worker, todo, cur, snap>>
history == <<forwarded, lost>>
vars == <<pc, on, seed, reason, redis, dirty, usage, status, terminations,
          events, passed, worker, todo, cur, snap, forwarded, lost>>

RequestPCs == {"idle", "seed", "warm", "resolve", "event", "incrViolations",
               "check", "proxy", "incrRequests", "incrBytes", "recheck",
               "termCheck", "termUpdate", "termRecord"}
OwnerPCs == {"idle", "termCheck", "termUpdate", "termRecord"}
WorkerPCs == {"idle", "next", "upsert", "clear"}
ReasonCodes == {"ttl_expired", "request_limit", "traffic_limit",
                "violation_limit", "manual"}
Deadlines == {"ttl", "expires"}

\* The counters and the reason of a handler are dead while it is idle.
NoReason == "none"

TypeOK ==
    /\ pc \in [Procs -> RequestPCs]
    /\ \A o \in Owners : pc[o] \in OwnerPCs
    /\ on \in [Procs -> Links]
    /\ seed \in [Requests -> Counters]
    /\ reason \in [Procs -> ReasonCodes \cup {NoReason}]
    /\ redis \in [Links -> Keys]
    /\ dirty \subseteq Links
    /\ usage \in [Links -> Counters]
    /\ status \in [Links -> {"active", "terminated"}]
    /\ terminations \in [Links -> Seq(ReasonCodes)]
    /\ events \in [Links -> Nat]
    /\ passed \in [Links -> SUBSET Deadlines]
    /\ worker \in WorkerPCs
    /\ todo \subseteq Links
    /\ cur \in Links
    /\ snap \in Counters
    /\ forwarded \in [Links -> Nat]
    /\ lost \in [Links -> Nat]

Init ==
    /\ pc = [p \in Procs |-> "idle"]
    /\ on \in [Procs -> Links]
    /\ seed = [r \in Requests |-> ZeroCounters]
    /\ reason = [p \in Procs |-> NoReason]
    /\ redis = [l \in Links |-> NoKeys]
    /\ dirty = {}
    /\ usage = [l \in Links |-> ZeroCounters]
    /\ status = [l \in Links |-> "active"]
    /\ terminations = [l \in Links |-> <<>>]
    /\ events = [l \in Links |-> 0]
    /\ passed = [l \in Links |-> {}]
    /\ worker = "idle"
    /\ todo = {}
    /\ cur \in Links
    /\ snap = ZeroCounters
    /\ forwarded = [l \in Links |-> 0]
    /\ lost = [l \in Links |-> 0]

-----------------------------------------------------------------------------
(* What the handlers compute.                                              *)

Goto(p, where) == pc' = [pc EXCEPT ![p] = where]

\* The handler returns; its locals are gone.
Return(p) ==
    /\ Goto(p, "idle")
    /\ reason' = [reason EXCEPT ![p] = NoReason]

\* inactiveReason returns "": active, and its own expires_at is not past.
Usable(l) == status[l] = "active" /\ "expires" \notin passed[l]

\* Off by one: the link is only closed once the limit has been exceeded.
ReachedLate(limit, v) == limit # Nil /\ v > limit

\* A limit that is set and that v has reached.
Reached(limit, v) == limit # Nil /\ v >= limit

\* A reason code that revocation_reasons does not hold.
UnknownReason(l, c) ==
    IF Reached(Policy[l].maxRequests, c["requests"]) THEN "requests"
    ELSE IF Reached(Policy[l].maxBytes, c["bytes"]) THEN "traffic_limit"
    ELSE NoReason

\* The two reasons are confused.
SwappedReason(l, c) ==
    IF Reached(Policy[l].maxRequests, c["requests"]) THEN "traffic_limit"
    ELSE IF Reached(Policy[l].maxBytes, c["bytes"]) THEN "request_limit"
    ELSE NoReason

\* The limits both BeforeProxy and AfterProxy compare, in their order.
LimitReason(l, c) ==
    IF Reached(Policy[l].maxRequests, c["requests"]) THEN "request_limit"
    ELSE IF Reached(Policy[l].maxBytes, c["bytes"]) THEN "traffic_limit"
    ELSE NoReason

\* The rejection of BeforeProxy, NoReason if the request is allowed.
BeforeReason(l, c) ==
    IF LimitReason(l, c) = NoReason /\ c["violations"] >= Policy[l].maxViolations
    THEN "violation_limit" ELSE LimitReason(l, c)

\* autoTerminate(r) is called; no reason means the handler goes on at where.
TerminateOr(p, r, where) ==
    /\ Goto(p, IF r # NoReason THEN "termCheck" ELSE where)
    /\ reason' = [reason EXCEPT ![p] = r]

\* incrAndMarkDirty.
IncrAndMarkDirty(l, f, delta) ==
    /\ redis' = [redis EXCEPT ![l] = IncrBy(@, f, delta)]
    /\ dirty' = dirty \cup {l}

\* Bound on the work started on a link (a guest may always send more).
Room(l) ==
    forwarded[l] + events[l] + IntOrZero(redis[l]["violations"]) < MaxWork

-----------------------------------------------------------------------------
(* A guest request: ServeHTTP and BeforeProxy.                             *)

\* The status is not looked at: a terminated link keeps admitting guests.
LookupIgnoresStatus(p, l) ==
    /\ pc[p] = "idle"
    /\ Room(l)
    /\ "expires" \notin passed[l]
    /\ Goto(p, "seed")
    /\ on' = [on EXCEPT ![p] = l]
    /\ UNCHANGED <<seed, reason, storeVars, passed, workerVars, history>>

\* GetByToken finds the link and inactiveReason lets it through.
Lookup(p, l) ==
    /\ pc[p] = "idle"
    /\ Room(l)
    /\ Usable(l)
    /\ Goto(p, "seed")
    /\ on' = [on EXCEPT ![p] = l]
    /\ UNCHANGED <<seed, reason, storeVars, passed, workerVars, history>>

\* inactiveReason: 410, nothing is stored.
LookupRefused(p, l) ==
    /\ pc[p] = "idle"
    /\ ~Usable(l)
    /\ UNCHANGED vars

\* warmLoad, first half: the durable row (zeros when there is none).
ReadUsage(p) ==
    /\ pc[p] = "seed"
    /\ seed' = [seed EXCEPT ![p] = usage[on[p]]]
    /\ Goto(p, "warm")
    /\ UNCHANGED <<on, reason, storeVars, passed, workerVars, history>>

\* warmLoad, second half: CounterStore.WarmLoad.
SeedRedis(p) ==
    /\ pc[p] = "warm"
    /\ redis' = [redis EXCEPT ![on[p]] = WarmLoad(@, seed[p], Fields)]
    /\ seed' = [seed EXCEPT ![p] = ZeroCounters]
    /\ Goto(p, "resolve")
    /\ UNCHANGED <<on, reason, dirty, usage, status, terminations, events,
                   passed, workerVars, history>>

TTLExpired(l) == Policy[l].ttl /\ "ttl" \in passed[l]

\* A match is counted, and no security_events row is written for it.
HitWithoutEvent(p) ==
    /\ pc[p] = "resolve"
    /\ Goto(p, "incrViolations")
    /\ UNCHANGED <<on, seed, reason, storeVars, passed, workerVars, history>>

\* Resolve, then blacklist.Check finds a matching rule.
BlacklistHit(p) ==
    /\ pc[p] = "resolve"
    /\ Goto(p, "event")
    /\ UNCHANGED <<on, seed, reason, storeVars, passed, workerVars, history>>

\* Resolve, no rule matches, then the TTL of the policy is looked at.
BlacklistMiss(p) ==
    /\ pc[p] = "resolve"
    /\ TerminateOr(p, IF TTLExpired(on[p]) THEN "ttl_expired" ELSE NoReason,
                   "check")
    /\ UNCHANGED <<on, seed, storeVars, passed, workerVars, history>>

\* recordViolation: the security_events row.
RecordEvent(p) ==
    /\ pc[p] = "event"
    /\ events' = [events EXCEPT ![on[p]] = @ + 1]
    /\ Goto(p, "incrViolations")
    /\ UNCHANGED <<on, seed, reason, redis, dirty, usage, status, terminations,
                   passed, workerVars, history>>

\* Off by one: the link is closed by the violation after the last allowed one.
AfterViolationLate(p, violations) ==
    TerminateOr(p, IF violations > Policy[on[p]].maxViolations
                   THEN "violation_limit" ELSE NoReason, "idle")

\* recordViolation: what it does with the number IncrViolations returned.
AfterViolation(p, violations) ==
    TerminateOr(p, IF violations >= Policy[on[p]].maxViolations
                   THEN "violation_limit" ELSE NoReason, "idle")

\* recordViolation: IncrViolations, then the threshold.
CountViolation(p) ==
    /\ pc[p] = "incrViolations"
    /\ IncrAndMarkDirty(on[p], "violations", 1)
    /\ AfterViolation(p, IntOrZero(redis[on[p]]["violations"]) + 1)
    /\ UNCHANGED <<on, seed, usage, status, terminations, events, passed,
                   workerVars, history>>

\* The counters are not compared with the limits before proxying.
CheckNothing(p) ==
    /\ pc[p] = "check"
    /\ TerminateOr(p, NoReason, "proxy")
    /\ UNCHANGED <<on, seed, storeVars, passed, workerVars, history>>

\* BeforeProxy: counters.Get and the numeric limits.
CheckLimits(p) ==
    /\ pc[p] = "check"
    /\ TerminateOr(p, BeforeReason(on[p], GetCounters(redis[on[p]])), "proxy")
    /\ UNCHANGED <<on, seed, storeVars, passed, workerVars, history>>

\* The injection plan is built and the request goes to the target site,
\* which may answer or fail (502): AfterProxy follows in both cases.  Until
\* then, which may be for ever, the handler waits in the reverse proxy.
Forward(p) ==
    /\ pc[p] = "proxy"
    /\ forwarded' = [forwarded EXCEPT ![on[p]] = @ + 1]
    /\ Goto(p, "incrRequests")
    /\ UNCHANGED <<on, seed, reason, storeVars, passed, workerVars, lost>>

-----------------------------------------------------------------------------
(* AfterProxy.                                                             *)

\* The reverse proxy has returned: IncrRequests.
CountRequest(p) ==
    /\ pc[p] = "incrRequests"
    /\ IncrAndMarkDirty(on[p], "requests", 1)
    /\ Goto(p, "incrBytes")
    /\ UNCHANGED <<on, seed, reason, usage, status, terminations, events,
                   passed, workerVars, history>>

\* What countingResponseWriter may have seen of a response.
ResponseBytes == 0..MaxResponse

\* n is what countingResponseWriter has seen.
CountBytes(p, n) ==
    /\ pc[p] = "incrBytes"
    /\ IncrAndMarkDirty(on[p], "bytes", n)
    /\ Goto(p, "recheck")
    /\ UNCHANGED <<on, seed, reason, usage, status, terminations, events,
                   passed, workerVars, history>>

\* The handler ends without comparing the counters again.
NoRecheck(p) ==
    /\ pc[p] = "recheck"
    /\ Return(p)
    /\ UNCHANGED <<on, seed, storeVars, passed, workerVars, history>>

\* Resolve and Get again, then the switch.
Recheck(p) ==
    /\ pc[p] = "recheck"
    /\ TerminateOr(p, LimitReason(on[p], GetCounters(redis[on[p]])), "idle")
    /\ UNCHANGED <<on, seed, storeVars, passed, workerVars, history>>

-----------------------------------------------------------------------------
(* LinkService.AutoTerminate and LinkService.TerminateLink.                *)

\* handleTerminateLink, or the button of the dashboard, calls TerminateLink
\* (the ownership check has passed).
OwnerTerminates(o, l) ==
    /\ pc[o] = "idle"
    /\ Goto(o, "termCheck")
    /\ on' = [on EXCEPT ![o] = l]
    /\ reason' = [reason EXCEPT ![o] = "manual"]
    /\ UNCHANGED <<seed, storeVars, passed, workerVars, history>>

\* GetByID: an already terminated link is left alone.
TermCheck(p) ==
    /\ pc[p] = "termCheck"
    /\ IF status[on[p]] = "terminated"
       THEN Return(p)
       ELSE Goto(p, "termUpdate") /\ UNCHANGED reason
    /\ UNCHANGED <<on, seed, storeVars, passed, workerVars, history>>

\* The handler stops after the status update: no reason is recorded.
UpdateWithoutRecord(p) ==
    /\ pc[p] = "termUpdate"
    /\ status' = [status EXCEPT ![on[p]] = "terminated"]
    /\ Return(p)
    /\ UNCHANGED <<on, seed, redis, dirty, usage, terminations, events, passed,
                   workerVars, history>>

\* UpdateStatus.
TermUpdate(p) ==
    /\ pc[p] = "termUpdate"
    /\ status' = [status EXCEPT ![on[p]] = "terminated"]
    /\ Goto(p, "termRecord")
    /\ UNCHANGED <<on, seed, reason, redis, dirty, usage, terminations, events,
                   passed, workerVars, history>>

\* terminations.Create.
TermRecord(p) ==
    /\ pc[p] = "termRecord"
    /\ terminations' = [terminations EXCEPT ![on[p]] = Append(@, reason[p])]
    /\ Return(p)
    /\ UNCHANGED <<on, seed, redis, dirty, usage, status, events, passed,
                   workerVars, history>>

-----------------------------------------------------------------------------
(* SyncWorker.flushOnce.                                                   *)

AfterLink == IF todo = {} THEN "idle" ELSE "next"

\* A tick: DirtyLinkIDs (with nothing dirty the flush is over at once).
SyncTick ==
    /\ worker = "idle"
    /\ dirty # {}
    /\ worker' = "next"
    /\ todo' = dirty
    /\ UNCHANGED <<pc, on, seed, reason, storeVars, passed, cur, snap, history>>

\* store.Get of the next link.
SyncRead(l) ==
    /\ worker = "next"
    /\ l \in todo
    /\ worker' = "upsert"
    /\ todo' = todo \ {l}
    /\ cur' = l
    /\ snap' = GetCounters(redis[l])
    /\ UNCHANGED <<pc, on, seed, reason, storeVars, passed, history>>

\* usage.Upsert.
SyncUpsert ==
    /\ worker = "upsert"
    /\ usage' = [usage EXCEPT ![cur] = snap]
    /\ worker' = "clear"
    /\ snap' = ZeroCounters
    /\ UNCHANGED <<pc, on, seed, reason, redis, dirty, status, terminations,
                   events, passed, todo, cur, history>>

\* store.ClearDirty.
SyncClear ==
    /\ worker = "clear"
    /\ dirty' = dirty \ {cur}
    /\ worker' = AfterLink
    /\ UNCHANGED <<pc, on, seed, reason, redis, usage, status, terminations,
                   events, passed, todo, cur, snap, history>>

-----------------------------------------------------------------------------
(* Time.                                                                   *)

DeadlinePasses(l, d) ==
    /\ d \notin passed[l]
    /\ Policy[l][d]
    /\ passed' = [passed EXCEPT ![l] = @ \cup {d}]
    /\ UNCHANGED <<pc, on, seed, reason, storeVars, workerVars, history>>

-----------------------------------------------------------------------------
(* Faults.  A write that returns an error may still have been applied.     *)

\* The next step of p is a read that may fail.
Reading(p) == pc[p] \in {"seed", "resolve", "check", "recheck", "termCheck"}

\* BuildInjectionPlan is next: two more reads, and decryption.
Planning(p) == pc[p] = "proxy"

\* The read fails or there is no injection plan: the handler returns.
FailRead(p) ==
    /\ "io" \in Faults
    /\ Reading(p) \/ Planning(p)
    /\ Return(p)
    /\ UNCHANGED <<on, seed, storeVars, passed, workerVars, history>>

\* The warm-load pipeline fails, after a prefix of its commands.
FailSeed(p, done) ==
    /\ "io" \in Faults
    /\ pc[p] = "warm"
    /\ redis' = [redis EXCEPT ![on[p]] = WarmLoad(@, seed[p], done)]
    /\ seed' = [seed EXCEPT ![p] = ZeroCounters]
    /\ Return(p)
    /\ UNCHANGED <<on, dirty, usage, status, terminations, events, passed,
                   workerVars, history>>

\* The security_events row cannot be written: logged, nothing else.
FailEvent(p) ==
    /\ "io" \in Faults
    /\ pc[p] = "event"
    /\ Goto(p, "incrViolations")
    /\ UNCHANGED <<on, seed, reason, storeVars, passed, workerVars, history>>

\* The pipeline INCRBY, SADD fails after a prefix of its two commands.
IncrPrefix(l, f, delta) ==
    \/ UNCHANGED <<redis, dirty>>
    \/ redis' = [redis EXCEPT ![l] = IncrBy(@, f, delta)] /\ UNCHANGED dirty
    \/ IncrAndMarkDirty(l, f, delta)

\* IncrRequests fails: logged, AfterProxy goes on.
FailCountRequest(p) ==
    /\ "io" \in Faults
    /\ pc[p] = "incrRequests"
    /\ IncrPrefix(on[p], "requests", 1)
    /\ lost' = IF redis' = redis THEN [lost EXCEPT ![on[p]] = @ + 1] ELSE lost
    /\ Goto(p, "incrBytes")
    /\ UNCHANGED <<on, seed, reason, usage, status, terminations, events,
                   passed, workerVars, forwarded>>

\* IncrBytes fails: logged, AfterProxy goes on.
FailCountBytes(p, n) ==
    /\ "io" \in Faults
    /\ pc[p] = "incrBytes"
    /\ IncrPrefix(on[p], "bytes", n)
    /\ Goto(p, "recheck")
    /\ UNCHANGED <<on, seed, reason, usage, status, terminations, events,
                   passed, workerVars, history>>

\* IncrViolations fails: logged, and its result is taken to be 0.
FailCountViolation(p) ==
    /\ "io" \in Faults
    /\ pc[p] = "incrViolations"
    /\ IncrPrefix(on[p], "violations", 1)
    /\ AfterViolation(p, 0)
    /\ UNCHANGED <<on, seed, usage, status, terminations, events, passed,
                   workerVars, history>>

\* UpdateStatus fails, applied or not; no row is written.
FailUpdate(p) ==
    /\ "io" \in Faults
    /\ pc[p] = "termUpdate"
    /\ status' \in {status, [status EXCEPT ![on[p]] = "terminated"]}
    /\ Return(p)
    /\ UNCHANGED <<on, seed, redis, dirty, usage, terminations, events, passed,
                   workerVars, history>>

\* terminations.Create fails: the link stays terminated without a row.
FailRecord(p) ==
    /\ "io" \in Faults
    /\ pc[p] = "termRecord"
    /\ Return(p)
    /\ UNCHANGED <<on, seed, storeVars, passed, workerVars, history>>

\* A step of flushOnce fails: logged, the next link is tried.
FailSync ==
    /\ "io" \in Faults
    /\ \/ /\ worker = "next"
          /\ \E l \in todo :
                /\ todo' = todo \ {l}
                /\ worker' = IF todo = {l} THEN "idle" ELSE "next"
          /\ UNCHANGED <<usage, snap>>
       \/ /\ worker = "upsert"
          /\ usage' \in {usage, [usage EXCEPT ![cur] = snap]}
          /\ worker' = AfterLink
          /\ snap' = ZeroCounters
          /\ UNCHANGED todo
       \/ /\ worker = "clear"
          /\ worker' = AfterLink
          /\ UNCHANGED <<usage, snap, todo>>
    /\ UNCHANGED <<pc, on, seed, reason, redis, dirty, status, terminations,
                   events, passed, cur, history>>

\* The copy of the response to the guest breaks off: ReverseProxy panics with
\* http.ErrAbortHandler and AfterProxy is never called.
Abort(p) ==
    /\ "abort" \in Faults
    /\ pc[p] = "incrRequests"
    /\ Return(p)
    /\ lost' = [lost EXCEPT ![on[p]] = @ + 1]
    /\ UNCHANGED <<on, seed, storeVars, passed, workerVars, forwarded>>

\* Requests on l sent to the target and not counted yet.
Uncounted(l) == {r \in Requests : on[r] = l /\ pc[r] = "incrRequests"}

\* The process dies: all handlers and the worker are gone, the stores stay.
Crash ==
    /\ "crash" \in Faults
    /\ pc' = [p \in Procs |-> "idle"]
    /\ reason' = [p \in Procs |-> NoReason]
    /\ seed' = [r \in Requests |-> ZeroCounters]
    /\ lost' = [l \in Links |-> lost[l] + Cardinality(Uncounted(l))]
    /\ worker' = "idle"
    /\ todo' = {}
    /\ snap' = ZeroCounters
    /\ UNCHANGED <<on, storeVars, passed, cur, forwarded>>

\* Redis comes back empty.
RedisRestart ==
    /\ "redis" \in Faults
    /\ redis' = [l \in Links |-> NoKeys]
    /\ dirty' = {}
    /\ UNCHANGED <<pc, on, seed, reason, usage, status, terminations, events,
                   passed, workerVars, history>>

-----------------------------------------------------------------------------

\* What a handler that has started does next when nothing fails.
HandlerStep(r) ==
    \/ ReadUsage(r) \/ SeedRedis(r)
    \/ BlacklistHit(r) \/ BlacklistMiss(r)
    \/ RecordEvent(r) \/ CountViolation(r)
    \/ CheckLimits(r) \/ Forward(r)
    \/ CountRequest(r) \/ (\E n \in ResponseBytes : CountBytes(r, n))
    \/ Recheck(r)

TerminateStep(p) == TermCheck(p) \/ TermUpdate(p) \/ TermRecord(p)

SyncStep == SyncTick \/ (\E l \in Links : SyncRead(l)) \/ SyncUpsert \/ SyncClear

Fault ==
    \/ \E r \in Requests :
          \/ \E done \in WarmPrefixes : FailSeed(r, done)
          \/ FailEvent(r) \/ FailCountRequest(r) \/ FailCountViolation(r)
          \/ \E n \in ResponseBytes : FailCountBytes(r, n)
          \/ Abort(r)
    \/ \E p \in Procs : FailRead(p) \/ FailUpdate(p) \/ FailRecord(p)
    \/ FailSync
    \/ Crash
    \/ RedisRestart

Next ==
    \/ \E r \in Requests, l \in Links : Lookup(r, l) \/ LookupRefused(r, l)
    \/ \E r \in Requests : HandlerStep(r)
    \/ \E o \in Owners, l \in Links : OwnerTerminates(o, l)
    \/ \E p \in Procs : TerminateStep(p)
    \/ SyncStep
    \/ \E l \in Links, d \in Deadlines : DeadlinePasses(l, d)
    \/ Fault

Spec == Init /\ [][Next]_vars

\* The handler has called the reverse proxy, and may still be waiting for the
\* target: neither the transport nor the server puts a limit on the answer.
AtTarget(r) == pc[r] = "incrRequests"

\* A goroutine that can run is run and Redis and Postgres answer: a handler that
\* has started goes on, except that a target need not answer, and the worker's
\* ticker keeps firing.  Guests, owners, targets, time and faults are free.
Fairness ==
    /\ \A r \in Requests : WF_vars(~AtTarget(r) /\ HandlerStep(r))
    /\ \A p \in Procs : WF_vars(TerminateStep(p))
    /\ WF_vars(SyncStep)

FairSpec == Spec /\ Fairness

-----------------------------------------------------------------------------
(* Properties.                                                             *)

\* The bound on concurrent requests: MaxRequests is checked before proxying
\* and counted after it, so requests that run together can all pass the check.
\* No more than Cardinality(Requests) - 1 requests over the limit reach the
\* target, plus those whose increment was lost (a failed IncrRequests, an
\* aborted response, a crash): BeforeProxy and AfterProxy of
\* service/enforcement_service.go, while Redis keeps its data.
QuotaOverrun ==
    \A l \in Links : Policy[l].maxRequests # Nil =>
        forwarded[l] <= Policy[l].maxRequests - 1 + Cardinality(Requests) + lost[l]

\* The most a counter shows before it reaches the limit (0 is reached at once:
\* nothing keeps an owner from asking for it).
Below(limit) == IF limit = 0 THEN 0 ELSE limit - 1

\* The same for MaxBytesTransferred: every request that was admitted below the
\* limit adds at most one response.
TrafficOverrun ==
    \A l \in Links : Policy[l].maxBytes # Nil =>
        IntOrZero(redis[l]["bytes"]) <=
            Below(Policy[l].maxBytes) + Cardinality(Requests) * MaxResponse

\* recordViolation compares only after it has incremented; when no call fails
\* the counter passes max_violation_count by at most the number of other
\* requests that were under way.
ViolationOverrun ==
    \A l \in Links :
        IntOrZero(redis[l]["violations"]) <=
            Below(Policy[l].maxViolations) + Cardinality(Requests)

\* The durable copy never runs ahead of Redis, so a warm load never takes
\* quota away (SyncWorker.flushOnce against warmLoad), while Redis keeps its
\* data.
UsageBehindRedis ==
    \A l \in Links, f \in Fields : usage[l][f] <= IntOrZero(redis[l][f])

\* Why: a seed is a row that was read earlier, and the worker holds a snapshot
\* that lies between the row it will replace and Redis.
UsageInv ==
    /\ \A r \in Requests : pc[r] = "warm" =>
           \A f \in Fields : seed[r][f] <= usage[on[r]][f]
    /\ worker = "upsert" =>
           \A f \in Fields : /\ usage[cur][f] <= snap[f]
                            /\ snap[f] <= IntOrZero(redis[cur][f])
    /\ UsageBehindRedis

\* Upsert overwrites the row; it never lowers a number the row already holds.
UsageNeverDecreases ==
    [][\A l \in Links, f \in Fields : usage'[l][f] >= usage[l][f]]_usage

\* "terminated with the right reason": a recorded reason is true of the link
\* (src/README.md, section on the integration tests): the counter of that
\* reason has reached its limit, or the TTL has passed.
ReasonHolds(l, r) ==
    CASE r = "request_limit" ->
            Reached(Policy[l].maxRequests, IntOrZero(redis[l]["requests"]))
      [] r = "traffic_limit" ->
            Reached(Policy[l].maxBytes, IntOrZero(redis[l]["bytes"]))
      [] r = "violation_limit" ->
            IntOrZero(redis[l]["violations"]) >= Policy[l].maxViolations
      [] r = "ttl_expired" -> TTLExpired(l)
      [] OTHER -> TRUE

\* Every link_terminations row states a reason that holds, although the row
\* is written three round trips after the counters were read.
ReasonJustified ==
    \A l \in Links : \A i \in DOMAIN terminations[l] :
        ReasonHolds(l, terminations[l][i])

\* A terminated link has a row that says why, or some handler is about to
\* write it: the status update and the row are two statements of AutoTerminate
\* and TerminateLink (no call fails, the process does not die).
TerminationExplained ==
    \A l \in Links : status[l] = "terminated" =>
        \/ terminations[l] # <<>>
        \/ \E p \in Procs : on[p] = l /\ pc[p] = "termRecord"

\* "every match, not only the one that eventually crosses the threshold":
\* recordViolation writes the security_events row before it counts, so even
\* a crash leaves no counted violation without a row (Postgres does not fail).
EveryViolationRecorded ==
    \A l \in Links : IntOrZero(redis[l]["violations"]) <= events[l]

\* A link whose counters have reached a limit is terminated in the end, by the
\* request that reached it or by a later one, when no call fails.
LimitTerminates ==
    \A l \in Links :
        BeforeReason(l, GetCounters(redis[l])) # NoReason
            ~> status[l] = "terminated"

\* Handlers that are working for link l.
InFlight(l) == {r \in Requests : on[r] = l /\ pc[r] # "idle"}

\* "all new requests are rejected" (business rule 5): once a link is
\* terminated no request follows, and of those under way in the end only those
\* are left whose target has not answered (Lookup, BeforeProxy, AfterProxy).
TerminatedDrains ==
    \A l \in Links :
        status[l] = "terminated" ~> [](\A r \in InFlight(l) : AtTarget(r))

-----------------------------------------------------------------------------
(* Refinement.                                                             *)

\* Requests on l that have passed the check and are not counted yet.
Admitted(l) == {r \in Requests : on[r] = l /\ pc[r] \in {"proxy", "incrRequests"}}

Gate == INSTANCE QuotaGate WITH
            Slots <- Requests,
            Limit <- [l \in Links |-> Policy[l].maxRequests],
            counted <- [l \in Links |-> IntOrZero(redis[l]["requests"])],
            admitted <- [l \in Links |-> Admitted(l)],
            sent <- [l \in Links |-> Uncounted(l)]

\* As far as the number of forwarded requests goes, the handlers with their
\* stores, their worker and their faults are the gate of QuotaGate: BeforeProxy
\* admits, AfterProxy settles (while Redis keeps its data).
ImplementsGate == Gate!GateSpec

-----------------------------------------------------------------------------
(* What comments of the code say, and the code does not do.                *)

\* SyncWorker costs "up to one interval of staleness in usage_counters": a
\* durable row that differs from Redis is brought up to date.
UsageCatchesUp ==
    \A l \in Links :
        usage[l] # GetCounters(redis[l]) ~> usage[l] = GetCounters(redis[l])

\* WarmLoad "is what makes a process restart safe: without it, every counter
\* would silently reset to zero and every link would appear to have a fresh
\* quota": once it has run, Redis holds at least the durable numbers it was
\* given.
WarmLoadRestoresQuota ==
    [][\A r \in Requests : pc[r] = "warm" /\ pc'[r] = "resolve" =>
          \A f \in Fields : seed[r][f] <= IntOrZero(redis'[on[r]][f])]_vars
=============================================================================

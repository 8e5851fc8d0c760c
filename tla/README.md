# SessionProxy in TLA+

SessionProxy lets the owner of a logged-in web session share it with guests
through a link. Guests talk to a reverse proxy that injects the owner's cookies
and tokens; the link carries limits (requests, bytes, lifetime, violations) and a
blacklist of paths, and is terminated when a limit is reached. This directory
models the part of the program in which state changes: what several goroutines,
two stores and an owner do to each other, and what is left when one of them fails.

Contents: 1 the system, 2 plan and state of the work, 3 modules and code,
4 runs, 5 proofs, 6 disagreements with the documentation, 7 what is left out.
`PROJECT.json` holds the same information in machine-readable form: the lines every
definition models, a mutant for every property, and the hazards.

Run a model: `tlc -workers 2 -config Hub.cfg MCHub`.
Check proofs: `tlapm EnforcementProofs.tla`, and the seven other `...Proofs.tla`.

## 1. The system

All paths are below `src/app/`.

| part | state | operations | talks to |
|---|---|---|---|
| Data plane, `proxy/handler.go`, `service/enforcement_service.go` | none between requests | `ServeHTTP` around the reverse proxy: `BeforeProxy`, `recordViolation`, `AfterProxy`, `warmLoad`, `autoTerminate` | all stores, blacklist, resolver, hub, access log |
| Counter store, `limiter/counter_store.go` | three Redis keys per link, the set of dirty links | `WarmLoad`, `Get`, `Incr*`, `DirtyLinkIDs`, `ClearDirty`, one pipeline each | Redis |
| Sync worker, `limiter/sync_worker.go` | `usage_counters` rows | `Run`, `flushOnce` every interval | Redis to Postgres |
| Link service, `service/link_service.go` | `shared_links`, `link_terminations` | `CreateLink`, `TerminateLink`, `AutoTerminate` | Postgres |
| Access log, `proxy/logwriter.go` | a bounded channel, a batch, `proxy_access_logs` | `Log`, `Run` | request goroutines, main |
| Hub and live feeds, `pubsub/hub.go`, `transport/grpc/admin_service.go`, `transport/webui/handlers.go` | subscribers under a mutex, one channel each | `Publish`, `Subscribe`, `cancel`, two stream handlers | request goroutines, clients |
| Guests, `repository/pgx/guests.go`, `resolveGuestSession` | `guests`, `guest_sessions` | `GetOrCreate`, `GetActiveByLinkAndGuest`, `Create` | Postgres |
| Blacklist, `service/blacklist_service.go`, `handlers_blacklist.go` | rules, their methods, their attachments | create, delete, set methods, attach, `Check` | Postgres |
| Policy resolver, `service/policy_resolver.go` | `access_policies`, `link_policies` | `Resolve` | Postgres |
| Import and provisioning, `service/session_import.go`, `repository/pgx/sessions.go` | `target_sites`, `original_sessions`, cookies, tokens | `Import`, `GetOrCreateByDomain` | Postgres |
| Reverse proxy, `proxy/director.go`, `injector.go`, `stripper.go` | one `ReverseProxy` for all requests, an `InjectionPlan` per request | `BuildInjectionPlan`, `Rewrite` with `Apply`, `StripIdentityHeaders` | Postgres, the target site |
| Authentication and ownership, `service/auth_service.go`, `handlers_auth.go`, `middleware/`, `grpc/interceptors.go` | `users`, `devices`, `api_keys`; JWTs are held by clients only | `Register`, `Login`, `VerifyJWT`, `CreateAPIKey`, `VerifyAPIKey`, revoke, devices; `RequireAuth`, `RequireSessionCookie`, the interceptors, `RequireLinkOwnership` | Postgres, the clock |
| Process, `cmd/server/main.go` | three servers, one context, one deadline | start, serve, signal, `GracefulStop`, two `Shutdown`s, `pool.Close` | everything |
| Pages, statistics views, crypto | see section 7 | | |

What is hard here:

- *Check, then act.* `BeforeProxy` compares counters, the request is proxied, and
  only `AfterProxy` counts it. Guests, sites, terminations and method lists are
  read and written in separate statements without a transaction and mostly
  without a unique constraint.
- *Two copies of one number.* Redis counts and `usage_counters` is written behind;
  a warm load copies the row back. Either side can be lost or late.
- *Partial failure.* Almost every error is logged and passed over; a failed
  statement may have been applied; the process can die between any two.
- *Bounded channels that must not block.* The access log and the hub are on the
  request path and drop what they cannot take.
- *Shutdown.* `main` cancels a context and does not wait for the workers, only, when it
  closes the pool, for the database connections they hold; the three
  servers stop one after the other, the first without a deadline, the other two
  on a common one, while clients keep their streams open and guests keep coming.
- *Credentials that end.* Keys are revoked and expire, JWTs expire, while calls that
  carry them are between two statements.

The properties that make each part correct are named in section 4; each hazard of
`PROJECT.json` names the properties that watch over it.

## 2. Plan

Order of work, the most important behaviour first.

| # | module | composes | state |
|---|---|---|---|
| 1 | `CounterStore`, `Enforcement` | enforcement, counter store, sync worker, termination | done, proved |
| 2 | `QuotaGate` | abstract specification of the request quota | done, refinement checked and proved |
| 3 | `AccessLog` | | done, proved |
| 4 | `Hub` | hub and both feeds | done, proved |
| 5 | `GuestSession` | guests, sessions, log rows | done, proved |
| 6 | `Blacklist` | edits and checks | done, proved |
| 7 | `PolicyResolver` | | done, proved |
| 8 | `Provisioning` | import, sites, link creation | done, proved |
| 9 | `Auth` | accounts, devices, keys and JWTs; REST, gRPC and dashboard; link ownership | done, proved |
| 10 | `Shutdown` | `main.go`, composed with `AccessLog` | done, proved |
| 11 | credentials in `GuestSession` | injector, reverse proxy and stripper on the way of a guest request | done, proved |
| 12 | base URLs in `Provisioning` | | done, proved |
| 13 | policies that change in `Enforcement`; site rules of duplicate sites (`Provisioning` with `Blacklist`); streams of `Hub` inside `Shutdown` | | open |

"Proved" means: every safety invariant and action property that a run checks is a
theorem (section 5). The liveness properties are model-checked only.

## 3. Modules and the code

General conventions. A step is one round trip to a store, or one operation on a
channel or a mutex: between two steps anything else may run. A Redis pipeline is one
step; when it fails, any prefix of its commands has been applied. A SQL statement
is one step; when it fails, it may have been applied. One application process runs
at a time; a crash ends all of its goroutines and leaves the stores. Operators
whose comment names a slip of the code (a lost guard, a missing reset) stand before the
operator they vary and are used by nothing: they are the mutants of `PROJECT.json`.

**CounterStore.** The effect of each pipeline on the three keys of one link.
`Nil` is an absent key; `IntOrZero`, `SetNX` and `IncrBy` are what the code's
helpers and Redis do with it.

**Enforcement.** `pc` of a request follows the round trips of `ServeHTTP`:
`Lookup` (`GetByToken`, `inactiveReason`), `ReadUsage` and `SeedRedis` (warm
load), `BlacklistHit` or `BlacklistMiss` (policy and blacklist, whose
answer is free here), `RecordEvent`, `CountViolation`, `CheckLimits`, `Forward`,
`CountRequest`, `CountBytes`, `Recheck` (`Forward` is the whole of the reverse proxy with
its injection plan; a plan that cannot be built is a failing read), and the three statements of a termination.
Owners run `TerminateLink` through the same three. The worker has `SyncTick`,
`SyncRead`, `SyncUpsert`, `SyncClear`. `Faults` selects what may go wrong:
`io` (every call has its failing action, which does what the code's error path does),
`abort` (the response breaks off, `httputil.ReverseProxy` panics, `AfterProxy` is not
called; a guest who leaves later cancels the context, and the calls of
`AfterProxy` fail: that is `io`), `crash`, `redis` (Redis comes back empty). A refused
lookup changes nothing. `forwarded` and `lost` are history. The effective policy of a
link is a constant; its limits are natural numbers, since a negative one, which nothing in the code
rules out, is reached exactly when 0 is: every counter starts at 0.

**QuotaGate.** What enforcement promises about the number of requests that reach
the target: a slot is admitted while the count is below the limit, sent, and
counted later, or dropped, or lost. `Enforcement!ImplementsGate` is the refinement:
`counted` is Redis, `admitted` the requests between check and count, `sent` those
already forwarded.

**AccessLog.** `Log` sends or drops, `Receive`, `Tick` and `Done` are the cases of
`Run`'s select. A flush takes a connection from the pool (`Acquire`) and writes (`Flush`), or fails
(`FlushFails`), or is refused because the pool is closed (`FlushRefused`). `Cancel` is the signal.
`main` does not wait for `Run`, but its deferred `pool.Close()` (`ClosePool`) waits for
connections in use: `Exit` comes when `Run` holds none.

**Hub.** `PublishLock`, one `PublishTo` for each subscriber, `PublishUnlock`;
`Subscribe` and `Cancel` under the same mutex; a stream handler's `Receive`,
`LookupOwner`, `Send`. A filter of `AllLinks` is the dashboard feed or a gRPC
stream without a filter. `panicked` records a send on a closed channel.

**Shutdown.** The process around the access log. `phase` is where `run` is: in its
`select`, in `GracefulStop`, in the `Shutdown` of the debug or of the HTTP server, closing the
pool, after a shutdown (`closing`) or a failed listener (`failing`), or returned. A guest request
stays with the reverse proxy for as long as its target likes (`ProxyReturns`), then ends in
`AccessLog!Log`; dashboard feeds and gRPC streams end when their client leaves, unary calls
(`Imports`) by themselves. `GrpcStopped` waits for all gRPC calls, `DebugStopped` and
`HttpStopped` for their requests or for `expired`, the ten seconds that both
share. `HttpStopped` and `ListenerFails`, the two ways out of the `select`, are
`ClosePool` of `AccessLog`, and `PoolClosed` is its `Exit`. Of the pool only the connection
of the log worker is modelled; the others are given back when their statement ends.

**GuestSession.** The way of a request through `ServeHTTP`: both select-then-insert
pairs, the answer of `BeforeProxy` (free here), the two reads of
`BuildInjectionPlan`, the reverse proxy, and the log row. Guests and sessions
are numbered in insertion order, which is what `ORDER BY` in the queries uses. A
header is a name and a value: a guest's are `OfGuest`, an owner's come from the rows of
the link's session. `Apply` deletes `Cookie` and `Authorization` and adds the plan;
`upstream` is what the target got, `reply` what the guest got back.

**Blacklist.** Every statement of every edit against a check that reads rules first
and the methods of each rule later. A pattern is the set of paths it matches;
a regex that does not compile matches every path. One editor works at a time.

**PolicyResolver.** `Resolve` is the code's loop, as a function of the number of turns
(`eff[i]`), over lists that grow and shrink at any place, since the query has no order. `Nil` is a value of its own, and a stated limit any integer.

**Auth.** A call has a credential, an interface and an operation; `call[c]` is the state of
its goroutine. `StartRegister`, `FindEmail` and `InsertUser` are registration;
`Arrive`, then `VerifyJWT` or `ReadKey` and `CheckKey`, are the middleware or the
interceptor, `CheckOwner` is `RequireLinkOwnership`, `Handle` the handler: devices and keys
by their statements, every other route as a step that leaves these tables alone.
`revoked_at` is the value the SELECT returned, the clock is read in the
next step. A JWT is known by its user and `exp`, a key by its number; a client
presents what it was given, or rubbish. The UNIQUE column, the foreign keys and
`ON DELETE SET NULL` of the schema are part of the statements. `late` and `created` are
history.

`MCOwnerApi` puts `Auth`, `PolicyResolver` and `Blacklist` into one run. They share no
variable; each moves while the others are where they began, so the run explores all three
and not their product.

**Provisioning.** `Import`, `GetOrCreateByDomain` and `CreateLink` statement
by statement, several calls at once, any of which may stop half-way, while policies
and rules are created, attached and deleted; a deletion takes its attachments with it, and
attaching a row that is gone fails on the foreign key. `told` and `asked`
are history: the 201 and the list the caller sent; `blind` counts lookups of a site that
failed although the site existed. An import names a domain and a URL; a row that is found
is used with the URL it has. Tokens' contents and expiry are left
out; at least one credential is imported.

## 4. Runs

| run | configuration | properties |
|---|---|---|
| `enforcement_faults` | 1 link, 2 requests, limit 1, `io`, `abort`, `crash` | `TypeOK`, `QuotaOverrun`, `UsageInv`, `ReasonJustified`, `ImplementsGate` |
| `enforcement_live` | 1 link, 2 requests, 1 owner, all counters limited, no faults, fairness | `TrafficOverrun`, `ViolationOverrun`, `TerminationExplained`, `LimitTerminates`, `TerminatedDrains` |
| `enforcement_redis` | 1 link, 2 requests, all limits and deadlines, `crash`, `redis` | `EveryViolationRecorded` |
| `enforcement_stale` | 1 link, 2 requests, fairness | `UsageCatchesUp` is violated |
| `enforcement_restart` | as above with `redis` | `WarmLoadRestoresQuota` is violated |
| `access_log` | `Shutdown`: batch 2, channel 2, 4 rows, inserts fail, a guest request, a feed, a stream and an import at a time, the debug server, signal, failing listener, fairness | `ShutdownTypeOK`, `InOrder`, `NothingLost`, `StartedBatchSettles`, `RowsWritten`, `StopCompletes`, `RequestsFinish` |
| `hub` | 2 subscribers, 2 links of 2 owners, channel 2, 3 events, fairness | `HubTypeOK`, `NoSendOnClosed`, `OwnEventsOnly`, `FeedInOrder`, `PublishReturns`, `GoneReleased` |
| `guest_reuse` | 2 requests at once, 3 in all, 2 links, 2 clients at one address and 1 at another, statements fail | `GuestTypeOK`, `LogsOwnSession`, `OwnCredentialsOnly`, `GuestsBounded`, `ReturningGuestReuses` |
| `guest_headers` | as `guest_reuse` | `GuestHeadersReplaced` is violated |
| `blacklist_edit` | 1 rule, no failures | `EditKeepsBlocking` is violated |
| `owner_api` | `Auth`: 2 calls at once, 4 in all, 2 JWTs, 2 clock ticks, statements fail; `PolicyResolver`: all lists of up to 3 of 24 policies, with negative, zero, positive and absent limits; `Blacklist`: 2 rules (one broken), 2 methods, 2 paths, 4 edits, 1 check, statements fail | `AuthTypeOK`, `RegisteredOnce`, `AdmittedJustified`, `RefusedJustified`; `MostRestrictiveWins`; `BlacklistTypeOK`, `StandingRuleBlocks` |
| `provisioning_answers` | 2 calls at once, 3 in all, 2 users, 1 domain with 2 URLs, 1 policy, 1 rule, statements fail | `ProvisioningTypeOK`, `AnsweredComplete`, `SitesBounded`, `TargetStays` |

What they show:

- *Quota.* Because counting follows proxying, a limit of N lets through at most
  N - 1 plus the number of concurrent requests, plus requests whose increment
  was lost. No fault short of a Redis restart makes it worse. Bytes and
  violations have corresponding bounds: bytes under the same faults, violations when
  nothing fails. With a bound lower by one the runs fail. A limit of 0, which
  nothing in the code rules out, is reached before the first request; there the amount
  above it counts from 0 (`Below`), not from -1.
- *Durable counters.* A `usage_counters` row never exceeds Redis (and never goes
  down: section 5), although the worker overwrites it with a snapshot and requests seed
  Redis from it (one process, Redis keeps its data).
- *Termination.* Reasons are true although written three round trips after the
  read; without faults a terminated link has a reason, a link at its limit is
  terminated, no request follows, and of those under way only those remain whose
  target has not answered.
- *Evidence.* A counted violation has its `security_events` row, even across
  crashes and Redis restarts (while the insert itself does not fail).
- *Access log.* Written in order and once; rows not written are exactly those
  dropped, failed, or still held when the process ended; a quiet link's rows are written by
  the ticker. A batch that is being written when the process ends is stored or
  refused by Postgres before it is gone.
- *Shutdown.* `Run` returns and the process ends once it is told to, whatever feeds and profiles are open
  and whichever targets do not answer, unless the client of a gRPC stream never leaves. Guests served after the worker has gone are not held up by the channel
  nobody reads.
- *Credentials.* With one reverse proxy for everybody, each request carries all
  credentials of its own link, none of another link's, and neither the guest's `Cookie` nor
  its `Authorization`. A plan that could only be half built is not sent. Other headers of the
  guest do get through (section 6).
- *Authentication.* Racing registrations make one account; a key that was revoked or had
  expired when a call arrived never gets that call to a handler, on any of the
  three interfaces, and a good credential is refused only when the lookup of a key fails.
- *Hub.* No send on a closed channel, nobody sees another user's event, no
  reordering, `Publish` does not wait for subscribers, subscriptions do not leak.
- *Guests.* Races duplicate guests, but an address and User-Agent get no more rows than
  requests run at once, log rows never mix links or addresses, and after the race the session
  is stable. Both hold although other browsers at the address are taken for the guest
  (section 6).
- *Blacklist.* A rule that blocked the request throughout the check blocks it,
  whatever happens to other rules.
- *Policies and provisioning.* Each optional limit is the least stated, the violation limit
  no looser than any stated and one of them or 3 (section 6); a 201 means that all
  of the work was done. A domain has at most as many rows as calls that ran together and
  lookups that failed, and no import redirects the sessions that exist.

**Bounds.** Two concurrent requests already produce every race of a
check-then-act pair, two links or two owners every mixing of data. `MaxWork` (work
started on a link) is above the limits of the policy, so limits are reached and
passed; with 9 it is never what stops a run, since the link is terminated first.
A response has 0 or 1 byte: only comparison with the limit matters. A channel of
capacity 2 holds two events, so that they could change places, and is full for the third. Four rows fill a batch
and, while it is being written, the channel; a worker that has received at most one of them leaves
a full channel and a row to be dropped. Four calls of `Auth` are enough to register,
create a key, revoke it and use it, or to do two of these at once; two ticks pass a
lifetime of one, so that a credential is used before, at and after its end. `MaxEvents`, `MaxRequests`, `MaxCalls`, `MaxEdits`
and `MaxAttached` bound histories. Requests are interchangeable, so runs without
liveness use symmetry over them. Deadlock is checked in all Enforcement runs
and in `blacklist_edit`; it is off where a bounded history ends or where the
process exits.

**Fairness.** Enforcement: a handler goes on and the worker's ticker keeps firing (weak
fairness), except that a handler inside the reverse proxy (`AtTarget`) need never leave it:
the transport has no timeout (`director.go:41`) and the server only one for
request headers (`main.go:146`). For the other steps this takes the Go scheduler and stores that answer,
with a result or an error. Guests, owners, deadlines and faults have none. AccessLog: Go's `select`
chooses at random among ready cases, so a case that is ready again and again is taken (strong
fairness of each case); that a flush ends assumes that the pool has a connection and Postgres
answers, since its context has no deadline. `Log`, `Cancel`, `ClosePool`, `Exit` and failures have
none. Shutdown: `main` goes on when what it waits for has happened, its timer fires, an
import ends, and a guest request ends once its reverse proxy has returned; that a target answers is not
assumed, and clients that leave, arrive or send signals have no fairness. Hub: publisher and
stream goroutines run; `sync.Mutex` does not starve a waiter (its starvation mode
hands over after 1 ms), so `Cancel` is strongly fair, and so is the `ctx.Done` case of
the select. `Send` has no fairness: a client may stop reading for as long as it stays
connected.

## 5. Proofs

Every safety property of section 4 is a theorem: for any sets of links, requests,
owners, calls and so on, any policies and any bounds. Each proof has an
inductive invariant, a lemma for the initial states, a lemma for the steps with one case per action,
and a last step of temporal logic. Where many actions do little, a *step
relation* says what a step may do to the variables at stake (`RedisStep`, `RowsAhead`,
`TrafficStep`, ...); one lemma shows that every action is such a step, another that
such steps keep the invariant.

**EnforcementProofs.** The hypotheses name the faults that are excluded; all others may
happen.

| theorem | property | excluded faults |
|---|---|---|
| `TypeCorrect` | `TypeOK` | none |
| `UsageTheorem` | `UsageInv`, `UsageNeverDecreases` | `redis` |
| `GateTheorem` | `ImplementsGate` | `redis` |
| `QuotaTheorem` | `QuotaOverrun` | `redis` |
| `ReasonTheorem` | `ReasonJustified` | `redis` |
| `TrafficTheorem` | `TrafficOverrun` | `redis` |
| `ExplainedTheorem` | `TerminationExplained` | `io`, `crash` |
| `RecordedTheorem` | `EveryViolationRecorded` | `io` |
| `ViolationTheorem` | `ViolationOverrun` | `io`, `crash`, `redis` |

- `TypeCorrect` is strengthened by `ReasonKnown`: a handler that terminates a link
  carries a reason code, otherwise `TermRecord` could write "none".
- `UsageTheorem`: that `usage` does not exceed Redis is not inductive. `UsageInv` adds that
  a seed held by a request is a row that was read earlier and so is not above the row, and that
  the worker's snapshot lies between the row it will replace and Redis. No pipeline lowers a
  counter (`WarmLoadGrows`, `IncrGrows`), and only the worker writes the row.
- `GateTheorem`: each action maps to one action of `QuotaGate` or to a stutter; a warm
  load is a stutter by `UsageInv`, since seeding with a number that is not ahead
  leaves the counter as it is. `QuotaTheorem` follows from it and from
  `QuotaGateProofs!GateOverrunTheorem`, whose invariant says that forwarded requests are
  counted, lost or still uncounted, and that counted plus admitted is at most the limit less
  one plus the slots.
- `ReasonTheorem`: `ReasonInv` adds that the reason a handler holds on its way to the row is
  true already, and counters and deadlines only move forward.
- `ExplainedTheorem`: the property is inductive, with a step relation for who is about to
  write the row.
- `RecordedTheorem`: the violation number exists in four places, Redis, the row, the
  worker's snapshot and the seed of a warm load. `RecordedInv` says of each that it plus the matches
  that have their row and are not counted yet is at most the number of rows; so it
  does not matter how often and how late the number is copied, or that Redis forgets it.
- `TrafficTheorem`: `TrafficInv` charges every request that was let through with a whole
  response: bytes plus `MaxResponse` for each is at most the bound. A check that passes makes this
  true again whatever it was before, since it saw the counter below the limit.
- `ViolationTheorem`: while the link is active, whoever counted past the limit is still on
  the way to close it (`Closing`); once it is closed only requests that had come
  before can count (`Coming`), and nobody is in both sets.

The last two proofs found an error of the model: with `limit - 1` in the bound the
properties are false for a limit of 0, which the configurations did not try.

**ShutdownProofs.** `LogTypeTheorem` (while `Run` selects, the batch has room),
`InOrderTheorem` (`OrderInv`: written, collected and waiting rows follow one another, all older than
the next call of `Log`) and `NothingLostTheorem` are about `LogSpec`.
`LogKeptTheorem` carries the last two into the process (each of its steps is one of the log's or leaves
the log alone, lemma `ProcessLog`), and `ShutdownTypeTheorem` adds that a connection is held only during
a flush, and that the pool is closed exactly from `closing` or `failing` on.

**HubProofs.** `NoSendOnClosedTheorem`: what Publish will still visit is subscribed and open,
only the lock holder visits, and only a handler that has returned has closed its channel.
`OwnEventsTheorem`: a handler with a filter owns that link, and a handler about to send holds an
event of its caller. `FeedInOrderTheorem`: what was sent, is held and waits in the
channel is increasing, and a channel that Publish has still to visit holds nothing as new as the
event being published. `HubTypeTheorem` bounds the channels.

**GuestSessionProofs.** `OwnCredentialsTheorem`: `PlanInv` (a handler that is about to read the
tokens holds the cookies of its own link, one that is about to forward holds all its
credentials) and `SentInv` (only a forwarded request has reached a target, with what `Apply` makes
of its own link's credentials; a slot used again starts empty).
`GuestTypeTheorem` and `LogsOwnSessionTheorem`: `RowInv`, the guest and the session a handler
holds are rows of its own address and link. `GuestsBoundedTheorem`: rows plus handlers
about to insert, for an address and User-Agent; nobody looks up an address that has a row and finds none. `ReuseTheorem` is an action
property: it needs that `ORDER BY ... LIMIT 1` finds a row whenever there is one.

**BlacklistProofs.** `BlacklistTypeTheorem`, and `StandingRuleTheorem` from `CheckInv`: for every
rule, a check that is under way has yet to read it, has read it as blocking, or the
rule did not block at some moment since the check began.

**OwnerApiProofs.** `AuthTypeTheorem`, `RegisteredOnceTheorem`, `AdmittedTheorem` and
`RefusedTheorem` rest on `AuthInv`: keys and tokens belong to accounts, keys to devices that exist,
and what a call has found out about its credential was true when it arrived or
became false only later. `ResolverTheorem` is about every list of policies:
`LoopRuns` shows that the loop has a result, `LoopLeast` that after `i` turns each field is the least
limit of the first `i` policies and of the one it starts from (none, or 3 for violations), from
`MinPtrLeast` about one turn.

**ProvisioningProofs.** `ProvisioningTypeTheorem`, `TargetStaysTheorem` (rows keep their site, sites
their URL), `AnsweredTheorem` and `SitesBoundedTheorem`. For the third, `ImportInv` says that the
credentials of a session that is being imported, followed by those still on the list, are all of
them, and that no second call works on it; `LinkInv` that each policy or rule that was asked for is attached, deleted, or
still on the list. For the fourth, `LookupInv` keeps apart lookups that failed from calls that
have yet to look.

**Induction.** The library's induction theorems have operator parameters that the provers
cannot instantiate. Two arguments that need induction over numbers (the largest row number of a table,
`LargestExists`; the turns of a loop, `EveryTurn`) take the least counterexample instead, from
`WFMin` and `NatLessThanWellFounded`, which are about sets.

**Assumptions.** The ASSUMEs of the modules (constants have their types, sets of requests and
calls are finite and not empty, sizes are positive, an absent limit is not an integer, a credential's
value is not one that guests send), which TLC evaluates in the runs, and the excluded faults of the table. `enforcement_restart`
shows why a Redis that forgets is excluded. Under `io` or `crash` the code itself
does not keep `TerminationExplained` and `ViolationOverrun`: the row or the
status update that failed is not tried again; under `io` the row that `EveryViolationRecorded` asks for is
the one whose insert failed.

**Only model-checked.** `LimitTerminates`, `TerminatedDrains`, `StartedBatchSettles`, `RowsWritten`,
`StopCompletes`, `RequestsFinish`, `PublishReturns` and `GoneReleased`: liveness under fairness is out of the
prover's reach. Nothing else that a passing run checks is left unproved.

## 6. Disagreements with the documentation

With a run (`findings` in `PROJECT.json`):

- `enforcement_restart`: `limiter/counter_store.go:36` says the warm load keeps quotas
  across restarts. A request reads a row of 0, another is counted and the worker stores 1, Redis
  restarts, the first request's `SETNX` seeds 0, and the `SETNX` of a request that has read 1
  leaves it. (An `INCRBY` of `AfterProxy` can take the key in the same way, in a longer trace.)
- `enforcement_stale`: `limiter/sync_worker.go:16` promises at most one interval of
  staleness. An increment between `Get` and `ClearDirty` loses its mark.
- `blacklist_edit`: replacing a method list is not atomic; a method that is in both
  lists is free for a moment, against business rule 6 (`src/README.md:29`).
- `guest_headers`: `Apply` is said to replace "whatever the guest sent" (`injector.go:78`); only
  `Cookie` and `Authorization` are deleted, a token under another header name is added next to
  the guest's.

Seen while modelling, visible in the models, without a run of their own:

- `GetOrCreate` "identifies a guest by IP+UA+fingerprint" (`guests.go:19`); the query does not
  compare the User-Agent and the fingerprint is always empty, so a second browser at an address
  is taken for the first, and shares its session and log rows. `GuestsBounded` and
  `ReturningGuestReuses` are about rows of one address and User-Agent, and do not say to whom
  a request is assigned.
- The resolver takes "the minimum of each field across every attached policy"
  (`policy_resolver.go:14`, `src/README.md:192`); a `max_violation_count` above 3 never takes
  effect, because the fold starts at 3: a lone policy that states 10 resolves to 3.
  `MostRestrictiveWins` holds under either reading.
- `AutoTerminate` is called idempotent (`link_service.go:151`); two callers that both read
  "active" write two `link_terminations` rows.
- `IncrRequests` is "called before proxying" (`counter_store.go:97`); it is called after.
- `Run` "flushes whatever is left" (`logwriter.go:60`); it flushes the batch and leaves the channel.
- Business rule 4 (`src/README.md:27`): all log rows of a guest belong to one
  `guest_session`; two first requests at once get one each.
- A duplicate target site is called cosmetic (`sessions.go:34`); site-level
  blacklist rules attach to one of the rows and do not cover sessions of the other.
- A registration that loses the race for its email is answered 500, not the 409 of
  `ErrEmailTaken` (`handlers_auth.go:30`).
- `link_service.go:54` lets the owner "retry the attach calls"; a failed policy
  attachment has no route to retry.

## 7. Not modelled

- The rewriting of URLs in the director, and what the read-only handlers return: functions of
  one request or one query, without state.
- An API key or JWT that ends while a stream is open: streams are authenticated once, and
  the model says nothing about how long they last.
- Start-up: sequential, and any error ends the process before it serves.
- Page rendering of the dashboard; statistics views (SQL, never refreshed by the application).
- Encryption: a wrapper of AES-GCM without state.
- Replication, change capture, monitoring and backup: configuration of third-party systems.
  Constraints of the schema the code relies on are part of the actions.
- Counter overflow: `request_count` and `violation_count` are 32-bit columns
  (`migrations/00004`); the models count without a bound.
- Two edits of one rule's methods at the same time: nothing in `handlers_blacklist.go` keeps them
  apart, `Blacklist` runs one editor at a time.
- The connections requests and the counter worker hold when the pool closes, and the shutdown of
  the Redis client.
- More than one application process on the same stores.

------------------------- MODULE EnforcementProofs -------------------------
(***************************************************************************)
(* Proofs about Enforcement, for any links, policies, number of requests   *)
(* and owners.                                                             *)
(***************************************************************************)
EXTENDS Enforcement, FiniteSetTheorems, TLAPS

TerminationPCs == {"termCheck", "termUpdate", "termRecord"}

\* A handler that terminates a link knows why.
ReasonKnown ==
    \A p \in Procs : pc[p] \in TerminationPCs => reason[p] \in ReasonCodes

TypeInv == TypeOK /\ ReasonKnown

-----------------------------------------------------------------------------
(* The operators of CounterStore.                                          *)

LEMMA GetType ==
    ASSUME NEW k \in Keys
    PROVE  GetCounters(k) \in Counters
    BY DEF Keys, Counters, GetCounters, IntOrZero, Nil

LEMMA WarmLoadType ==
    ASSUME NEW k \in Keys, NEW c \in Counters, NEW done
    PROVE  WarmLoad(k, c, done) \in Keys
    BY DEF Keys, Counters, WarmLoad, SetNX, Nil

LEMMA IncrType ==
    ASSUME NEW k \in Keys, NEW f \in Fields, NEW n \in Nat
    PROVE  IncrBy(k, f, n) \in Keys
    BY DEF Keys, IncrBy, IntOrZero, Nil

\* No pipeline lowers a counter.
LEMMA WarmLoadGrows ==
    ASSUME NEW k \in Keys, NEW c \in Counters, NEW done, NEW f \in Fields
    PROVE  IntOrZero(k[f]) <= IntOrZero(WarmLoad(k, c, done)[f])
    BY DEF Keys, Counters, WarmLoad, SetNX, IntOrZero, Nil

LEMMA IncrGrows ==
    ASSUME NEW k \in Keys, NEW g \in Fields, NEW n \in Nat, NEW f \in Fields
    PROVE  IntOrZero(k[f]) <= IntOrZero(IncrBy(k, g, n)[f])
    BY DEF Keys, IncrBy, IntOrZero, Nil

\* A warm load from numbers that are not ahead of Redis changes none.
LEMMA WarmLoadKeeps ==
    ASSUME NEW k \in Keys, NEW c \in Counters, NEW done, NEW f \in Fields,
           c[f] <= IntOrZero(k[f])
    PROVE  IntOrZero(WarmLoad(k, c, done)[f]) = IntOrZero(k[f])
    BY DEF Keys, Counters, WarmLoad, SetNX, IntOrZero, Nil

-----------------------------------------------------------------------------
(* Type correctness.                                                       *)

LEMMA ReasonTypes ==
    ASSUME NEW l \in Links, NEW c \in Counters
    PROVE  /\ LimitReason(l, c) \in ReasonCodes \cup {NoReason}
           /\ BeforeReason(l, c) \in ReasonCodes \cup {NoReason}
    BY DEF LimitReason, BeforeReason, ReasonCodes, NoReason

\* TerminateOr, the only place a handler of a request picks up a reason.
LEMMA TerminateOrType ==
    ASSUME TypeInv, NEW r \in Requests, NEW q \in ReasonCodes \cup {NoReason},
           NEW where \in RequestPCs \ TerminationPCs, TerminateOr(r, q, where)
    PROVE  /\ pc' \in [Procs -> RequestPCs]
           /\ \A o \in Owners : pc'[o] \in OwnerPCs
           /\ reason' \in [Procs -> ReasonCodes \cup {NoReason}]
           /\ ReasonKnown'
    BY ConstantsAssumption
    DEF TypeInv, TypeOK, ReasonKnown, TerminateOr, Goto, Procs, RequestPCs,
        TerminationPCs, ReasonCodes, NoReason

LEMMA InitType == Init => TypeInv
    BY DEF Init, TypeInv, TypeOK, ReasonKnown, RequestPCs, OwnerPCs, WorkerPCs,
           TerminationPCs, Counters, Keys, ZeroCounters, NoKeys, Procs

\* The steps of a request.
LEMMA HandlerType ==
    ASSUME TypeInv, NEW r \in Requests,
           \/ \E l \in Links : Lookup(r, l) \/ LookupRefused(r, l)
           \/ HandlerStep(r)
    PROVE  TypeInv'
<1> USE ConstantsAssumption
    DEF TypeInv, TypeOK, ReasonKnown, Goto, Return, Procs, RequestPCs, OwnerPCs,
        TerminationPCs, storeVars, workerVars, history
<1>1. ASSUME NEW l \in Links, Lookup(r, l) PROVE TypeInv'
    BY <1>1 DEF Lookup
<1>2. ASSUME NEW l \in Links, LookupRefused(r, l) PROVE TypeInv'
    BY <1>2 DEF LookupRefused, vars
<1>3. CASE ReadUsage(r)
    BY <1>3 DEF ReadUsage
<1>4. CASE SeedRedis(r)
  <2>1. WarmLoad(redis[on[r]], seed[r], Fields) \in Keys
    BY WarmLoadType
  <2>2. ZeroCounters \in Counters
    BY DEF ZeroCounters, Counters
  <2>. QED  BY <1>4, <2>1, <2>2 DEF SeedRedis
<1>5. CASE BlacklistHit(r)
    BY <1>5 DEF BlacklistHit
<1>6. CASE BlacklistMiss(r)
  <2>1. (IF TTLExpired(on[r]) THEN "ttl_expired" ELSE NoReason)
            \in ReasonCodes \cup {NoReason}
    BY DEF ReasonCodes
  <2>. QED  BY <1>6, <2>1, TerminateOrType DEF BlacklistMiss
<1>7. CASE RecordEvent(r)
  <2>1. on[r] \in Links /\ events' = [events EXCEPT ![on[r]] = events[on[r]] + 1]
    BY <1>7 DEF RecordEvent
  <2>2. events' \in [Links -> Nat]
    BY <2>1
  <2>. QED  BY <1>7, <2>2 DEF RecordEvent
<1>8. CASE CountViolation(r)
  <2>1. IncrBy(redis[on[r]], "violations", 1) \in Keys
    BY IncrType DEF Fields
  <2>2. \A n : (IF n >= Policy[on[r]].maxViolations
                THEN "violation_limit" ELSE NoReason) \in ReasonCodes \cup {NoReason}
    BY DEF ReasonCodes
  <2>. QED  BY <1>8, <2>1, <2>2, TerminateOrType
            DEF CountViolation, IncrAndMarkDirty, AfterViolation
<1>9. CASE CheckLimits(r)
  <2>1. BeforeReason(on[r], GetCounters(redis[on[r]])) \in ReasonCodes \cup {NoReason}
    BY GetType, ReasonTypes
  <2>. QED  BY <1>9, <2>1, TerminateOrType DEF CheckLimits
<1>10. CASE Forward(r)
  <2>1. on[r] \in Links /\ forwarded' = [forwarded EXCEPT ![on[r]] = forwarded[on[r]] + 1]
    BY <1>10 DEF Forward
  <2>2. forwarded' \in [Links -> Nat]
    BY <2>1
  <2>. QED  BY <1>10, <2>2 DEF Forward
<1>11. CASE CountRequest(r)
  <2>1. IncrBy(redis[on[r]], "requests", 1) \in Keys
    BY IncrType DEF Fields
  <2>. QED  BY <1>11, <2>1 DEF CountRequest, IncrAndMarkDirty
<1>12. ASSUME NEW n \in ResponseBytes, CountBytes(r, n) PROVE TypeInv'
  <2>1. IncrBy(redis[on[r]], "bytes", n) \in Keys
    BY IncrType DEF Fields, ResponseBytes
  <2>. QED  BY <1>12, <2>1 DEF CountBytes, IncrAndMarkDirty
<1>13. CASE Recheck(r)
  <2>1. LimitReason(on[r], GetCounters(redis[on[r]])) \in ReasonCodes \cup {NoReason}
    BY GetType, ReasonTypes
  <2>. QED  BY <1>13, <2>1, TerminateOrType DEF Recheck
<1>. QED  BY <1>1, <1>2, <1>3, <1>4, <1>5, <1>6, <1>7, <1>8, <1>9, <1>10,
             <1>11, <1>12, <1>13 DEF HandlerStep

\* The steps of AutoTerminate and TerminateLink.
LEMMA TerminateType ==
    ASSUME TypeInv, NEW p \in Procs,
           TerminateStep(p) \/ (p \in Owners /\ \E l \in Links : OwnerTerminates(p, l))
    PROVE  TypeInv'
<1> USE ConstantsAssumption
    DEF TypeInv, TypeOK, ReasonKnown, Goto, Return, Procs, RequestPCs, OwnerPCs,
        TerminationPCs, storeVars, workerVars, history
<1>1. ASSUME NEW l \in Links, p \in Owners, OwnerTerminates(p, l) PROVE TypeInv'
    BY <1>1 DEF OwnerTerminates, ReasonCodes
<1>2. CASE TermCheck(p)
    BY <1>2, ZenonT(60) DEF TermCheck
<1>3. CASE TermUpdate(p)
    BY <1>3 DEF TermUpdate
<1>4. CASE TermRecord(p)
  <2>1. on[p] \in Links /\ reason[p] \in ReasonCodes
    BY <1>4 DEF TermRecord
  <2>2. Append(terminations[on[p]], reason[p]) \in Seq(ReasonCodes)
    BY <2>1
  <2>3. terminations' \in [Links -> Seq(ReasonCodes)]
    BY <1>4, <2>1, <2>2 DEF TermRecord
  <2>. QED  BY <1>4, <2>3 DEF TermRecord
<1>. QED  BY <1>1, <1>2, <1>3, <1>4 DEF TerminateStep

\* The steps of SyncWorker, and time.
LEMMA SyncType ==
    ASSUME TypeInv,
           SyncStep \/ \E l \in Links, d \in Deadlines : DeadlinePasses(l, d)
    PROVE  TypeInv'
<1> USE DEF TypeInv, TypeOK, ReasonKnown, WorkerPCs, storeVars, workerVars, history
<1>1. CASE SyncTick
    BY <1>1 DEF SyncTick
<1>2. ASSUME NEW l \in Links, SyncRead(l) PROVE TypeInv'
  <2>1. GetCounters(redis[l]) \in Counters
    BY GetType
  <2>. QED  BY <1>2, <2>1 DEF SyncRead
<1>3. CASE SyncUpsert
  <2>1. ZeroCounters \in Counters
    BY DEF ZeroCounters, Counters
  <2>. QED  BY <1>3, <2>1 DEF SyncUpsert
<1>4. CASE SyncClear
    BY <1>4 DEF SyncClear, AfterLink
<1>5. ASSUME NEW l \in Links, NEW d \in Deadlines, DeadlinePasses(l, d)
      PROVE  TypeInv'
    BY <1>5 DEF DeadlinePasses
<1>. QED  BY <1>1, <1>2, <1>3, <1>4, <1>5 DEF SyncStep

\* A pipeline that breaks off leaves well-formed keys.
LEMMA IncrPrefixType ==
    ASSUME TypeInv, NEW l \in Links, NEW f \in Fields, NEW n \in Nat,
           IncrPrefix(l, f, n)
    PROVE  redis' \in [Links -> Keys] /\ dirty' \subseteq Links
<1>1. IncrBy(redis[l], f, n) \in Keys
    BY IncrType DEF TypeInv, TypeOK
<1>. QED  BY <1>1 DEF TypeInv, TypeOK, IncrPrefix, IncrAndMarkDirty

\* The set of uncounted requests is finite.
LEMMA UncountedFinite ==
    ASSUME NEW l \in Links
    PROVE  IsFiniteSet(Uncounted(l)) /\ Cardinality(Uncounted(l)) \in Nat
<1>1. Uncounted(l) \in SUBSET Requests
    BY DEF Uncounted
<1>2. IsFiniteSet(Uncounted(l))
    BY <1>1, ConstantsAssumption, FS_Subset
<1>. QED  BY <1>2, FS_CardinalityType

\* The faults that hit one handler.
LEMMA HandlerFaultType ==
    ASSUME TypeInv, NEW p \in Procs,
           \/ FailRead(p) \/ FailUpdate(p) \/ FailRecord(p)
           \/ /\ p \in Requests
              /\ \/ \E done \in WarmPrefixes : FailSeed(p, done)
                 \/ FailEvent(p) \/ FailCountRequest(p) \/ FailCountViolation(p)
                 \/ \E n \in ResponseBytes : FailCountBytes(p, n)
                 \/ Abort(p)
    PROVE  TypeInv'
<1> USE ConstantsAssumption
    DEF TypeInv, TypeOK, ReasonKnown, Goto, Return, Procs, RequestPCs, OwnerPCs,
        TerminationPCs, storeVars, workerVars, history
<1>1. CASE FailRead(p)
    BY <1>1 DEF FailRead, Reading, Planning
<1>2. CASE FailUpdate(p)
  <2>1. status' \in [Links -> {"active", "terminated"}]
    BY <1>2 DEF FailUpdate
  <2>. QED  BY <1>2, <2>1 DEF FailUpdate
<1>3. CASE FailRecord(p)
    BY <1>3 DEF FailRecord
<1>4. ASSUME p \in Requests, NEW done \in WarmPrefixes, FailSeed(p, done)
      PROVE  TypeInv'
  <2>1. WarmLoad(redis[on[p]], seed[p], done) \in Keys
    BY <1>4, WarmLoadType
  <2>2. ZeroCounters \in Counters
    BY DEF ZeroCounters, Counters
  <2>. QED  BY <1>4, <2>1, <2>2 DEF FailSeed
<1>5. ASSUME p \in Requests, FailEvent(p) PROVE TypeInv'
    BY <1>5 DEF FailEvent
<1>6. ASSUME p \in Requests, FailCountRequest(p) PROVE TypeInv'
  <2>1. redis' \in [Links -> Keys] /\ dirty' \subseteq Links
    <3>1. on[p] \in Links /\ IncrPrefix(on[p], "requests", 1)
        BY <1>6 DEF FailCountRequest
    <3>2. "requests" \in Fields /\ 1 \in Nat
        BY DEF Fields
    <3> HIDE DEF TypeInv
    <3>. QED  BY <3>1, <3>2, IncrPrefixType
  <2>2. lost' \in [Links -> Nat]
    <3>1. lost' = lost \/ lost' = [lost EXCEPT ![on[p]] = lost[on[p]] + 1]
        BY <1>6 DEF FailCountRequest
    <3>2. lost \in [Links -> Nat] /\ on[p] \in Links
        OBVIOUS
    <3>3. lost[on[p]] + 1 \in Nat
        BY <3>2
    <3> HIDE ConstantsAssumption DEF TypeInv, TypeOK, ReasonKnown, Goto, Return, Procs
    <3>. QED  BY <3>1, <3>2, <3>3
  <2>. QED  BY <1>6, <2>1, <2>2 DEF FailCountRequest
<1>7. ASSUME p \in Requests, FailCountViolation(p) PROVE TypeInv'
  <2>1. redis' \in [Links -> Keys] /\ dirty' \subseteq Links
    <3>1. on[p] \in Links /\ IncrPrefix(on[p], "violations", 1)
        BY <1>7 DEF FailCountViolation
    <3>2. "violations" \in Fields /\ 1 \in Nat
        BY DEF Fields
    <3> HIDE DEF TypeInv
    <3>. QED  BY <3>1, <3>2, IncrPrefixType
  <2>2. \A n : (IF n >= Policy[on[p]].maxViolations
                THEN "violation_limit" ELSE NoReason) \in ReasonCodes \cup {NoReason}
    BY DEF ReasonCodes
  <2>. QED  BY <1>7, <2>1, <2>2, TerminateOrType
            DEF FailCountViolation, AfterViolation
<1>8. ASSUME p \in Requests, NEW n \in ResponseBytes, FailCountBytes(p, n)
      PROVE  TypeInv'
  <2>1. redis' \in [Links -> Keys] /\ dirty' \subseteq Links
    <3>1. on[p] \in Links /\ IncrPrefix(on[p], "bytes", n)
        BY <1>8 DEF FailCountBytes
    <3>2. "bytes" \in Fields /\ n \in Nat
        BY DEF Fields, ResponseBytes
    <3> HIDE DEF TypeInv
    <3>. QED  BY <3>1, <3>2, IncrPrefixType
  <2>. QED  BY <1>8, <2>1 DEF FailCountBytes
<1>9. ASSUME p \in Requests, Abort(p) PROVE TypeInv'
  <2>1. lost' \in [Links -> Nat]
    <3>1. lost' = [lost EXCEPT ![on[p]] = lost[on[p]] + 1]
        BY <1>9 DEF Abort
    <3>2. lost \in [Links -> Nat] /\ on[p] \in Links
        OBVIOUS
    <3>3. lost[on[p]] + 1 \in Nat
        BY <3>2
    <3> HIDE ConstantsAssumption DEF TypeInv, TypeOK, ReasonKnown, Goto, Return, Procs
    <3>. QED  BY <3>1, <3>2, <3>3
  <2>. QED  BY <1>9, <2>1 DEF Abort
<1>. QED  BY <1>1, <1>2, <1>3, <1>4, <1>5, <1>6, <1>7, <1>8, <1>9

\* The faults of the worker, of the process and of Redis.
LEMMA SystemFaultType ==
    ASSUME TypeInv, FailSync \/ Crash \/ RedisRestart
    PROVE  TypeInv'
<1> USE DEF TypeInv, TypeOK, ReasonKnown, storeVars, workerVars, history
<1>0. ZeroCounters \in Counters /\ NoKeys \in Keys
    BY DEF ZeroCounters, Counters, NoKeys, Keys
<1>1. CASE FailSync
  <2>1. /\ usage' \in [Links -> Counters]
        /\ worker' \in WorkerPCs
        /\ todo' \subseteq Links
        /\ snap' \in Counters
    <3>1. CASE worker = "next"
        BY <1>1, <3>1 DEF FailSync, WorkerPCs
    <3>2. CASE worker = "upsert"
      <4>1. [usage EXCEPT ![cur] = snap] \in [Links -> Counters]
        OBVIOUS
      <4>. QED  BY <1>0, <1>1, <3>2, <4>1 DEF FailSync, AfterLink, WorkerPCs
    <3>3. CASE worker = "clear"
        BY <1>1, <3>3 DEF FailSync, AfterLink, WorkerPCs
    <3>. QED  BY <1>1, <3>1, <3>2, <3>3 DEF FailSync
  <2>. QED  BY <1>1, <2>1 DEF FailSync
<1>2. CASE Crash
  <2>1. lost' \in [Links -> Nat]
    BY <1>2, UncountedFinite DEF Crash
  <2>. QED  BY <1>0, <1>2, <2>1
            DEF Crash, RequestPCs, OwnerPCs, WorkerPCs, TerminationPCs, Procs
<1>3. CASE RedisRestart
    BY <1>0, <1>3 DEF RedisRestart
<1>. QED  BY <1>1, <1>2, <1>3

LEMMA NextType == TypeInv /\ [Next]_vars => TypeInv'
<1> SUFFICES ASSUME TypeInv, [Next]_vars PROVE TypeInv'
    OBVIOUS
<1>1. ASSUME NEW r \in Requests, NEW l \in Links, Lookup(r, l) \/ LookupRefused(r, l)
      PROVE  TypeInv'
    BY <1>1, HandlerType
<1>2. ASSUME NEW r \in Requests, HandlerStep(r) PROVE TypeInv'
    BY <1>2, HandlerType
<1>3. ASSUME NEW o \in Owners, NEW l \in Links, OwnerTerminates(o, l) PROVE TypeInv'
    BY <1>3, TerminateType DEF Procs
<1>4. ASSUME NEW p \in Procs, TerminateStep(p) PROVE TypeInv'
    BY <1>4, TerminateType
<1>5. CASE SyncStep
    BY <1>5, SyncType
<1>6. ASSUME NEW l \in Links, NEW d \in Deadlines, DeadlinePasses(l, d) PROVE TypeInv'
    BY <1>6, SyncType
<1>7. CASE Fault
  <2>1. ASSUME NEW r \in Requests,
               \/ \E done \in WarmPrefixes : FailSeed(r, done)
               \/ FailEvent(r) \/ FailCountRequest(r) \/ FailCountViolation(r)
               \/ \E n \in ResponseBytes : FailCountBytes(r, n)
               \/ Abort(r)
        PROVE  TypeInv'
    <3>1. r \in Procs
        BY DEF Procs
    <3>. QED  BY <2>1, <3>1, HandlerFaultType
  <2>2. ASSUME NEW p \in Procs, FailRead(p) \/ FailUpdate(p) \/ FailRecord(p)
        PROVE  TypeInv'
    BY <2>2, HandlerFaultType
  <2>3. CASE FailSync \/ Crash \/ RedisRestart
    BY <2>3, SystemFaultType
  <2>. QED  BY <1>7, <2>1, <2>2, <2>3 DEF Fault
<1>8. CASE UNCHANGED vars
    BY <1>8 DEF vars, TypeInv, TypeOK, ReasonKnown
<1>. QED  BY <1>1, <1>2, <1>3, <1>4, <1>5, <1>6, <1>7, <1>8 DEF Next

\* In every reachable state every variable has its type, whatever fails.
THEOREM TypeCorrect == Spec => []TypeOK
<1>1. TypeInv => TypeOK
    BY DEF TypeInv
<1>. QED  BY <1>1, InitType, NextType, PTL DEF Spec

-----------------------------------------------------------------------------
(* The durable counters, while Redis keeps its data.                       *)

\* What a step may do to the keys in Redis: one pipeline on one link.
Warmed(l, r, done) == redis' = [redis EXCEPT ![l] = WarmLoad(@, seed[r], done)]
Incremented(l) ==
    \E f \in Fields, n \in Nat : redis' = [redis EXCEPT ![l] = IncrBy(@, f, n)]

RedisStep ==
    \/ UNCHANGED redis
    \/ \E l \in Links : Incremented(l)
    \/ \E r \in Requests, done \in WarmPrefixes :
          pc[r] = "warm" /\ Warmed(on[r], r, done)

\* What a step may do to usage_counters.
UsageStep ==
    \/ UNCHANGED usage
    \/ worker = "upsert" /\ usage' = [usage EXCEPT ![cur] = snap]

LEMMA StoreSteps ==
    ASSUME TypeInv, [Next]_vars
    PROVE  (RedisStep \/ RedisRestart) /\ UsageStep
<1> USE DEF storeVars, workerVars, history, UsageStep
<1>1. ASSUME NEW r \in Requests, NEW l \in Links, Lookup(r, l) \/ LookupRefused(r, l)
      PROVE  RedisStep /\ UsageStep
    BY <1>1 DEF Lookup, LookupRefused, vars, RedisStep
<1>2. ASSUME NEW r \in Requests, HandlerStep(r) PROVE RedisStep /\ UsageStep
  <2>1. CASE SeedRedis(r)
    <3>1. Fields \in WarmPrefixes
        BY DEF WarmPrefixes
    <3>. QED  BY <2>1, <3>1 DEF SeedRedis, RedisStep, Warmed
  <2>2. CASE \/ ReadUsage(r) \/ BlacklistHit(r) \/ BlacklistMiss(r) \/ RecordEvent(r)
             \/ CheckLimits(r) \/ Forward(r) \/ Recheck(r)
    BY <2>2 DEF ReadUsage, BlacklistHit, BlacklistMiss, RecordEvent, CheckLimits,
                Forward, Recheck, RedisStep
  <2>3. ASSUME CountViolation(r) \/ CountRequest(r)
                  \/ \E n \in ResponseBytes : CountBytes(r, n)
        PROVE  RedisStep /\ UsageStep
    <3>1. on[r] \in Links
        BY DEF TypeInv, TypeOK, Procs
    <3>2. {"requests", "bytes", "violations"} \subseteq Fields /\ 1 \in Nat
                /\ ResponseBytes \subseteq Nat
        BY ConstantsAssumption DEF Fields, ResponseBytes
    <3>3. Incremented(on[r]) /\ UNCHANGED usage
        BY <2>3, <3>2 DEF CountViolation, CountRequest, CountBytes,
                          IncrAndMarkDirty, Incremented
    <3>. QED  BY <3>1, <3>3 DEF RedisStep
  <2>. QED  BY <1>2, <2>1, <2>2, <2>3 DEF HandlerStep
<1>3. ASSUME NEW o \in Owners, NEW l \in Links, OwnerTerminates(o, l)
      PROVE  RedisStep /\ UsageStep
    BY <1>3 DEF OwnerTerminates, RedisStep
<1>4. ASSUME NEW p \in Procs, TerminateStep(p) PROVE RedisStep /\ UsageStep
    BY <1>4 DEF TerminateStep, TermCheck, TermUpdate, TermRecord, RedisStep
<1>5. CASE SyncStep
    BY <1>5 DEF SyncStep, SyncTick, SyncRead, SyncUpsert, SyncClear, RedisStep
<1>6. ASSUME NEW l \in Links, NEW d \in Deadlines, DeadlinePasses(l, d)
      PROVE  RedisStep /\ UsageStep
    BY <1>6 DEF DeadlinePasses, RedisStep
<1>7. ASSUME Fault PROVE (RedisStep \/ RedisRestart) /\ UsageStep
  <2>1. ASSUME NEW r \in Requests, NEW done \in WarmPrefixes, FailSeed(r, done)
        PROVE  RedisStep /\ UsageStep
    BY <2>1 DEF FailSeed, RedisStep, Warmed
  <2>2. ASSUME NEW r \in Requests,
               \/ FailCountRequest(r) \/ FailCountViolation(r)
               \/ \E n \in ResponseBytes : FailCountBytes(r, n)
        PROVE  RedisStep /\ UsageStep
    <3>1. on[r] \in Links
        BY DEF TypeInv, TypeOK, Procs
    <3>2. {"requests", "bytes", "violations"} \subseteq Fields /\ 1 \in Nat
                /\ ResponseBytes \subseteq Nat
        BY ConstantsAssumption DEF Fields, ResponseBytes
    <3>3. (UNCHANGED redis \/ Incremented(on[r])) /\ UNCHANGED usage
        BY <2>2, <3>2 DEF FailCountViolation, FailCountRequest, FailCountBytes,
                          IncrPrefix, IncrAndMarkDirty, Incremented
    <3>. QED  BY <3>1, <3>3 DEF RedisStep
  <2>3. ASSUME NEW r \in Requests, FailEvent(r) \/ Abort(r)
        PROVE  RedisStep /\ UsageStep
    BY <2>3 DEF FailEvent, Abort, RedisStep
  <2>4. ASSUME NEW p \in Procs, FailRead(p) \/ FailUpdate(p) \/ FailRecord(p)
        PROVE  RedisStep /\ UsageStep
    BY <2>4 DEF FailRead, FailUpdate, FailRecord, RedisStep
  <2>5. CASE FailSync
    BY <2>5 DEF FailSync, RedisStep
  <2>6. CASE Crash
    BY <2>6 DEF Crash, RedisStep
  <2>7. CASE RedisRestart
    BY <2>7 DEF RedisRestart
  <2>. QED  BY <1>7, <2>1, <2>2, <2>3, <2>4, <2>5, <2>6, <2>7 DEF Fault
<1>8. CASE UNCHANGED vars
    BY <1>8 DEF vars, RedisStep
<1>. QED  BY <1>1, <1>2, <1>3, <1>4, <1>5, <1>6, <1>7, <1>8 DEF Next

LEMMA StoreKept ==
    ASSUME TypeInv, [Next]_vars, "redis" \notin Faults
    PROVE  RedisStep /\ UsageStep
BY StoreSteps DEF RedisRestart

\* No step lowers a counter in Redis.
LEMMA RedisGrows ==
    ASSUME TypeInv, RedisStep, NEW l \in Links, NEW f \in Fields
    PROVE  IntOrZero(redis[l][f]) <= IntOrZero(redis'[l][f])
<1>0. redis \in [Links -> Keys] /\ IntOrZero(redis[l][f]) \in Nat
    BY DEF TypeInv, TypeOK, Keys, IntOrZero, Nil
<1>1. CASE UNCHANGED redis
    BY <1>0, <1>1
<1>2. ASSUME NEW k \in Links, Incremented(k)
      PROVE  IntOrZero(redis[l][f]) <= IntOrZero(redis'[l][f])
    BY <1>0, <1>2, IncrGrows DEF Incremented
<1>3. ASSUME NEW r \in Requests, NEW done \in WarmPrefixes, Warmed(on[r], r, done)
      PROVE  IntOrZero(redis[l][f]) <= IntOrZero(redis'[l][f])
  <2>1. on[r] \in Links /\ seed[r] \in Counters
    BY DEF TypeInv, TypeOK, Procs
  <2>. QED  BY <1>0, <1>3, <2>1, WarmLoadGrows DEF Warmed
<1>. QED  BY <1>1, <1>2, <1>3 DEF RedisStep

\* Where the seed of a request that is about to warm-load comes from.
SeedStep ==
    \A q \in Requests : pc'[q] = "warm" =>
        /\ on'[q] = on[q]
        /\ \/ pc[q] = "warm" /\ seed'[q] = seed[q]
           \/ seed'[q] = usage[on[q]] /\ UNCHANGED usage

\* Where the worker's snapshot comes from.
SnapStep ==
    worker' = "upsert" =>
        /\ UNCHANGED usage
        /\ \/ worker = "upsert" /\ UNCHANGED <<cur, snap>>
           \/ cur' \in Links /\ snap' = GetCounters(redis[cur']) /\ UNCHANGED redis

LEMMA LocalSteps ==
    ASSUME TypeInv, [Next]_vars
    PROVE  SeedStep /\ SnapStep
<1> USE DEF TypeInv, TypeOK, Procs, Goto, Return, storeVars, workerVars, history
<1>1. ASSUME NEW r \in Requests, NEW l \in Links, Lookup(r, l) \/ LookupRefused(r, l)
      PROVE  SeedStep /\ SnapStep
    BY <1>1 DEF Lookup, LookupRefused, vars, SeedStep, SnapStep
<1>2. ASSUME NEW r \in Requests, HandlerStep(r) PROVE SeedStep /\ SnapStep
  <2>1. SnapStep
    BY <1>2 DEF SnapStep, HandlerStep, ReadUsage, SeedRedis, BlacklistHit,
                BlacklistMiss, RecordEvent, CountViolation, CheckLimits, Forward,
                CountRequest, CountBytes, Recheck
  <2>2. CASE ReadUsage(r)
    BY <2>1, <2>2 DEF ReadUsage, SeedStep
  <2>3. CASE SeedRedis(r)
    BY <2>1, <2>3 DEF SeedRedis, SeedStep
  <2>4. CASE \/ BlacklistHit(r) \/ BlacklistMiss(r) \/ RecordEvent(r)
             \/ CountViolation(r) \/ CheckLimits(r) \/ Forward(r)
             \/ CountRequest(r) \/ (\E n \in ResponseBytes : CountBytes(r, n))
             \/ Recheck(r)
    BY <2>1, <2>4
    DEF BlacklistHit, BlacklistMiss, RecordEvent, CountViolation, AfterViolation,
        CheckLimits, Forward, CountRequest, CountBytes, Recheck, TerminateOr,
        SeedStep
  <2>. QED  BY <1>2, <2>2, <2>3, <2>4 DEF HandlerStep
<1>3. ASSUME NEW o \in Owners, NEW l \in Links, OwnerTerminates(o, l)
      PROVE  SeedStep /\ SnapStep
    BY <1>3, ConstantsAssumption DEF OwnerTerminates, SeedStep, SnapStep
<1>4. ASSUME NEW p \in Procs, TerminateStep(p) PROVE SeedStep /\ SnapStep
    BY <1>4 DEF TerminateStep, TermCheck, TermUpdate, TermRecord, SeedStep, SnapStep
<1>5. CASE SyncStep
    BY <1>5 DEF SyncStep, SyncTick, SyncRead, SyncUpsert, SyncClear, AfterLink,
                SeedStep, SnapStep
<1>6. ASSUME NEW l \in Links, NEW d \in Deadlines, DeadlinePasses(l, d)
      PROVE  SeedStep /\ SnapStep
    BY <1>6 DEF DeadlinePasses, SeedStep, SnapStep
<1>7. CASE Fault
  <2>1. ASSUME NEW r \in Requests,
               \/ \E done \in WarmPrefixes : FailSeed(r, done)
               \/ FailEvent(r) \/ FailCountRequest(r) \/ FailCountViolation(r)
               \/ \E n \in ResponseBytes : FailCountBytes(r, n)
               \/ Abort(r)
        PROVE  SeedStep /\ SnapStep
    BY <2>1 DEF FailSeed, FailEvent, FailCountRequest, FailCountViolation,
                AfterViolation, FailCountBytes, Abort, TerminateOr, SeedStep, SnapStep
  <2>2. ASSUME NEW p \in Procs, FailRead(p) \/ FailUpdate(p) \/ FailRecord(p)
        PROVE  SeedStep /\ SnapStep
    BY <2>2 DEF FailRead, FailUpdate, FailRecord, SeedStep, SnapStep
  <2>3. CASE FailSync
    BY <2>3 DEF FailSync, AfterLink, SeedStep, SnapStep
  <2>4. CASE Crash
    BY <2>4 DEF Crash, SeedStep, SnapStep
  <2>5. CASE RedisRestart
    BY <2>5 DEF RedisRestart, SeedStep, SnapStep
  <2>. QED  BY <1>7, <2>1, <2>2, <2>3, <2>4, <2>5 DEF Fault
<1>8. CASE UNCHANGED vars
    BY <1>8 DEF vars, SeedStep, SnapStep
<1>. QED  BY <1>1, <1>2, <1>3, <1>4, <1>5, <1>6, <1>7, <1>8 DEF Next

\* The worker replaces a row by numbers that are at least as large.
LEMMA UsageGrows ==
    ASSUME TypeInv, UsageInv, UsageStep, NEW l \in Links, NEW f \in Fields
    PROVE  usage[l][f] <= usage'[l][f]
<1>1. usage \in [Links -> Counters] /\ usage[l][f] \in Nat
    BY DEF TypeInv, TypeOK, Counters
<1>. QED  BY <1>1 DEF UsageStep, UsageInv

LEMMA InitUsage == Init => UsageInv
    BY DEF Init, UsageInv, UsageBehindRedis, ZeroCounters, NoKeys, IntOrZero, Nil, Procs

LEMMA NextUsage ==
    ASSUME TypeInv, TypeInv', UsageInv, [Next]_vars, "redis" \notin Faults
    PROVE  UsageInv'
<1>1. RedisStep /\ UsageStep /\ SeedStep /\ SnapStep
    BY StoreKept, LocalSteps
<1>2. \A l \in Links, f \in Fields :
         /\ IntOrZero(redis[l][f]) <= IntOrZero(redis'[l][f])
         /\ usage[l][f] <= usage'[l][f]
    BY <1>1, RedisGrows, UsageGrows
<1>3. \A l \in Links, f \in Fields :
         /\ usage[l][f] \in Nat /\ usage'[l][f] \in Nat
         /\ IntOrZero(redis[l][f]) \in Nat /\ IntOrZero(redis'[l][f]) \in Nat
  <2> SUFFICES ASSUME NEW l \in Links, NEW f \in Fields
               PROVE  /\ usage[l][f] \in Nat /\ usage'[l][f] \in Nat
                      /\ IntOrZero(redis[l][f]) \in Nat
                      /\ IntOrZero(redis'[l][f]) \in Nat
    OBVIOUS
  <2>1. usage[l] \in Counters /\ usage'[l] \in Counters
    BY DEF TypeInv, TypeOK
  <2>2. redis[l] \in Keys /\ redis'[l] \in Keys
    BY DEF TypeInv, TypeOK
  <2>. QED  BY <2>1, <2>2 DEF Counters, Keys, IntOrZero, Nil
<1>4. ASSUME NEW q \in Requests, pc'[q] = "warm", NEW f \in Fields
      PROVE  seed'[q][f] <= usage'[on'[q]][f]
  <2>1. on[q] \in Links /\ on'[q] = on[q] /\ seed[q][f] \in Nat
    BY <1>1, <1>4 DEF SeedStep, TypeInv, TypeOK, Procs, Counters
  <2>2. CASE pc[q] = "warm" /\ seed'[q] = seed[q]
    BY <1>2, <1>3, <2>1, <2>2 DEF UsageInv
  <2>3. CASE seed'[q] = usage[on[q]] /\ UNCHANGED usage
    BY <1>3, <2>1, <2>3
  <2>. QED  BY <1>1, <1>4, <2>2, <2>3 DEF SeedStep
<1>5. ASSUME worker' = "upsert", NEW f \in Fields
      PROVE  usage'[cur'][f] <= snap'[f] /\ snap'[f] <= IntOrZero(redis'[cur'][f])
  <2>1. cur \in Links /\ cur' \in Links /\ snap[f] \in Nat /\ snap'[f] \in Nat
    BY DEF TypeInv, TypeOK, Counters
  <2>2. CASE worker = "upsert" /\ UNCHANGED <<cur, snap>>
    BY <1>1, <1>2, <1>3, <1>5, <2>1, <2>2 DEF UsageInv, SnapStep
  <2>3. CASE snap' = GetCounters(redis[cur']) /\ UNCHANGED redis
    BY <1>1, <1>3, <1>5, <2>1, <2>3
    DEF UsageInv, UsageBehindRedis, SnapStep, GetCounters
  <2>. QED  BY <1>1, <1>5, <2>2, <2>3 DEF SnapStep
<1>6. UsageBehindRedis'
  <2> SUFFICES ASSUME NEW l \in Links, NEW f \in Fields
               PROVE  usage'[l][f] <= IntOrZero(redis'[l][f])
    BY DEF UsageBehindRedis
  <2>1. CASE UNCHANGED usage \/ l # cur
    <3>1. usage'[l] = usage[l]
        BY <1>1, <2>1 DEF UsageStep, TypeInv, TypeOK
    <3>. QED  BY <1>2, <1>3, <3>1 DEF UsageInv, UsageBehindRedis
  <2>2. CASE worker = "upsert" /\ usage' = [usage EXCEPT ![cur] = snap] /\ l = cur
    <3>1. usage'[l][f] = snap[f] /\ snap[f] \in Nat
        BY <2>2 DEF TypeInv, TypeOK, Counters
    <3>. QED  BY <1>2, <1>3, <2>2, <3>1 DEF UsageInv
  <2>. QED  BY <1>1, <2>1, <2>2 DEF UsageStep
<1>. QED  BY <1>4, <1>5, <1>6 DEF UsageInv

\* While Redis keeps its data, whatever else fails: the durable counters never
\* run ahead of Redis, and no flush lowers them.
THEOREM UsageTheorem ==
    ASSUME "redis" \notin Faults
    PROVE  Spec => []UsageInv /\ UsageNeverDecreases
<1>1. Init => TypeInv /\ UsageInv
    BY InitType, InitUsage
<1>2. TypeInv /\ UsageInv /\ [Next]_vars => TypeInv' /\ UsageInv'
    BY NextType, NextUsage
<1>3. TypeInv /\ UsageInv /\ [Next]_vars =>
         [\A l \in Links, f \in Fields : usage'[l][f] >= usage[l][f]]_usage
  <2> SUFFICES ASSUME TypeInv, UsageInv, [Next]_vars,
                      NEW l \in Links, NEW f \in Fields
               PROVE  usage'[l][f] >= usage[l][f]
    OBVIOUS
  <2>1. usage[l][f] <= usage'[l][f] /\ TypeInv'
    BY StoreKept, UsageGrows, NextType
  <2>. QED  BY <2>1 DEF TypeInv, TypeOK, Counters
<1>. QED  BY <1>1, <1>2, <1>3, PTL DEF Spec, UsageNeverDecreases

-----------------------------------------------------------------------------
(* Enforcement implements QuotaGate, while Redis keeps its data.           *)

\* The places of a request between the check and the count.
GatePCs == {"proxy", "incrRequests"}

\* A step that moves no request into, within or out of those places ...
SlotsKept ==
    \A q \in Requests :
        \/ pc'[q] = pc[q] /\ on'[q] = on[q]
        \/ pc[q] \notin GatePCs /\ pc'[q] \notin GatePCs

\* ... and does not change the number of counted requests ...
CountKept ==
    \A l \in Links :
        IntOrZero(redis'[l]["requests"]) = IntOrZero(redis[l]["requests"])

Quiet == SlotsKept /\ CountKept /\ UNCHANGED history

\* ... is a stuttering step of the gate.
LEMMA QuietStutters == Quiet => UNCHANGED Gate!gateVars
<1> SUFFICES ASSUME Quiet PROVE UNCHANGED Gate!gateVars
    OBVIOUS
<1>1. \A l \in Links : Admitted(l)' = Admitted(l) /\ Uncounted(l)' = Uncounted(l)
    BY DEF Quiet, SlotsKept, GatePCs, Admitted, Uncounted
<1>. QED  BY <1>1 DEF Quiet, CountKept, history, Gate!gateVars

\* Counting one thing leaves the other numbers alone.
LEMMA IncrOther ==
    ASSUME NEW k \in Keys, NEW f \in Fields, NEW g \in Fields \ {f}, NEW n
    PROVE  IncrBy(k, g, n)[f] = k[f]
    BY DEF Keys, Fields, IncrBy

LEMMA IncrRequest ==
    ASSUME NEW k \in Keys
    PROVE  IntOrZero(IncrBy(k, "requests", 1)["requests"])
              = IntOrZero(k["requests"]) + 1
    BY DEF Keys, Fields, IncrBy, IntOrZero, Nil

\* Warm loading leaves a counter alone because the seed is not ahead of Redis.
LEMMA WarmedKeeps ==
    ASSUME TypeInv, UsageInv, NEW r \in Requests, NEW done, pc[r] = "warm",
           Warmed(on[r], r, done), NEW f \in Fields
    PROVE  \A l \in Links : IntOrZero(redis'[l][f]) = IntOrZero(redis[l][f])
<1>1. /\ on[r] \in Links /\ seed[r] \in Counters /\ usage[on[r]] \in Counters
      /\ redis \in [Links -> Keys] /\ redis[on[r]] \in Keys
    BY DEF TypeInv, TypeOK, Procs
<1>2. seed[r][f] <= IntOrZero(redis[on[r]][f])
  <2>1. /\ seed[r][f] <= usage[on[r]][f]
        /\ usage[on[r]][f] <= IntOrZero(redis[on[r]][f])
    BY <1>1 DEF UsageInv, UsageBehindRedis
  <2>2. /\ seed[r][f] \in Nat
        /\ usage[on[r]][f] \in Nat
        /\ IntOrZero(redis[on[r]][f]) \in Nat
    BY <1>1 DEF Counters, Keys, IntOrZero, Nil
  <2>. QED  BY <2>1, <2>2
<1>3. IntOrZero(WarmLoad(redis[on[r]], seed[r], done)[f]) = IntOrZero(redis[on[r]][f])
    BY <1>1, <1>2, WarmLoadKeeps
<1>. QED  BY <1>1, <1>3 DEF Warmed

LEMMA WarmedKeepsCount ==
    ASSUME TypeInv, UsageInv, NEW r \in Requests, NEW done, pc[r] = "warm",
           Warmed(on[r], r, done)
    PROVE  CountKept
<1>1. "requests" \in Fields
    BY DEF Fields
<1>. QED  BY <1>1, WarmedKeeps DEF CountKept

\* The check admits a request only while the gate is open.
LEMMA CheckAdmits ==
    ASSUME TypeInv, NEW r \in Requests, CheckLimits(r)
    PROVE  Quiet \/ Gate!Admit(on[r], r)
<1> DEFINE l == on[r]
           c == GetCounters(redis[l])
<1>1. /\ l \in Links /\ redis[l] \in Keys /\ r \in Procs
      /\ pc \in [Procs -> RequestPCs] /\ pc[r] = "check"
      /\ UNCHANGED <<on, redis, forwarded, lost>>
      /\ pc' = [pc EXCEPT ![r] = IF BeforeReason(l, c) # NoReason
                                 THEN "termCheck" ELSE "proxy"]
    BY DEF TypeInv, TypeOK, Procs, CheckLimits, TerminateOr, Goto, storeVars, history
<1>2. CASE BeforeReason(l, c) # NoReason
    BY <1>1, <1>2 DEF Quiet, SlotsKept, CountKept, GatePCs, history, Procs
<1>3. CASE BeforeReason(l, c) = NoReason
  <2>1. ~Reached(Policy[l].maxRequests, c["requests"])
    BY <1>3 DEF BeforeReason, LimitReason, NoReason
  <2>2. c["requests"] = IntOrZero(redis[l]["requests"]) /\ c["requests"] \in Nat
    BY <1>1 DEF GetCounters, Fields, Keys, IntOrZero, Nil
  <2>3. Policy[l].maxRequests \in Limits
    BY <1>1, ConstantsAssumption DEF Policies
  <2>4. Gate!Open(l)
    BY <1>1, <2>1, <2>2, <2>3 DEF Reached, Limits, Nil, Gate!Open, Gate!NoLimit
  <2>5. /\ r \notin Admitted(l)
        /\ Admitted(l)' = Admitted(l) \cup {r}
        /\ \A k \in Links \ {l} : Admitted(k)' = Admitted(k)
        /\ \A k \in Links : Uncounted(k)' = Uncounted(k)
    BY <1>1, <1>3 DEF Admitted, Uncounted, Procs
  <2>. QED  BY <1>1, <2>4, <2>5 DEF Gate!Admit
<1>. QED  BY <1>2, <1>3

\* Forwarding is sending.
LEMMA ForwardSends ==
    ASSUME TypeInv, NEW r \in Requests, Forward(r)
    PROVE  Gate!Send(on[r], r)
<1> DEFINE l == on[r]
<1>1. /\ l \in Links /\ r \in Procs
      /\ pc \in [Procs -> RequestPCs] /\ pc[r] = "proxy"
      /\ UNCHANGED <<on, redis, lost>>
      /\ forwarded' = [forwarded EXCEPT ![l] = @ + 1]
      /\ pc' = [pc EXCEPT ![r] = "incrRequests"]
    BY DEF TypeInv, TypeOK, Procs, Forward, Goto, storeVars
<1>2. /\ r \in Admitted(l) \ Uncounted(l)
      /\ Uncounted(l)' = Uncounted(l) \cup {r}
      /\ \A k \in Links \ {l} : Uncounted(k)' = Uncounted(k)
      /\ \A k \in Links : Admitted(k)' = Admitted(k)
    BY <1>1 DEF Admitted, Uncounted, Procs
<1>. QED  BY <1>1, <1>2 DEF Gate!Send

\* What leaving the place before the count does to the slots.
LEMMA LeaveUncounted ==
    ASSUME TypeInv, NEW r \in Requests, pc[r] = "incrRequests", UNCHANGED on,
           NEW where, where \notin GatePCs, pc' = [pc EXCEPT ![r] = where]
    PROVE  /\ on[r] \in Links
           /\ r \in Uncounted(on[r])
           /\ Uncounted(on[r])' = Uncounted(on[r]) \ {r}
           /\ Admitted(on[r])' = Admitted(on[r]) \ {r}
           /\ \A k \in Links \ {on[r]} : /\ Uncounted(k)' = Uncounted(k)
                                         /\ Admitted(k)' = Admitted(k)
    BY DEF TypeInv, TypeOK, Procs, Admitted, Uncounted, GatePCs

\* IncrRequests is settling, if INCRBY has been applied, and losing otherwise.
LEMMA CountSettles ==
    ASSUME TypeInv, NEW r \in Requests, CountRequest(r) \/ FailCountRequest(r)
    PROVE  Gate!Settle(on[r], r) \/ Gate!Lose(on[r], r)
<1> DEFINE l == on[r]
<1>1. /\ pc[r] = "incrRequests" /\ UNCHANGED <<on, forwarded>>
      /\ pc' = [pc EXCEPT ![r] = "incrBytes"]
    BY DEF CountRequest, FailCountRequest, Goto, history
<1>2. /\ l \in Links
      /\ r \in Uncounted(l)
      /\ Uncounted(l)' = Uncounted(l) \ {r}
      /\ Admitted(l)' = Admitted(l) \ {r}
      /\ \A k \in Links \ {l} : Uncounted(k)' = Uncounted(k) /\ Admitted(k)' = Admitted(k)
    BY <1>1, LeaveUncounted DEF GatePCs
<1>3. redis \in [Links -> Keys] /\ redis[l] \in Keys
    BY <1>2 DEF TypeInv, TypeOK
<1>4. CASE redis' = [redis EXCEPT ![l] = IncrBy(@, "requests", 1)] /\ UNCHANGED lost
  <2>1. IntOrZero(redis'[l]["requests"]) = IntOrZero(redis[l]["requests"]) + 1
    BY <1>2, <1>3, <1>4, IncrRequest
  <2>2. \A k \in Links \ {l} : redis'[k] = redis[k]
    BY <1>3, <1>4
  <2>3. [k \in Links |-> IntOrZero(redis[k]["requests"])]'
           = [[k \in Links |-> IntOrZero(redis[k]["requests"])]
                 EXCEPT ![l] = IntOrZero(redis[l]["requests"]) + 1]
    BY <1>2, <2>1, <2>2
  <2>4. [k \in Links |-> IntOrZero(redis[k]["requests"])][l]
           = IntOrZero(redis[l]["requests"])
    BY <1>2
  <2>5. [k \in Links |-> Uncounted(k)]'
           = [[k \in Links |-> Uncounted(k)] EXCEPT ![l] = @ \ {r}]
    BY <1>1, <1>2
  <2>6. [k \in Links |-> Admitted(k)]'
           = [[k \in Links |-> Admitted(k)] EXCEPT ![l] = @ \ {r}]
    BY <1>1, <1>2
  <2>. QED  BY <1>1, <1>2, <1>4, <2>3, <2>4, <2>5, <2>6 DEF Gate!Settle
<1>5. CASE UNCHANGED redis /\ lost' = [lost EXCEPT ![l] = @ + 1]
    BY <1>1, <1>2, <1>5 DEF Gate!Lose
<1>6. redis' = [redis EXCEPT ![l] = IncrBy(@, "requests", 1)] => redis' # redis
  <2>1. IntOrZero(IncrBy(redis[l], "requests", 1)["requests"]) # IntOrZero(redis[l]["requests"])
    <3>1. IntOrZero(redis[l]["requests"]) \in Nat
        BY <1>3 DEF Keys, Fields, IntOrZero, Nil
    <3>. QED  BY <1>3, <3>1, IncrRequest
  <2>. QED  BY <1>2, <1>3, <2>1
<1>. QED  BY <1>4, <1>5, <1>6
          DEF CountRequest, FailCountRequest, IncrPrefix, IncrAndMarkDirty, history

\* An aborted response is lost.
LEMMA AbortLoses ==
    ASSUME TypeInv, NEW r \in Requests, Abort(r)
    PROVE  Gate!Lose(on[r], r)
<1>1. /\ pc[r] = "incrRequests" /\ UNCHANGED <<on, redis, forwarded>>
      /\ pc' = [pc EXCEPT ![r] = "idle"]
      /\ lost' = [lost EXCEPT ![on[r]] = @ + 1]
    BY DEF Abort, Return, Goto, storeVars
<1>2. /\ on[r] \in Links
      /\ r \in Uncounted(on[r])
      /\ Uncounted(on[r])' = Uncounted(on[r]) \ {r}
      /\ Admitted(on[r])' = Admitted(on[r]) \ {r}
      /\ \A k \in Links \ {on[r]} : Uncounted(k)' = Uncounted(k) /\ Admitted(k)' = Admitted(k)
    BY <1>1, LeaveUncounted DEF GatePCs
<1>. QED  BY <1>1, <1>2 DEF Gate!Lose

\* A handler that fails before it has forwarded anything drops its slot.
LEMMA FailReadDrops ==
    ASSUME TypeInv, NEW p \in Procs, FailRead(p)
    PROVE  Quiet \/ (p \in Requests /\ Gate!Drop(on[p], p))
<1>1. /\ on[p] \in Links
      /\ pc \in [Procs -> RequestPCs] /\ pc[p] # "incrRequests"
      /\ UNCHANGED <<on, redis, forwarded, lost>>
      /\ pc' = [pc EXCEPT ![p] = "idle"]
    BY DEF TypeInv, TypeOK, FailRead, Reading, Planning, Return, Goto,
       storeVars, history
<1>2. CASE p \notin Requests \/ pc[p] # "proxy"
    BY <1>1, <1>2 DEF Quiet, SlotsKept, CountKept, GatePCs, history, Procs
<1>3. CASE p \in Requests /\ pc[p] = "proxy"
  <2>1. /\ p \in Admitted(on[p]) \ Uncounted(on[p])
        /\ Admitted(on[p])' = Admitted(on[p]) \ {p}
        /\ \A k \in Links \ {on[p]} : Admitted(k)' = Admitted(k)
        /\ \A k \in Links : Uncounted(k)' = Uncounted(k)
    BY <1>1, <1>3 DEF Admitted, Uncounted, Procs
  <2>. QED  BY <1>1, <1>3, <2>1 DEF Gate!Drop
<1>. QED  BY <1>2, <1>3

\* A crash loses everything under way.
LEMMA CrashLoses == TypeInv /\ Crash => Gate!LoseAll
<1> SUFFICES ASSUME TypeInv, Crash PROVE Gate!LoseAll
    OBVIOUS
<1>1. \A l \in Links : Admitted(l)' = {} /\ Uncounted(l)' = {}
    BY DEF Crash, Admitted, Uncounted, Procs
<1>2. \A l \in Links : [k \in Links |-> Uncounted(k)][l] = Uncounted(l)
    OBVIOUS
<1>3. lost' = [l \in Links |-> lost[l] + Cardinality([k \in Links |-> Uncounted(k)][l])]
    BY <1>2, Zenon DEF Crash
<1>4. /\ [l \in Links |-> Uncounted(l)]' = [l \in Links |-> {}]
      /\ [l \in Links |-> Admitted(l)]' = [l \in Links |-> {}]
      /\ [l \in Links |-> IntOrZero(redis[l]["requests"])]'
            = [l \in Links |-> IntOrZero(redis[l]["requests"])]
      /\ forwarded' = forwarded
    BY <1>1 DEF Crash, storeVars
<1>5. \A S : Gate!Cardinality(S) = Cardinality(S)
    BY DEF Gate!Cardinality, Cardinality
<1>. QED  BY <1>3, <1>4, <1>5 DEF Gate!LoseAll

\* The steps that leave the gate alone.
LEMMA QuietSteps ==
    ASSUME TypeInv, UsageInv, [Next]_vars, "redis" \notin Faults
    PROVE  \/ Quiet
           \/ \E r \in Requests : CheckLimits(r) \/ Forward(r) \/ CountRequest(r)
                                    \/ FailCountRequest(r) \/ Abort(r)
           \/ \E p \in Procs : FailRead(p)
           \/ Crash
<1> DEFINE Goal == \/ Quiet
                   \/ \E r \in Requests : CheckLimits(r) \/ Forward(r) \/ CountRequest(r)
                                            \/ FailCountRequest(r) \/ Abort(r)
                   \/ \E p \in Procs : FailRead(p)
                   \/ Crash
<1>0. /\ pc \in [Procs -> RequestPCs] /\ on \in [Procs -> Links]
      /\ redis \in [Links -> Keys] /\ Requests \subseteq Procs /\ Owners \subseteq Procs
      /\ Requests \cap Owners = {}
    BY ConstantsAssumption DEF TypeInv, TypeOK, Procs
<1> USE <1>0 DEF Goto, Return, storeVars, workerVars, history
<1> USE DEF Quiet, SlotsKept, GatePCs
<1>1. ASSUME NEW r \in Requests, NEW l \in Links, Lookup(r, l) \/ LookupRefused(r, l)
      PROVE  Quiet
    BY <1>1 DEF Lookup, LookupRefused, vars, CountKept
<1>2. ASSUME NEW r \in Requests, HandlerStep(r) PROVE Goal
  <2>1. CASE SeedRedis(r)
    <3>1. CountKept
        BY <2>1, WarmedKeepsCount DEF SeedRedis, Warmed
    <3>. QED  BY <2>1, <3>1 DEF SeedRedis
  <2>2. CASE ReadUsage(r) \/ BlacklistHit(r) \/ BlacklistMiss(r) \/ RecordEvent(r)
                \/ Recheck(r)
    BY <2>2 DEF ReadUsage, BlacklistHit, BlacklistMiss, RecordEvent, Recheck,
                TerminateOr, CountKept
  <2>3. ASSUME NEW f \in Fields \ {"requests"}, NEW n,
               IncrAndMarkDirty(on[r], f, n)
        PROVE  CountKept
    <3>1. "requests" \in Fields /\ f # "requests" /\ on[r] \in Links
        BY <2>3 DEF Fields
    <3>2. IncrBy(redis[on[r]], f, n)["requests"] = redis[on[r]]["requests"]
        BY <3>1, IncrOther
    <3>. QED  BY <2>3, <3>1, <3>2 DEF IncrAndMarkDirty, CountKept
  <2>4. CASE CountViolation(r)
    <3>1. CountKept
        BY <2>3, <2>4 DEF CountViolation, Fields
    <3>. QED  BY <2>4, <3>1 DEF CountViolation, AfterViolation, TerminateOr
  <2>5. ASSUME NEW n \in ResponseBytes, CountBytes(r, n) PROVE Quiet
    <3>1. CountKept
        BY <2>3, <2>5 DEF CountBytes, Fields
    <3>. QED  BY <2>5, <3>1 DEF CountBytes
  <2>. QED  BY <1>2, <2>1, <2>2, <2>4, <2>5 DEF HandlerStep
<1>3. ASSUME NEW o \in Owners, NEW l \in Links, OwnerTerminates(o, l) PROVE Quiet
    BY <1>3 DEF OwnerTerminates, CountKept
<1>4. ASSUME NEW p \in Procs, TerminateStep(p) PROVE Quiet
    BY <1>4 DEF TerminateStep, TermCheck, TermUpdate, TermRecord, CountKept
<1>5. CASE SyncStep
    BY <1>5 DEF SyncStep, SyncTick, SyncRead, SyncUpsert, SyncClear, CountKept
<1>6. ASSUME NEW l \in Links, NEW d \in Deadlines, DeadlinePasses(l, d) PROVE Quiet
    BY <1>6 DEF DeadlinePasses, CountKept
<1>7. CASE Fault
  <2>1. ASSUME NEW r \in Requests, NEW done \in WarmPrefixes, FailSeed(r, done)
        PROVE  Quiet
    <3>1. CountKept
        BY <2>1, WarmedKeepsCount DEF FailSeed, Warmed
    <3>. QED  BY <2>1, <3>1 DEF FailSeed
  <2>2. ASSUME NEW r \in Requests, FailEvent(r) PROVE Quiet
    BY <2>2 DEF FailEvent, CountKept
  <2>3. ASSUME NEW r \in Requests, NEW f \in Fields \ {"requests"}, NEW n,
               IncrPrefix(on[r], f, n)
        PROVE  CountKept
    <3>1. "requests" \in Fields /\ f # "requests" /\ on[r] \in Links
        BY <2>3 DEF Fields
    <3>2. IncrBy(redis[on[r]], f, n)["requests"] = redis[on[r]]["requests"]
        BY <3>1, IncrOther
    <3>. QED  BY <2>3, <3>1, <3>2 DEF IncrPrefix, IncrAndMarkDirty, CountKept
  <2>4. ASSUME NEW r \in Requests, FailCountViolation(r) PROVE Quiet
    <3>1. CountKept
        BY <2>3, <2>4 DEF FailCountViolation, Fields
    <3>. QED  BY <2>4, <3>1 DEF FailCountViolation, AfterViolation, TerminateOr
  <2>5. ASSUME NEW r \in Requests, NEW n \in ResponseBytes, FailCountBytes(r, n)
        PROVE  Quiet
    <3>1. CountKept
        BY <2>3, <2>5 DEF FailCountBytes, Fields
    <3>. QED  BY <2>5, <3>1 DEF FailCountBytes
  <2>6. ASSUME NEW p \in Procs, FailUpdate(p) \/ FailRecord(p) PROVE Quiet
    BY <2>6 DEF FailUpdate, FailRecord, CountKept
  <2>7. CASE FailSync
    BY <2>7 DEF FailSync, CountKept
  <2>8. ~RedisRestart
    BY DEF RedisRestart
  <2>. QED  BY <1>7, <2>1, <2>2, <2>4, <2>5, <2>6, <2>7, <2>8 DEF Fault
<1>8. CASE UNCHANGED vars
    BY <1>8 DEF vars, CountKept
<1>. QED  BY <1>1, <1>2, <1>3, <1>4, <1>5, <1>6, <1>7, <1>8 DEF Next

LEMMA GateSteps ==
    ASSUME TypeInv, UsageInv, [Next]_vars, "redis" \notin Faults
    PROVE  [Gate!GateNext]_Gate!gateVars
<1>1. CASE Quiet
    BY <1>1, QuietStutters
<1>2. ASSUME NEW r \in Requests,
             CheckLimits(r) \/ Forward(r) \/ CountRequest(r)
                \/ FailCountRequest(r) \/ Abort(r)
      PROVE  [Gate!GateNext]_Gate!gateVars
  <2>1. on[r] \in Links
    BY DEF TypeInv, TypeOK, Procs
  <2>2. \/ Quiet
        \/ Gate!Admit(on[r], r) \/ Gate!Send(on[r], r)
        \/ Gate!Settle(on[r], r) \/ Gate!Lose(on[r], r)
    BY <1>2, CheckAdmits, ForwardSends, CountSettles, AbortLoses
  <2>. QED  BY <1>1, <2>1, <2>2 DEF Gate!GateNext
<1>3. ASSUME NEW p \in Procs, FailRead(p) PROVE [Gate!GateNext]_Gate!gateVars
  <2>1. on[p] \in Links
    BY DEF TypeInv, TypeOK
  <2>. QED  BY <1>1, <1>3, <2>1, FailReadDrops DEF Gate!GateNext
<1>4. CASE Crash
    BY <1>4, CrashLoses DEF Gate!GateNext
<1>. QED  BY <1>1, <1>2, <1>3, <1>4, QuietSteps

LEMMA GateInitially == Init => Gate!GateInit
<1> SUFFICES ASSUME Init PROVE Gate!GateInit
    OBVIOUS
<1>1. \A l \in Links : /\ Admitted(l) = {} /\ Uncounted(l) = {}
                       /\ IntOrZero(redis[l]["requests"]) = 0
    BY DEF Init, Admitted, Uncounted, Procs, NoKeys, Fields, IntOrZero
<1>. QED  BY <1>1 DEF Init, Gate!GateInit

\* While Redis keeps its data, whatever else fails, the handlers implement the
\* gate of QuotaGate.
THEOREM GateTheorem ==
    ASSUME "redis" \notin Faults
    PROVE  Spec => ImplementsGate
<1>1. Init => TypeInv /\ UsageInv /\ Gate!GateInit
    BY InitType, InitUsage, GateInitially
<1>2. TypeInv /\ UsageInv /\ [Next]_vars =>
         TypeInv' /\ UsageInv' /\ [Gate!GateNext]_Gate!gateVars
    BY NextType, NextUsage, GateSteps
<1>. QED  BY <1>1, <1>2, PTL DEF Spec, ImplementsGate, Gate!GateSpec

-----------------------------------------------------------------------------
(* The bound of the gate, for the code.                                    *)

\* The proofs about QuotaGate under the refinement mapping of Gate.
GateProofs == INSTANCE QuotaGateProofs WITH
                  Slots <- Requests,
                  Limit <- [l \in Links |-> Policy[l].maxRequests],
                  counted <- [l \in Links |-> IntOrZero(redis[l]["requests"])],
                  admitted <- [l \in Links |-> Admitted(l)],
                  sent <- [l \in Links |-> Uncounted(l)]

LEMMA SameGate ==
    /\ Gate!GateInit => GateProofs!GateInit
    /\ [Gate!GateNext]_Gate!gateVars => [GateProofs!GateNext]_GateProofs!gateVars
<1>1. Gate!GateInit => GateProofs!GateInit
    BY DEF Gate!GateInit, GateProofs!GateInit
<1>2. \A S : Gate!Cardinality(S) = GateProofs!Cardinality(S)
    BY DEF Gate!Cardinality, GateProofs!Cardinality
<1>3. Gate!GateNext => GateProofs!GateNext
    BY <1>2 DEF Gate!GateNext, GateProofs!GateNext, Gate!Admit, GateProofs!Admit,
       Gate!Open, GateProofs!Open, Gate!NoLimit, GateProofs!NoLimit,
       Gate!Send, GateProofs!Send, Gate!Settle, GateProofs!Settle,
       Gate!Drop, GateProofs!Drop, Gate!Lose, GateProofs!Lose,
       Gate!LoseAll, GateProofs!LoseAll
<1>4. UNCHANGED Gate!gateVars => UNCHANGED GateProofs!gateVars
    BY DEF Gate!gateVars, GateProofs!gateVars
<1>. QED  BY <1>1, <1>3, <1>4

\* While Redis keeps its data, whatever else fails, no more requests reach the
\* target site than the limit allows, the other requests that were under way
\* when it was reached, and the requests whose increment was lost.
THEOREM QuotaTheorem ==
    ASSUME "redis" \notin Faults
    PROVE  Spec => []QuotaOverrun
<1>1. GateProofs!GateConstants
    BY ConstantsAssumption
    DEF GateProofs!GateConstants, GateProofs!NoLimit, Policies, Limits, Nil,
        GateProofs!IsFiniteSet, IsFiniteSet
<1>2. GateProofs!GateSpec => []GateProofs!GateOverrun
    BY <1>1, GateProofs!GateOverrunTheorem
<1>3. GateProofs!GateOverrun => QuotaOverrun
  <2>1. \A S : GateProofs!Cardinality(S) = Cardinality(S)
    BY DEF GateProofs!Cardinality, Cardinality
  <2>. QED  BY <2>1 DEF GateProofs!GateOverrun, GateProofs!NoLimit, QuotaOverrun, Nil
<1>4. Spec => Gate!GateSpec
    BY GateTheorem DEF ImplementsGate
<1>5. Gate!GateSpec => GateProofs!GateSpec
    BY SameGate, PTL DEF Gate!GateSpec, GateProofs!GateSpec
<1>. QED  BY <1>2, <1>3, <1>4, <1>5, PTL
-----------------------------------------------------------------------------
(* A recorded reason is true, while Redis keeps its data.                  *)

\* A handler terminates the link it works on for a reason that holds.
ReasonInv ==
    /\ \A p \in Procs : pc[p] \in TerminationPCs => ReasonHolds(on[p], reason[p])
    /\ ReasonJustified

\* Counters only grow and time only passes.
LEMMA ReasonStays ==
    ASSUME TypeInv, TypeInv', RedisStep, \A l \in Links : passed[l] \subseteq passed'[l],
           NEW l \in Links, NEW r, ReasonHolds(l, r)
    PROVE  ReasonHolds(l, r)'
<1>1. \A f \in Fields : /\ IntOrZero(redis[l][f]) <= IntOrZero(redis'[l][f])
                        /\ IntOrZero(redis[l][f]) \in Nat /\ IntOrZero(redis'[l][f]) \in Nat
  <2>1. redis[l] \in Keys /\ redis'[l] \in Keys
    BY DEF TypeInv, TypeOK
  <2>. QED  BY <2>1, RedisGrows DEF Keys, IntOrZero, Nil
<1>2. {"requests", "bytes", "violations"} \subseteq Fields
  BY DEF Fields
<1>3. Policy[l].maxRequests \in Limits /\ Policy[l].maxBytes \in Limits
      /\ Policy[l].maxViolations \in Nat
  BY ConstantsAssumption DEF Policies
<1>4. TTLExpired(l) => TTLExpired(l)'
  BY DEF TTLExpired
<1>5. CASE r = "request_limit"
  BY <1>1, <1>2, <1>3, <1>5 DEF ReasonHolds, Reached, Limits, Nil
<1>6. CASE r = "traffic_limit"
  BY <1>1, <1>2, <1>3, <1>6 DEF ReasonHolds, Reached, Limits, Nil
<1>7. CASE r = "violation_limit"
  BY <1>1, <1>2, <1>3, <1>7 DEF ReasonHolds
<1>8. CASE r = "ttl_expired"
  BY <1>4, <1>8 DEF ReasonHolds
<1>9. CASE r \notin {"request_limit", "traffic_limit", "violation_limit", "ttl_expired"}
  BY <1>9 DEF ReasonHolds
<1>. QED  BY <1>5, <1>6, <1>7, <1>8, <1>9

\* The reason the comparisons come to holds of the numbers they were given.
LEMMA ReasonFound ==
    ASSUME TypeInv, NEW l \in Links
    PROVE  LET c == GetCounters(redis[l])
           IN  /\ LimitReason(l, c) # NoReason => ReasonHolds(l, LimitReason(l, c))
               /\ BeforeReason(l, c) # NoReason => ReasonHolds(l, BeforeReason(l, c))
<1> DEFINE c == GetCounters(redis[l])
<1>1. \A f \in Fields : c[f] = IntOrZero(redis[l][f])
  BY DEF GetCounters
<1>2. {"requests", "bytes", "violations"} \subseteq Fields
  BY DEF Fields
<1> HIDE DEF c
<1>3. LimitReason(l, c) # NoReason => ReasonHolds(l, LimitReason(l, c))
  BY <1>1, <1>2 DEF LimitReason, ReasonHolds, NoReason
<1>4. BeforeReason(l, c) # NoReason => ReasonHolds(l, BeforeReason(l, c))
  BY <1>1, <1>2, <1>3 DEF BeforeReason, ReasonHolds, NoReason
<1>. QED  BY <1>3, <1>4 DEF c

\* How a handler comes to be terminating a link.
ReasonKept(p) == pc[p] \in TerminationPCs /\ on'[p] = on[p] /\ reason'[p] = reason[p]

ReasonStep ==
    /\ \A l \in Links : passed[l] \subseteq passed'[l]
    /\ \A p \in Procs : pc'[p] \in TerminationPCs =>
          ReasonKept(p) \/ ReasonHolds(on[p], reason[p])'
    /\ \/ UNCHANGED terminations
       \/ \E p \in Procs :
             /\ pc[p] = "termRecord"
             /\ terminations' = [terminations EXCEPT ![on[p]] = Append(@, reason[p])]

\* TerminateOr with a reason that holds.
LEMMA TerminateOrReason ==
    ASSUME TypeInv, NEW r \in Requests, NEW q, NEW where, where \notin TerminationPCs,
           TerminateOr(r, q, where), q # NoReason => ReasonHolds(on[r], q)',
           UNCHANGED <<on, terminations, passed>>
    PROVE  ReasonStep
<1>1. /\ pc' = [pc EXCEPT ![r] = IF q # NoReason THEN "termCheck" ELSE where]
      /\ reason' = [reason EXCEPT ![r] = q]
  BY DEF TerminateOr, Goto
<1>2. \A p \in Procs \ {r} : pc'[p] = pc[p] /\ reason'[p] = reason[p] /\ on'[p] = on[p]
  BY <1>1 DEF TypeInv, TypeOK
<1>3. pc'[r] \in TerminationPCs => q # NoReason /\ reason'[r] = q /\ on'[r] = on[r]
  BY <1>1 DEF TypeInv, TypeOK, Procs
<1>4. ASSUME NEW p \in Procs, pc'[p] \in TerminationPCs
      PROVE  ReasonKept(p) \/ ReasonHolds(on[p], reason[p])'
  <2>1. CASE p = r
    BY <1>3, <1>4, <2>1
  <2>2. CASE p # r
    BY <1>2, <1>4, <2>2 DEF ReasonKept
  <2>. QED  BY <2>1, <2>2
<1>. QED  BY <1>4 DEF ReasonStep

\* The number IncrViolations returns is what Redis holds.
LEMMA ViolationCounted ==
    ASSUME NEW k \in Keys
    PROVE  /\ IntOrZero(k["violations"]) \in Nat
           /\ IntOrZero(IncrBy(k, "violations", 1)["violations"])
                 = IntOrZero(k["violations"]) + 1
    BY DEF Keys, Fields, IncrBy, IntOrZero, Nil

LEMMA HandlerReason ==
    ASSUME TypeInv, TypeInv', NEW r \in Requests, HandlerStep(r)
    PROVE  ReasonStep
<1>0. /\ pc \in [Procs -> RequestPCs] /\ r \in Procs /\ on[r] \in Links
      /\ redis \in [Links -> Keys]
  BY DEF TypeInv, TypeOK, Procs
<1>1. CASE \/ ReadUsage(r) \/ SeedRedis(r) \/ BlacklistHit(r) \/ RecordEvent(r)
           \/ Forward(r) \/ CountRequest(r) \/ \E n \in ResponseBytes : CountBytes(r, n)
  <2>1. UNCHANGED <<on, reason, passed, terminations>>
    BY <1>1 DEF ReadUsage, SeedRedis, BlacklistHit, RecordEvent, Forward, CountRequest,
                CountBytes, storeVars
  <2>2. PICK where : where \notin TerminationPCs /\ pc' = [pc EXCEPT ![r] = where]
    BY <1>1 DEF ReadUsage, SeedRedis, BlacklistHit, RecordEvent, Forward, CountRequest,
                CountBytes, Goto, TerminationPCs
  <2>3. \A p \in Procs : pc'[p] \in TerminationPCs => ReasonKept(p)
    BY <1>0, <2>1, <2>2 DEF ReasonKept
  <2>. QED  BY <2>1, <2>3 DEF ReasonStep
<1>2. CASE BlacklistMiss(r)
  <2>1. PICK q : q = IF TTLExpired(on[r]) THEN "ttl_expired" ELSE NoReason
    OBVIOUS
  <2>2. TerminateOr(r, q, "check") /\ UNCHANGED <<on, passed, terminations>>
    BY <1>2, <2>1 DEF BlacklistMiss, storeVars
  <2>3. q # NoReason => ReasonHolds(on[r], q)'
    BY <2>1, <2>2 DEF ReasonHolds, TTLExpired
  <2>. QED  BY <2>2, <2>3, TerminateOrReason DEF TerminationPCs
<1>3. CASE CheckLimits(r)
  <2>1. PICK q : q = BeforeReason(on[r], GetCounters(redis[on[r]]))
    OBVIOUS
  <2>2. TerminateOr(r, q, "proxy") /\ UNCHANGED <<on, passed, terminations, redis>>
    BY <1>3, <2>1 DEF CheckLimits, storeVars
  <2>3. q # NoReason => ReasonHolds(on[r], q)
    BY <1>0, <2>1, ReasonFound
  <2>4. q # NoReason => ReasonHolds(on[r], q)'
    BY <2>2, <2>3 DEF ReasonHolds, TTLExpired
  <2>. QED  BY <2>2, <2>4, TerminateOrReason DEF TerminationPCs
<1>4. CASE Recheck(r)
  <2>1. PICK q : q = LimitReason(on[r], GetCounters(redis[on[r]]))
    OBVIOUS
  <2>2. TerminateOr(r, q, "idle") /\ UNCHANGED <<on, passed, terminations, redis>>
    BY <1>4, <2>1 DEF Recheck, storeVars
  <2>3. q # NoReason => ReasonHolds(on[r], q)
    BY <1>0, <2>1, ReasonFound
  <2>4. q # NoReason => ReasonHolds(on[r], q)'
    BY <2>2, <2>3 DEF ReasonHolds, TTLExpired
  <2>. QED  BY <2>2, <2>4, TerminateOrReason DEF TerminationPCs
<1>5. CASE CountViolation(r)
  <2>1. PICK v : v = IntOrZero(redis[on[r]]["violations"]) + 1
    OBVIOUS
  <2>2. PICK q : q = IF v >= Policy[on[r]].maxViolations THEN "violation_limit" ELSE NoReason
    OBVIOUS
  <2>3. /\ TerminateOr(r, q, "idle") /\ UNCHANGED <<on, passed, terminations>>
        /\ redis' = [redis EXCEPT ![on[r]] = IncrBy(@, "violations", 1)]
    BY <1>5, <2>1, <2>2 DEF CountViolation, AfterViolation, IncrAndMarkDirty
  <2>4. IntOrZero(redis'[on[r]]["violations"]) = v
    BY <1>0, <2>1, <2>3, ViolationCounted
  <2>5. q # NoReason => ReasonHolds(on[r], q)'
    BY <2>2, <2>3, <2>4 DEF ReasonHolds
  <2>. QED  BY <2>3, <2>5, TerminateOrReason DEF TerminationPCs
<1>. QED  BY <1>1, <1>2, <1>3, <1>4, <1>5 DEF HandlerStep

LEMMA FailCountViolationReason ==
    ASSUME TypeInv, TypeInv', NEW r \in Requests, FailCountViolation(r)
    PROVE  ReasonStep
<1>1. PICK q : q = IF 0 >= Policy[on[r]].maxViolations THEN "violation_limit" ELSE NoReason
  OBVIOUS
<1>2. TerminateOr(r, q, "idle") /\ UNCHANGED <<on, passed, terminations>>
  BY <1>1 DEF FailCountViolation, AfterViolation
<1>3. on[r] \in Links /\ redis'[on[r]] \in Keys /\ Policy[on[r]].maxViolations \in Nat
  BY ConstantsAssumption DEF TypeInv, TypeOK, Procs, Policies
<1>4. IntOrZero(redis'[on[r]]["violations"]) \in Nat
  BY <1>3, ViolationCounted
<1>5. q # NoReason => ReasonHolds(on[r], q)'
  BY <1>1, <1>2, <1>3, <1>4 DEF ReasonHolds
<1>. QED  BY <1>2, <1>5, TerminateOrReason DEF TerminationPCs

LEMMA ReasonSteps ==
    ASSUME TypeInv, TypeInv', [Next]_vars
    PROVE  ReasonStep
<1>0. /\ pc \in [Procs -> RequestPCs] /\ Requests \subseteq Procs /\ Owners \subseteq Procs
      /\ on \in [Procs -> Links] /\ reason \in [Procs -> ReasonCodes \cup {NoReason}]
  BY DEF TypeInv, TypeOK, Procs
\* A step that starts no termination and records none.
<1>1. ASSUME UNCHANGED <<passed, terminations>>,
             \A p \in Procs : pc'[p] \in TerminationPCs => ReasonKept(p)
      PROVE  ReasonStep
  BY <1>1 DEF ReasonStep
\* A handler goes where it terminates nothing.
<1>2. ASSUME NEW p \in Procs, NEW where, where \notin TerminationPCs, Goto(p, where),
             UNCHANGED <<passed, terminations>>,
             \A q \in Procs \ {p} : reason'[q] = reason[q] /\ on'[q] = on[q]
      PROVE  ReasonStep
  <2>1. \A q \in Procs : pc'[q] \in TerminationPCs => ReasonKept(q)
    BY <1>0, <1>2 DEF ReasonKept, Goto
  <2>. QED  BY <1>1, <1>2, <2>1
<1>3. ASSUME NEW p \in Procs, Return(p), UNCHANGED <<on, passed, terminations>>
      PROVE  ReasonStep
  <2>1. Goto(p, "idle") /\ "idle" \notin TerminationPCs
        /\ \A q \in Procs \ {p} : reason'[q] = reason[q] /\ on'[q] = on[q]
    BY <1>0, <1>3 DEF Return, TerminationPCs
  <2>. QED  BY <1>2, <1>3, <2>1
<1>4. ASSUME NEW r \in Requests, NEW l \in Links, Lookup(r, l) \/ LookupRefused(r, l)
      PROVE  ReasonStep
  <2>1. CASE Lookup(r, l)
    <3>1. Goto(r, "seed") /\ "seed" \notin TerminationPCs /\ r \in Procs
          /\ UNCHANGED <<passed, terminations>>
          /\ \A q \in Procs \ {r} : reason'[q] = reason[q] /\ on'[q] = on[q]
      BY <1>0, <2>1 DEF Lookup, TerminationPCs, storeVars
    <3>. QED  BY <1>2, <3>1
  <2>2. CASE LookupRefused(r, l)
    BY <1>1, <2>2 DEF LookupRefused, vars, ReasonKept
  <2>. QED  BY <1>4, <2>1, <2>2
<1>5. ASSUME NEW r \in Requests, HandlerStep(r) PROVE ReasonStep
  BY <1>5, HandlerReason
<1>6. ASSUME NEW o \in Owners, NEW l \in Links, OwnerTerminates(o, l) PROVE ReasonStep
  <2>1. \A q \in Procs \ {o} : pc'[q] = pc[q] /\ reason'[q] = reason[q] /\ on'[q] = on[q]
    BY <1>0, <1>6 DEF OwnerTerminates, Goto
  <2>2. reason'[o] = "manual" /\ UNCHANGED <<passed, terminations>>
    BY <1>0, <1>6 DEF OwnerTerminates, storeVars
  <2>3. ReasonHolds(on[o], reason[o])'
    BY <2>2 DEF ReasonHolds
  <2>. QED  BY <2>1, <2>2, <2>3 DEF ReasonStep, ReasonKept
<1>7. ASSUME NEW p \in Procs, TerminateStep(p) PROVE ReasonStep
  <2>1. CASE TermCheck(p)
    <3>1. UNCHANGED <<on, passed, terminations>>
      BY <2>1 DEF TermCheck, storeVars
    <3>2. CASE status[on[p]] = "terminated"
      BY <1>3, <2>1, <3>1, <3>2 DEF TermCheck
    <3>3. CASE status[on[p]] # "terminated"
      <4>1. UNCHANGED reason /\ pc' = [pc EXCEPT ![p] = "termUpdate"] /\ pc[p] = "termCheck"
        BY <2>1, <3>3 DEF TermCheck, Goto
      <4>2. \A q \in Procs : pc'[q] \in TerminationPCs => ReasonKept(q)
        BY <1>0, <3>1, <4>1 DEF ReasonKept, TerminationPCs
      <4>. QED  BY <1>1, <3>1, <4>2
    <3>. QED  BY <3>2, <3>3
  <2>2. CASE TermUpdate(p)
    <3>1. UNCHANGED <<on, reason, passed, terminations>> /\ pc[p] = "termUpdate"
          /\ pc' = [pc EXCEPT ![p] = "termRecord"]
      BY <2>2 DEF TermUpdate, Goto
    <3>2. \A q \in Procs : pc'[q] \in TerminationPCs => ReasonKept(q)
      BY <1>0, <3>1 DEF ReasonKept, TerminationPCs
    <3>. QED  BY <1>1, <3>1, <3>2
  <2>3. CASE TermRecord(p)
    <3>1. /\ pc[p] = "termRecord" /\ UNCHANGED <<on, passed>>
          /\ terminations' = [terminations EXCEPT ![on[p]] = Append(@, reason[p])]
          /\ pc' = [pc EXCEPT ![p] = "idle"] /\ reason' = [reason EXCEPT ![p] = NoReason]
      BY <2>3 DEF TermRecord, Return, Goto
    <3>2. \A q \in Procs : pc'[q] \in TerminationPCs => ReasonKept(q)
      BY <1>0, <3>1 DEF ReasonKept, TerminationPCs
    <3>. QED  BY <3>1, <3>2 DEF ReasonStep
  <2>. QED  BY <1>7, <2>1, <2>2, <2>3 DEF TerminateStep
<1>8. CASE SyncStep
  <2>1. UNCHANGED <<pc, on, reason, passed, terminations>>
    BY <1>8 DEF SyncStep, SyncTick, SyncRead, SyncUpsert, SyncClear, storeVars
  <2>. QED  BY <1>1, <2>1 DEF ReasonKept
<1>9. ASSUME NEW l \in Links, NEW d \in Deadlines, DeadlinePasses(l, d) PROVE ReasonStep
  <2>1. UNCHANGED <<pc, on, reason, terminations>>
    BY <1>9 DEF DeadlinePasses, storeVars
  <2>2. \A k \in Links : passed[k] \subseteq passed'[k]
    BY <1>9 DEF DeadlinePasses, TypeInv, TypeOK
  <2>. QED  BY <2>1, <2>2 DEF ReasonStep, ReasonKept
<1>10. CASE Fault
  <2>1. ASSUME NEW r \in Requests,
               FailEvent(r) \/ FailCountRequest(r)
               \/ \E n \in ResponseBytes : FailCountBytes(r, n)
        PROVE  ReasonStep
    <3>1. PICK where : where \notin TerminationPCs /\ Goto(r, where)
      BY <2>1 DEF FailEvent, FailCountRequest, FailCountBytes, TerminationPCs
    <3>2. UNCHANGED <<on, reason, passed, terminations>> /\ r \in Procs
      BY <1>0, <2>1 DEF FailEvent, FailCountRequest, FailCountBytes, storeVars
    <3>. QED  BY <1>2, <3>1, <3>2
  <2>2. ASSUME NEW r \in Requests, (\E done \in WarmPrefixes : FailSeed(r, done)) \/ Abort(r)
        PROVE  ReasonStep
    <3>1. Return(r) /\ UNCHANGED <<on, passed, terminations>> /\ r \in Procs
      BY <1>0, <2>2 DEF FailSeed, Abort, storeVars
    <3>. QED  BY <1>3, <3>1
  <2>3. ASSUME NEW p \in Procs, FailRead(p) \/ FailUpdate(p) \/ FailRecord(p)
        PROVE  ReasonStep
    <3>1. Return(p) /\ UNCHANGED <<on, passed, terminations>>
      BY <2>3 DEF FailRead, FailUpdate, FailRecord, storeVars
    <3>. QED  BY <1>3, <3>1
  <2>4. CASE FailSync \/ RedisRestart
    <3>1. UNCHANGED <<pc, on, reason, passed, terminations>>
      BY <2>4 DEF FailSync, RedisRestart
    <3>. QED  BY <1>1, <3>1 DEF ReasonKept
  <2>5. CASE Crash
    <3>1. UNCHANGED <<passed, terminations>> /\ \A p \in Procs : pc'[p] \notin TerminationPCs
      BY <2>5 DEF Crash, storeVars, TerminationPCs
    <3>. QED  BY <1>1, <3>1
  <2>. QED  BY <1>10, <2>1, <2>2, <2>3, <2>4, <2>5, FailCountViolationReason DEF Fault
<1>11. CASE UNCHANGED vars
  BY <1>1, <1>11 DEF vars, ReasonKept
<1>. QED  BY <1>4, <1>5, <1>6, <1>7, <1>8, <1>9, <1>10, <1>11 DEF Next

LEMMA NextReason ==
    ASSUME TypeInv, TypeInv', ReasonInv, [Next]_vars, "redis" \notin Faults
    PROVE  ReasonInv'
<1>1. RedisStep /\ ReasonStep
  BY StoreKept, ReasonSteps
<1>2. \A l \in Links, r \in ReasonCodes \cup {NoReason} :
         ReasonHolds(l, r) => ReasonHolds(l, r)'
  BY <1>1, ReasonStays DEF ReasonStep
<1>3. ASSUME NEW p \in Procs, pc'[p] \in TerminationPCs
      PROVE  ReasonHolds(on[p], reason[p])'
  <2>1. CASE ReasonKept(p)
    <3>1. PICK l \in Links, r \in ReasonCodes \cup {NoReason} : l = on[p] /\ r = reason[p]
      BY DEF TypeInv, TypeOK
    <3>2. ReasonHolds(l, r)'
      BY <1>2, <2>1, <3>1 DEF ReasonInv, ReasonKept
    <3>3. l = on'[p] /\ r = reason'[p]
      BY <2>1, <3>1 DEF ReasonKept
    <3>. QED  BY <3>2, <3>3
  <2>. QED  BY <1>1, <1>3, <2>1 DEF ReasonStep
<1>4. ASSUME NEW l \in Links, NEW i \in DOMAIN terminations'[l]
      PROVE  ReasonHolds(l, terminations[l][i])'
  <2>1. /\ terminations \in [Links -> Seq(ReasonCodes)] /\ terminations[l] \in Seq(ReasonCodes)
        /\ Len(terminations[l]) \in Nat /\ DOMAIN terminations[l] = 1..Len(terminations[l])
    <3>1. terminations \in [Links -> Seq(ReasonCodes)]
      BY DEF TypeInv, TypeOK
    <3> HIDE DEF ReasonCodes
    <3>2. terminations[l] \in Seq(ReasonCodes)
      BY <3>1
    <3>. QED  BY <3>1, <3>2
  <2>2. CASE i \in DOMAIN terminations[l] /\ terminations'[l][i] = terminations[l][i]
    <3>1. PICK r \in ReasonCodes : r = terminations[l][i]
      BY <2>1, <2>2
    <3>2. ReasonHolds(l, r)'
      BY <1>2, <2>2, <3>1 DEF ReasonInv, ReasonJustified
    <3>. QED  BY <2>2, <3>1, <3>2
  <2>3. CASE UNCHANGED terminations
    BY <2>2, <2>3
  <2>4. ASSUME NEW p \in Procs, pc[p] = "termRecord",
               terminations' = [terminations EXCEPT ![on[p]] = Append(@, reason[p])]
        PROVE  ReasonHolds(l, terminations[l][i])'
    <3>1. reason[p] \in ReasonCodes /\ on[p] \in Links /\ ReasonHolds(on[p], reason[p])
      BY <2>4 DEF TypeInv, TypeOK, ReasonKnown, ReasonInv, TerminationPCs
    <3>2. CASE on[p] # l
      <4>1. terminations'[l] = terminations[l]
        BY <2>1, <2>4, <3>2
      <4>. QED  BY <2>2, <4>1
    <3>3. CASE on[p] = l
      <4>1. terminations'[l] = Append(terminations[l], reason[p])
        BY <2>1, <2>4, <3>3
      <4>2. \/ i \in DOMAIN terminations[l] /\ terminations'[l][i] = terminations[l][i]
            \/ terminations'[l][i] = reason[p]
        BY <2>1, <3>1, <4>1
      <4>3. CASE terminations'[l][i] = reason[p]
        <5>1. PICK r \in ReasonCodes : r = reason[p]
          BY <3>1
        <5>2. ReasonHolds(l, r)'
          BY <1>2, <3>1, <3>3, <5>1
        <5>. QED  BY <4>3, <5>1, <5>2
      <4>. QED  BY <2>2, <4>2, <4>3
    <3>. QED  BY <3>2, <3>3
  <2>. QED  BY <1>1, <2>3, <2>4 DEF ReasonStep
<1>. QED  BY <1>3, <1>4 DEF ReasonInv, ReasonJustified

\* "terminated with the right reason": while Redis keeps its data, whatever else
\* fails, a link_terminations row states a reason that holds of its link, although
\* it is written three round trips after the counters were read.
THEOREM ReasonTheorem ==
    ASSUME "redis" \notin Faults
    PROVE  Spec => []ReasonJustified
<1>1. Init => TypeInv /\ ReasonInv
  <2>1. Init => ReasonInv
    BY DEF Init, ReasonInv, ReasonJustified, TerminationPCs
  <2>. QED  BY <2>1, InitType
<1>2. TypeInv /\ ReasonInv /\ [Next]_vars => TypeInv' /\ ReasonInv'
  BY NextType, NextReason
<1>3. ReasonInv => ReasonJustified
  BY DEF ReasonInv
<1>. QED  BY <1>1, <1>2, <1>3, PTL DEF Spec

-----------------------------------------------------------------------------
(* A terminated link has its reason on record, unless a call fails or the  *)
(* process dies.                                                           *)

\* Who is about to write the row, and what is written, is not forgotten.
RecordStep ==
    /\ \A l \in Links : status'[l] = "terminated" =>
          \/ status[l] = "terminated"
          \/ \E p \in Procs : on'[p] = l /\ pc'[p] = "termRecord"
    /\ \A l \in Links : terminations[l] # <<>> => terminations'[l] # <<>>
    /\ \A p \in Procs : pc[p] = "termRecord" =>
          \/ pc'[p] = "termRecord" /\ on'[p] = on[p]
          \/ terminations'[on[p]] # <<>>

LEMMA RecordSteps ==
    ASSUME TypeInv, [Next]_vars, "io" \notin Faults, "crash" \notin Faults
    PROVE  RecordStep
<1>0. /\ pc \in [Procs -> RequestPCs] /\ Requests \subseteq Procs /\ Owners \subseteq Procs
      /\ on \in [Procs -> Links] /\ status \in [Links -> {"active", "terminated"}]
      /\ terminations \in [Links -> Seq(ReasonCodes)]
  BY DEF TypeInv, TypeOK, Procs
\* A step of a handler that is not about to write the row.
<1>1. ASSUME NEW p \in Procs, NEW where, pc[p] # "termRecord", Goto(p, where),
             UNCHANGED <<status, terminations>>,
             \A q \in Procs \ {p} : on'[q] = on[q]
      PROVE  RecordStep
  BY <1>0, <1>1 DEF RecordStep, Goto
<1>2. ASSUME UNCHANGED <<pc, on, status, terminations>> PROVE RecordStep
  BY <1>2 DEF RecordStep
<1>3. ASSUME NEW r \in Requests, NEW l \in Links, Lookup(r, l) \/ LookupRefused(r, l)
      PROVE  RecordStep
  <2>1. CASE Lookup(r, l)
    <3>1. pc[r] # "termRecord" /\ Goto(r, "seed") /\ UNCHANGED <<status, terminations>>
          /\ \A q \in Procs \ {r} : on'[q] = on[q]
      BY <1>0, <2>1 DEF Lookup, storeVars
    <3>. QED  BY <1>0, <1>1, <3>1
  <2>2. CASE LookupRefused(r, l)
    BY <1>2, <2>2 DEF LookupRefused, vars
  <2>. QED  BY <1>3, <2>1, <2>2
<1>4. ASSUME NEW r \in Requests, HandlerStep(r) PROVE RecordStep
  <2>1. pc[r] # "termRecord" /\ UNCHANGED <<on, status, terminations>>
    BY <1>4 DEF HandlerStep, ReadUsage, SeedRedis, BlacklistHit, BlacklistMiss, RecordEvent,
                CountViolation, CheckLimits, Forward, CountRequest, CountBytes, Recheck,
                storeVars
  <2>2. PICK where : Goto(r, where)
    BY <1>4 DEF HandlerStep, ReadUsage, SeedRedis, BlacklistHit, BlacklistMiss, RecordEvent,
                CountViolation, CheckLimits, Forward, CountRequest, CountBytes, Recheck,
                AfterViolation, TerminateOr
  <2>. QED  BY <1>0, <1>1, <2>1, <2>2
<1>5. ASSUME NEW o \in Owners, NEW l \in Links, OwnerTerminates(o, l) PROVE RecordStep
  <2>1. pc[o] # "termRecord" /\ Goto(o, "termCheck") /\ UNCHANGED <<status, terminations>>
        /\ \A q \in Procs \ {o} : on'[q] = on[q]
    BY <1>0, <1>5 DEF OwnerTerminates, storeVars
  <2>. QED  BY <1>0, <1>1, <2>1
<1>6. ASSUME NEW p \in Procs, TerminateStep(p) PROVE RecordStep
  <2>1. CASE TermCheck(p)
    <3>1. pc[p] # "termRecord" /\ UNCHANGED <<on, status, terminations>>
      BY <2>1 DEF TermCheck, storeVars
    <3>2. PICK where : Goto(p, where)
      BY <2>1 DEF TermCheck, Return
    <3>. QED  BY <1>1, <3>1, <3>2
  <2>2. CASE TermUpdate(p)
    <3>1. /\ status' = [status EXCEPT ![on[p]] = "terminated"] /\ pc[p] = "termUpdate"
          /\ pc' = [pc EXCEPT ![p] = "termRecord"] /\ UNCHANGED <<on, terminations>>
      BY <2>2 DEF TermUpdate, Goto
    <3>. QED  BY <1>0, <3>1 DEF RecordStep
  <2>3. CASE TermRecord(p)
    <3>1. /\ terminations' = [terminations EXCEPT ![on[p]] = Append(@, reason[p])]
          /\ pc' = [pc EXCEPT ![p] = "idle"] /\ UNCHANGED <<on, status>>
      BY <2>3 DEF TermRecord, Return, Goto
    <3>2. on[p] \in Links /\ terminations[on[p]] \in Seq(ReasonCodes)
      BY <1>0
    <3>3. terminations'[on[p]] = Append(terminations[on[p]], reason[p])
          /\ \A l \in Links \ {on[p]} : terminations'[l] = terminations[l]
      BY <1>0, <3>1
    <3>4. Append(terminations[on[p]], reason[p]) # <<>>
      BY <3>2
    <3>5. \A q \in Procs \ {p} : pc'[q] = pc[q]
      BY <1>0, <3>1
    <3>. QED  BY <3>1, <3>3, <3>4, <3>5 DEF RecordStep
  <2>. QED  BY <1>6, <2>1, <2>2, <2>3 DEF TerminateStep
<1>7. CASE SyncStep
  BY <1>2, <1>7 DEF SyncStep, SyncTick, SyncRead, SyncUpsert, SyncClear, storeVars
<1>8. ASSUME NEW l \in Links, NEW d \in Deadlines, DeadlinePasses(l, d) PROVE RecordStep
  BY <1>2, <1>8 DEF DeadlinePasses, storeVars
<1>9. CASE Fault
  <2>1. RedisRestart \/ \E r \in Requests : Abort(r)
    BY <1>9 DEF Fault, FailSeed, FailEvent, FailCountRequest, FailCountViolation,
                FailCountBytes, FailRead, FailUpdate, FailRecord, FailSync, Crash
  <2>2. CASE RedisRestart
    BY <1>2, <2>2 DEF RedisRestart
  <2>3. ASSUME NEW r \in Requests, Abort(r) PROVE RecordStep
    <3>1. pc[r] # "termRecord" /\ Goto(r, "idle") /\ UNCHANGED <<on, status, terminations>>
      BY <2>3 DEF Abort, Return, storeVars
    <3>. QED  BY <1>0, <1>1, <3>1
  <2>. QED  BY <2>1, <2>2, <2>3
<1>10. CASE UNCHANGED vars
  BY <1>2, <1>10 DEF vars
<1>. QED  BY <1>3, <1>4, <1>5, <1>6, <1>7, <1>8, <1>9, <1>10 DEF Next

\* When no call fails and the process does not die, a terminated link has a row
\* that says why, or a handler is about to write it, whatever guests, owners and
\* Redis do (AutoTerminate, TerminateLink).
THEOREM ExplainedTheorem ==
    ASSUME "io" \notin Faults, "crash" \notin Faults
    PROVE  Spec => []TerminationExplained
<1>1. Init => TypeInv /\ TerminationExplained
  BY InitType DEF Init, TerminationExplained
<1>2. TypeInv /\ TerminationExplained /\ [Next]_vars => TypeInv' /\ TerminationExplained'
  <2>. SUFFICES ASSUME TypeInv, TerminationExplained, [Next]_vars
                PROVE  TerminationExplained'
    BY NextType
  <2>1. RecordStep
    BY RecordSteps
  <2>. QED  BY <2>1 DEF RecordStep, TerminationExplained
<1>. QED  BY <1>1, <1>2, PTL DEF Spec

-----------------------------------------------------------------------------
(* Counting the requests on a link that are at some places.                *)

At(l, places, at, link) == {r \in Requests : link[r] = l /\ at[r] \in places}

LEMMA AtCounted ==
    ASSUME NEW l, NEW places, NEW at, NEW link
    PROVE  /\ IsFiniteSet(At(l, places, at, link)) /\ Cardinality(At(l, places, at, link)) \in Nat
           /\ Cardinality(At(l, places, at, link)) <= Cardinality(Requests)
           /\ Cardinality(Requests) \in Nat
<1> DEFINE S == At(l, places, at, link)
<1>1. IsFiniteSet(Requests) /\ S \in SUBSET Requests
  BY ConstantsAssumption DEF At
<1>. SUFFICES /\ IsFiniteSet(S) /\ Cardinality(S) \in Nat
              /\ Cardinality(S) <= Cardinality(Requests) /\ Cardinality(Requests) \in Nat
  OBVIOUS
<1> HIDE DEF S
<1>2. IsFiniteSet(S) /\ Cardinality(S) <= Cardinality(Requests)
  BY <1>1, FS_Subset
<1>. QED  BY <1>1, <1>2, FS_CardinalityType

\* Nobody comes to the places.
LEMMA AtKept ==
    ASSUME NEW places,
           \A q \in Requests : pc'[q] \in places => pc[q] \in places /\ on'[q] = on[q],
           NEW l
    PROVE  /\ Cardinality(At(l, places, pc', on')) <= Cardinality(At(l, places, pc, on))
           /\ Cardinality(At(l, places, pc', on')) \in Nat
<1> DEFINE S == At(l, places, pc, on)
           T == At(l, places, pc', on')
<1>0. IsFiniteSet(S)
  BY AtCounted
<1>1. T \in SUBSET S
  BY DEF At
<1>. SUFFICES Cardinality(T) <= Cardinality(S) /\ Cardinality(T) \in Nat
  OBVIOUS
<1> HIDE DEF S, T
<1>2. IsFiniteSet(T) /\ Cardinality(T) <= Cardinality(S)
  BY <1>0, <1>1, FS_Subset
<1>. QED  BY <1>2, FS_CardinalityType

\* A step of one handler, on the link it is already on.
Moves(r, where) == Goto(r, where) /\ UNCHANGED on

\* One request comes to the places, or leaves them.
LEMMA AtChanged ==
    ASSUME TypeInv, NEW r \in Requests, NEW where, Moves(r, where), NEW k, on[r] = k,
           NEW places
    PROVE  /\ pc[r] \in places /\ where \notin places =>
                 Cardinality(At(k, places, pc', on')) + 1 = Cardinality(At(k, places, pc, on))
           /\ pc[r] \notin places /\ where \in places =>
                 Cardinality(At(k, places, pc', on')) = Cardinality(At(k, places, pc, on)) + 1
           /\ \A l : l # k \/ (pc[r] \in places <=> where \in places) =>
                 At(l, places, pc', on') = At(l, places, pc, on)
<1> DEFINE S == At(k, places, pc, on)
           T == At(k, places, pc', on')
<1>1. pc'[r] = where /\ \A q \in Requests \ {r} : pc'[q] = pc[q]
  BY DEF TypeInv, TypeOK, Procs, Moves, Goto
<1>2. \A l : l # k \/ (pc[r] \in places <=> where \in places) =>
                 At(l, places, pc', on') = At(l, places, pc, on)
  BY <1>1 DEF At, Moves
<1>3. ASSUME pc[r] \in places, where \notin places
      PROVE  Cardinality(T) + 1 = Cardinality(S)
  <2>1. r \in S /\ T = S \ {r}
    BY <1>1, <1>3 DEF At, Moves
  <2>2. IsFiniteSet(S) /\ Cardinality(S) \in Nat
    BY AtCounted
  <2> HIDE DEF S, T
  <2>3. Cardinality(T) = Cardinality(S) - 1
    BY <2>1, <2>2, FS_RemoveElement
  <2>. QED  BY <2>2, <2>3
<1>4. ASSUME pc[r] \notin places, where \in places
      PROVE  Cardinality(T) = Cardinality(S) + 1
  <2>1. r \notin S /\ T = S \cup {r}
    BY <1>1, <1>4 DEF At, Moves
  <2>2. IsFiniteSet(S)
    BY AtCounted
  <2> HIDE DEF S, T
  <2>. QED  BY <2>1, <2>2, FS_AddElement
<1>. QED  BY <1>2, <1>3, <1>4

-----------------------------------------------------------------------------
(* Every counted violation has its security_events row, unless a call      *)
(* fails.                                                                  *)

Violations(l) == IntOrZero(redis[l]["violations"])

Matched == {"incrViolations"}

\* Matches on l that have their row and are not counted yet.
Pending(l) == Cardinality(At(l, Matched, pc, on))

\* However often a number is copied from one store to the next, it counts rows.
RecordedInv ==
    /\ \A l \in Links : Violations(l) + Pending(l) <= events[l]
    /\ \A l \in Links : usage[l]["violations"] + Pending(l) <= events[l]
    /\ worker = "upsert" => snap["violations"] + Pending(cur) <= events[cur]
    /\ \A r \in Requests : pc[r] = "warm" =>
          seed[r]["violations"] + Pending(on[r]) <= events[on[r]]

LEMMA WarmLoadEither ==
    ASSUME NEW k \in Keys, NEW c \in Counters, NEW done, NEW f \in Fields
    PROVE  IntOrZero(WarmLoad(k, c, done)[f]) \in {IntOrZero(k[f]), c[f]}
    BY DEF Keys, Counters, WarmLoad, SetNX, IntOrZero, Nil

LEMMA Numbers ==
    ASSUME TypeInv
    PROVE  /\ \A l \in Links : /\ Violations(l) \in Nat /\ Pending(l) \in Nat
                               /\ events[l] \in Nat /\ usage[l]["violations"] \in Nat
           /\ \A r \in Requests : seed[r]["violations"] \in Nat
           /\ snap["violations"] \in Nat
<1>1. "violations" \in Fields
  BY DEF Fields
<1>2. \A l \in Links : redis[l] \in Keys /\ events[l] \in Nat /\ usage[l] \in Counters
  BY DEF TypeInv, TypeOK
<1>3. \A r \in Requests : seed[r] \in Counters
  BY DEF TypeInv, TypeOK
<1>4. \A l \in Links : Violations(l) \in Nat /\ Pending(l) \in Nat
  BY <1>2, ViolationCounted, AtCounted DEF Violations, Pending
<1>5. snap \in Counters
  BY DEF TypeInv, TypeOK
<1>. QED  BY <1>1, <1>2, <1>3, <1>4, <1>5 DEF Counters

\* The rows keep ahead of the matches under way ...
RowsAhead ==
    \A l \in Links : events[l] + Pending(l)' <= events'[l] + Pending(l)

\* ... and a counter takes up a seed, or counts a match that was under way.
CountStep ==
    \A l \in Links :
        \/ Violations(l)' <= Violations(l)
        \/ \E r \in Requests :
              pc[r] = "warm" /\ on[r] = l /\ Violations(l)' = seed[r]["violations"]
        \/ /\ Violations(l)' = Violations(l) + 1
           /\ events[l] + Pending(l)' + 1 <= events'[l] + Pending(l)

\* A step after which nobody new has a match to count.
LEMMA NoNewMatch ==
    ASSUME TypeInv, events' = events,
           \A q \in Requests : pc'[q] = "incrViolations" =>
               pc[q] = "incrViolations" /\ on'[q] = on[q]
    PROVE  RowsAhead
<1>1. \A l : Pending(l)' <= Pending(l) /\ Pending(l)' \in Nat
  <2>1. \A q \in Requests : pc'[q] \in Matched => pc[q] \in Matched /\ on'[q] = on[q]
    BY DEF Matched
  <2>. QED  BY <2>1, AtKept DEF Pending, Matched
<1>. QED  BY <1>1, Numbers DEF RowsAhead

LEMMA HandlerRows ==
    ASSUME TypeInv, NEW r \in Requests, HandlerStep(r)
    PROVE  RowsAhead /\ CountStep
<1>0. /\ pc \in [Procs -> RequestPCs] /\ r \in Procs /\ on[r] \in Links
      /\ redis \in [Links -> Keys] /\ Requests \subseteq Procs /\ seed[r] \in Counters
      /\ {"requests", "bytes", "violations"} \subseteq Fields
  BY DEF TypeInv, TypeOK, Procs, Fields
<1>1. ASSUME NEW where, Goto(r, where), where # "incrViolations", UNCHANGED <<on, events>>
      PROVE  RowsAhead
  BY <1>0, <1>1, NoNewMatch DEF Goto
<1>2. ASSUME redis' = redis PROVE CountStep
  BY <1>2, Numbers DEF CountStep, Violations
<1>3. ASSUME NEW g \in {"requests", "bytes"}, NEW n,
             redis' = [redis EXCEPT ![on[r]] = IncrBy(@, g, n)]
      PROVE  CountStep
  <2>1. \A l \in Links : redis'[l]["violations"] = redis[l]["violations"]
    BY <1>0, <1>3, IncrOther
  <2>. QED  BY <2>1, Numbers DEF CountStep, Violations
<1>4. CASE \/ ReadUsage(r) \/ BlacklistHit(r) \/ BlacklistMiss(r) \/ CheckLimits(r)
           \/ Forward(r) \/ Recheck(r)
  <2>1. UNCHANGED <<on, events, redis>>
    BY <1>4 DEF ReadUsage, BlacklistHit, BlacklistMiss, CheckLimits, Forward, Recheck,
                storeVars
  <2>2. PICK where : Goto(r, where) /\ where # "incrViolations"
    BY <1>4 DEF ReadUsage, BlacklistHit, BlacklistMiss, CheckLimits, Forward, Recheck,
                TerminateOr
  <2>. QED  BY <1>1, <1>2, <2>1, <2>2
<1>5. CASE SeedRedis(r)
  <2>1. /\ UNCHANGED <<on, events>> /\ Goto(r, "resolve") /\ pc[r] = "warm"
        /\ redis' = [redis EXCEPT ![on[r]] = WarmLoad(@, seed[r], Fields)]
    BY <1>5 DEF SeedRedis
  <2>2. \A l \in Links \ {on[r]} : redis'[l] = redis[l]
    BY <1>0, <2>1
  <2>3. Violations(on[r])' \in {Violations(on[r]), seed[r]["violations"]}
    BY <1>0, <2>1, WarmLoadEither DEF Violations
  <2>4. \A l \in Links \ {on[r]} : Violations(l)' = Violations(l)
    BY <2>2 DEF Violations
  <2>5. CountStep
    BY <1>0, <2>1, <2>3, <2>4, Numbers DEF CountStep
  <2>. QED  BY <1>1, <2>1, <2>5
<1>6. CASE CountRequest(r) \/ \E n \in ResponseBytes : CountBytes(r, n)
  <2>1. UNCHANGED <<on, events>>
    BY <1>6 DEF CountRequest, CountBytes
  <2>2. PICK where : Goto(r, where) /\ where # "incrViolations"
    BY <1>6 DEF CountRequest, CountBytes
  <2>3. PICK g, n : /\ g \in {"requests", "bytes"}
                    /\ redis' = [redis EXCEPT ![on[r]] = IncrBy(@, g, n)]
    BY <1>6 DEF CountRequest, CountBytes, IncrAndMarkDirty
  <2>. QED  BY <1>1, <1>3, <2>1, <2>2, <2>3
<1>7. CASE RecordEvent(r)
  <2>1. /\ pc' = [pc EXCEPT ![r] = "incrViolations"] /\ pc[r] = "event"
        /\ events' = [events EXCEPT ![on[r]] = @ + 1] /\ UNCHANGED <<on, redis>>
    BY <1>7 DEF RecordEvent, Goto
  <2>0. PICK k \in Links : on[r] = k
    BY <1>0
  <2>2. /\ Pending(k)' = Pending(k) + 1
        /\ \A l : l # k => Pending(l)' = Pending(l)
    <3>1. pc[r] \notin Matched /\ "incrViolations" \in Matched
      BY <2>1 DEF Matched
    <3>0. Moves(r, "incrViolations")
      BY <2>1 DEF Moves, Goto
    <3>2. Cardinality(At(k, Matched, pc', on')) = Cardinality(At(k, Matched, pc, on)) + 1
      BY <2>0, <3>0, <3>1, AtChanged
    <3>3. \A l : l # k => At(l, Matched, pc', on') = At(l, Matched, pc, on)
      BY <2>0, <3>0, AtChanged
    <3>. QED  BY <3>2, <3>3 DEF Pending, Matched
  <2>3. events'[on[r]] = events[on[r]] + 1 /\ \A l \in Links \ {on[r]} : events'[l] = events[l]
    BY <1>0, <2>1 DEF TypeInv, TypeOK
  <2>4. RowsAhead
    BY <1>0, <2>0, <2>2, <2>3, Numbers DEF RowsAhead
  <2>. QED  BY <1>2, <2>1, <2>4
<1>8. CASE CountViolation(r)
  <2>1. /\ redis' = [redis EXCEPT ![on[r]] = IncrBy(@, "violations", 1)]
        /\ UNCHANGED <<on, events>> /\ pc[r] = "incrViolations"
    BY <1>8 DEF CountViolation, IncrAndMarkDirty
  <2>0. PICK k \in Links : on[r] = k
    BY <1>0
  <2>2. PICK where : where # "incrViolations" /\ pc' = [pc EXCEPT ![r] = where]
    <3>1. pc' = [pc EXCEPT ![r] = "termCheck"] \/ pc' = [pc EXCEPT ![r] = "idle"]
      BY <1>8 DEF CountViolation, AfterViolation, TerminateOr, Goto
    <3>. QED  BY <3>1
  <2>3. /\ Pending(k)' + 1 = Pending(k)
        /\ \A l : l # k => Pending(l)' = Pending(l)
    <3>1. pc[r] \in Matched /\ where \notin Matched
      BY <2>1, <2>2 DEF Matched
    <3>0. Moves(r, where)
      BY <2>1, <2>2 DEF Moves, Goto
    <3>2. Cardinality(At(k, Matched, pc', on')) + 1 = Cardinality(At(k, Matched, pc, on))
      BY <2>0, <3>0, <3>1, AtChanged
    <3>3. \A l : l # k => At(l, Matched, pc', on') = At(l, Matched, pc, on)
      BY <2>0, <3>0, AtChanged
    <3>. QED  BY <3>2, <3>3 DEF Pending, Matched
  <2>4. Violations(k)' = Violations(k) + 1
    BY <1>0, <2>0, <2>1, ViolationCounted DEF Violations
  <2>5. \A l \in Links \ {k} : Violations(l)' = Violations(l)
    BY <1>0, <2>0, <2>1 DEF Violations
  <2>6. Pending(k)' \in Nat
    <3>1. \A q \in Requests : pc'[q] \in Matched =>
             pc[q] \in Matched /\ on'[q] = on[q]
      BY <1>0, <2>1, <2>2 DEF Matched
    <3>. QED  BY <3>1, AtKept DEF Pending, Matched
  <2>7. RowsAhead
    BY <2>0, <2>1, <2>3, <2>6, Numbers DEF RowsAhead
  <2>8. CountStep
    BY <2>0, <2>1, <2>3, <2>4, <2>5, <2>6, Numbers DEF CountStep
  <2>. QED  BY <2>7, <2>8
<1>. QED  BY <1>4, <1>5, <1>6, <1>7, <1>8 DEF HandlerStep

LEMMA RowsSteps ==
    ASSUME TypeInv, [Next]_vars, "io" \notin Faults
    PROVE  RowsAhead /\ CountStep
<1>0. /\ pc \in [Procs -> RequestPCs] /\ Requests \subseteq Procs /\ Owners \subseteq Procs
      /\ on \in [Procs -> Links] /\ Requests \cap Owners = {}
  BY ConstantsAssumption DEF TypeInv, TypeOK, Procs
<1>1. ASSUME redis' = redis PROVE CountStep
  BY <1>1, Numbers DEF CountStep, Violations
\* A step of a process that does not go to count a match.
<1>2. ASSUME NEW p \in Procs, NEW where, where # "incrViolations", Goto(p, where),
             UNCHANGED <<redis, events>>, pc[p] # "incrViolations",
             \A q \in Procs \ {p} : on'[q] = on[q]
      PROVE  RowsAhead /\ CountStep
  <2>1. \A q \in Requests : pc'[q] = "incrViolations" =>
           pc[q] = "incrViolations" /\ on'[q] = on[q]
    BY <1>0, <1>2 DEF Goto
  <2>. QED  BY <1>1, <1>2, <2>1, NoNewMatch
<1>3. ASSUME UNCHANGED <<pc, on, redis, events>> PROVE RowsAhead /\ CountStep
  BY <1>1, <1>3, NoNewMatch
<1>4. ASSUME NEW r \in Requests, NEW l \in Links, Lookup(r, l) \/ LookupRefused(r, l)
      PROVE  RowsAhead /\ CountStep
  <2>1. CASE Lookup(r, l)
    <3>1. /\ pc[r] # "incrViolations" /\ Goto(r, "seed") /\ UNCHANGED <<redis, events>>
          /\ \A q \in Procs \ {r} : on'[q] = on[q]
      BY <1>0, <2>1 DEF Lookup, storeVars
    <3>. QED  BY <1>0, <1>2, <3>1
  <2>2. CASE LookupRefused(r, l)
    BY <1>3, <2>2 DEF LookupRefused, vars
  <2>. QED  BY <1>4, <2>1, <2>2
<1>5. ASSUME NEW r \in Requests, HandlerStep(r) PROVE RowsAhead /\ CountStep
  BY <1>5, HandlerRows
<1>6. ASSUME NEW o \in Owners, NEW l \in Links, OwnerTerminates(o, l)
      PROVE  RowsAhead /\ CountStep
  <2>1. /\ pc[o] # "incrViolations" /\ Goto(o, "termCheck") /\ UNCHANGED <<redis, events>>
        /\ \A q \in Procs \ {o} : on'[q] = on[q]
    BY <1>0, <1>6 DEF OwnerTerminates, storeVars
  <2>. QED  BY <1>0, <1>2, <2>1
<1>7. ASSUME NEW p \in Procs, TerminateStep(p) PROVE RowsAhead /\ CountStep
  <2>1. pc[p] # "incrViolations" /\ UNCHANGED <<on, redis, events>>
    BY <1>7 DEF TerminateStep, TermCheck, TermUpdate, TermRecord, storeVars
  <2>2. Goto(p, "idle") \/ Goto(p, "termUpdate") \/ Goto(p, "termRecord")
    BY <1>7 DEF TerminateStep, TermCheck, TermUpdate, TermRecord, Return
  <2>. QED  BY <1>2, <2>1, <2>2
<1>8. CASE SyncStep
  BY <1>3, <1>8 DEF SyncStep, SyncTick, SyncRead, SyncUpsert, SyncClear, storeVars
<1>9. ASSUME NEW l \in Links, NEW d \in Deadlines, DeadlinePasses(l, d)
      PROVE  RowsAhead /\ CountStep
  BY <1>3, <1>9 DEF DeadlinePasses, storeVars
<1>10. CASE Fault
  <2>1. RedisRestart \/ Crash \/ \E r \in Requests : Abort(r)
    BY <1>10 DEF Fault, FailSeed, FailEvent, FailCountRequest, FailCountViolation,
                 FailCountBytes, FailRead, FailUpdate, FailRecord, FailSync
  <2>2. CASE RedisRestart
    <3>1. UNCHANGED <<pc, on, events>> /\ redis' = [l \in Links |-> NoKeys]
      BY <2>2 DEF RedisRestart
    <3>2. \A l \in Links : Violations(l)' = 0
      BY <3>1 DEF Violations, NoKeys, IntOrZero, Nil, Fields
    <3>3. CountStep
      BY <3>2, Numbers DEF CountStep
    <3>. QED  BY <3>1, <3>3, NoNewMatch
  <2>3. CASE Crash
    <3>1. UNCHANGED <<on, redis, events>> /\ \A q \in Requests : pc'[q] = "idle"
      BY <1>0, <2>3 DEF Crash, storeVars
    <3>. QED  BY <1>1, <3>1, NoNewMatch
  <2>4. ASSUME NEW r \in Requests, Abort(r) PROVE RowsAhead /\ CountStep
    <3>1. pc[r] # "incrViolations" /\ Goto(r, "idle") /\ UNCHANGED <<on, redis, events>>
      BY <2>4 DEF Abort, Return, storeVars
    <3>. QED  BY <1>0, <1>2, <3>1
  <2>. QED  BY <2>1, <2>2, <2>3, <2>4
<1>11. CASE UNCHANGED vars
  BY <1>3, <1>11 DEF vars
<1>. QED  BY <1>4, <1>5, <1>6, <1>7, <1>8, <1>9, <1>10, <1>11 DEF Next

LEMMA InitRecorded == Init => RecordedInv
<1>. SUFFICES ASSUME Init PROVE RecordedInv
  OBVIOUS
<1>1. \A l : Pending(l) = 0
  <2>1. \A l : At(l, Matched, pc, on) = {}
    BY DEF Init, At, Matched, Procs
  <2>. QED  BY <2>1, FS_EmptySet DEF Pending
<1>2. /\ \A l \in Links : Violations(l) = 0 /\ usage[l]["violations"] = 0 /\ events[l] = 0
      /\ worker = "idle" /\ \A r \in Requests : pc[r] = "idle"
  BY DEF Init, Violations, ZeroCounters, NoKeys, IntOrZero, Nil, Fields, Procs
<1>. QED  BY <1>1, <1>2 DEF RecordedInv

LEMMA NextRecorded ==
    ASSUME TypeInv, TypeInv', RecordedInv, [Next]_vars, "io" \notin Faults
    PROVE  RecordedInv'
<1>1. RowsAhead /\ CountStep /\ UsageStep /\ SeedStep /\ SnapStep
  BY RowsSteps, StoreSteps, LocalSteps
\* Every number that was covered is still covered.
<1>2. ASSUME NEW l \in Links, NEW n \in Nat, n + Pending(l) <= events[l]
      PROVE  n + Pending(l)' <= events'[l]
  <2>1. /\ Pending(l) \in Nat /\ events[l] \in Nat /\ events'[l] \in Nat
        /\ Pending(l)' \in Nat
    BY Numbers, AtCounted DEF Pending, TypeInv, TypeOK, Matched
  <2>2. events[l] + Pending(l)' <= events'[l] + Pending(l)
    BY <1>1 DEF RowsAhead
  <2>. QED  BY <1>2, <2>1, <2>2
<1>3. \A l \in Links : Violations(l)' + Pending(l)' <= events'[l]
  <2>. SUFFICES ASSUME NEW l \in Links
                PROVE  Violations(l)' + Pending(l)' <= events'[l]
    OBVIOUS
  <2>0. /\ Violations(l) \in Nat /\ Violations(l)' \in Nat /\ Pending(l)' \in Nat
        /\ events'[l] \in Nat /\ events[l] \in Nat /\ Pending(l) \in Nat
    <3>1. redis'[l] \in Keys /\ events'[l] \in Nat
      BY DEF TypeInv, TypeOK
    <3>. QED  BY <3>1, Numbers, ViolationCounted, AtCounted
              DEF Pending, Violations, Matched
  <2>1. CASE Violations(l)' <= Violations(l)
    <3>1. Violations(l) + Pending(l)' <= events'[l]
      BY <1>2, <2>0 DEF RecordedInv
    <3>. QED  BY <2>0, <2>1, <3>1
  <2>2. ASSUME NEW r \in Requests, pc[r] = "warm", on[r] = l,
               Violations(l)' = seed[r]["violations"]
        PROVE  Violations(l)' + Pending(l)' <= events'[l]
    <3>1. Violations(l)' + Pending(l) <= events[l]
      BY <2>2 DEF RecordedInv
    <3>. QED  BY <1>2, <2>0, <3>1
  <2>3. CASE /\ Violations(l)' = Violations(l) + 1
             /\ events[l] + Pending(l)' + 1 <= events'[l] + Pending(l)
    <3>1. Violations(l) + Pending(l) <= events[l]
      BY DEF RecordedInv
    <3>. QED  BY <2>0, <2>3, <3>1
  <2>. QED  BY <1>1, <2>1, <2>2, <2>3 DEF CountStep
<1>4. \A l \in Links : usage'[l]["violations"] + Pending(l)' <= events'[l]
  <2>. SUFFICES ASSUME NEW l \in Links
                PROVE  usage'[l]["violations"] + Pending(l)' <= events'[l]
    OBVIOUS
  <2>1. CASE usage'[l] = usage[l]
    BY <1>2, <2>1, Numbers DEF RecordedInv
  <2>2. CASE worker = "upsert" /\ l = cur /\ usage'[l] = snap
    BY <1>2, <2>2, Numbers DEF RecordedInv
  <2>3. usage'[l] = usage[l] \/ (worker = "upsert" /\ l = cur /\ usage'[l] = snap)
    BY <1>1 DEF UsageStep, TypeInv, TypeOK
  <2>. QED  BY <2>1, <2>2, <2>3
<1>5. ASSUME worker' = "upsert"
      PROVE  snap'["violations"] + Pending(cur)' <= events'[cur']
  <2>0. PICK k \in Links : cur' = k
    BY DEF TypeInv, TypeOK
  <2>1. snap'["violations"] \in Nat
    BY DEF TypeInv, TypeOK, Counters, Fields
  <2>2. snap'["violations"] + Pending(k) <= events[k]
    <3>1. CASE worker = "upsert" /\ UNCHANGED <<cur, snap>>
      BY <2>0, <3>1 DEF RecordedInv
    <3>2. CASE snap' = GetCounters(redis[cur'])
      <4>1. snap'["violations"] = Violations(k)
        BY <2>0, <3>2 DEF GetCounters, Violations, Fields
      <4>. QED  BY <4>1 DEF RecordedInv
    <3>. QED  BY <1>1, <1>5, <3>1, <3>2 DEF SnapStep
  <2>3. snap'["violations"] + Pending(k)' <= events'[k]
    BY <1>2, <2>1, <2>2
  <2>. QED  BY <2>0, <2>3 DEF Pending
<1>6. ASSUME NEW r \in Requests, pc'[r] = "warm"
      PROVE  seed'[r]["violations"] + Pending(on[r])' <= events'[on'[r]]
  <2>0. PICK k \in Links : on[r] = k
    BY DEF TypeInv, TypeOK, Procs
  <2>1. on'[r] = k
    BY <1>1, <1>6, <2>0 DEF SeedStep
  <2>2. seed'[r]["violations"] \in Nat
    BY DEF TypeInv, TypeOK, Counters, Fields
  <2>3. seed'[r]["violations"] + Pending(k) <= events[k]
    BY <1>1, <1>6, <2>0 DEF SeedStep, RecordedInv
  <2>4. seed'[r]["violations"] + Pending(k)' <= events'[k]
    BY <1>2, <2>2, <2>3
  <2>. QED  BY <2>1, <2>4 DEF Pending
<1>. QED  BY <1>3, <1>4, <1>5, <1>6 DEF RecordedInv

\* While Postgres and Redis answer, and even if the process dies or Redis loses
\* its data: the violation counter never shows a match that has no
\* security_events row (recordViolation writes the row first, and a warm load
\* brings back only what was once counted).
THEOREM RecordedTheorem ==
    ASSUME "io" \notin Faults
    PROVE  Spec => []EveryViolationRecorded
<1>1. Init => TypeInv /\ RecordedInv
  BY InitType, InitRecorded
<1>2. TypeInv /\ RecordedInv /\ [Next]_vars => TypeInv' /\ RecordedInv'
  BY NextType, NextRecorded
<1>3. TypeInv /\ RecordedInv => EveryViolationRecorded
  <2>. SUFFICES ASSUME TypeInv, RecordedInv, NEW l \in Links
                PROVE  Violations(l) <= events[l]
    BY DEF EveryViolationRecorded, Violations
  <2>1. Violations(l) \in Nat /\ Pending(l) \in Nat /\ events[l] \in Nat
    BY Numbers
  <2>2. Violations(l) + Pending(l) <= events[l]
    BY DEF RecordedInv
  <2>. QED  BY <2>1, <2>2
<1>. QED  BY <1>1, <1>2, <1>3, PTL DEF Spec


-----------------------------------------------------------------------------
(* How far the traffic of a link can pass its limit, while Redis keeps its *)
(* data.                                                                   *)

Bytes(l) == IntOrZero(redis[l]["bytes"])

\* Requests on l that were let through and whose response is not counted yet.
InTransit == {"proxy", "incrRequests", "incrBytes"}
Transit(l) == Cardinality(At(l, InTransit, pc, on))

\* Every request let through may still add a response, and it was let through
\* below the limit.
TrafficInv ==
    \A l \in Links : Policy[l].maxBytes # Nil =>
        Bytes(l) + Transit(l) * MaxResponse
            <= Below(Policy[l].maxBytes) + Cardinality(Requests) * MaxResponse

\* No step adds traffic but those that let a request through below the limit,
\* and those that count one response and are done with it.
SameBytes == \A l \in Links : Bytes(l)' = Bytes(l)

TrafficStep ==
    \A l \in Links :
        \/ Bytes(l)' = Bytes(l) /\ Transit(l)' <= Transit(l)
        \/ Bytes(l)' = Bytes(l) /\ ~Reached(Policy[l].maxBytes, Bytes(l))
        \/ Bytes(l)' <= Bytes(l) + MaxResponse /\ Transit(l)' + 1 = Transit(l)

LEMMA TrafficNumbers ==
    ASSUME TypeInv, NEW l \in Links
    PROVE  Bytes(l) \in Nat /\ Transit(l) \in Nat /\ Transit(l) <= Cardinality(Requests)
<1>1. redis[l] \in Keys
  BY DEF TypeInv, TypeOK
<1>2. Bytes(l) \in Nat
  BY <1>1 DEF Bytes, Keys, Fields, IntOrZero, Nil
<1>. QED  BY <1>2, AtCounted DEF Transit

LEMMA NobodyLetThrough ==
    ASSUME SameBytes,
           \A q \in Requests : pc'[q] \in InTransit => pc[q] \in InTransit /\ on'[q] = on[q]
    PROVE  TrafficStep
<1>1. \A l : Transit(l)' <= Transit(l)
  BY AtKept DEF Transit, InTransit
<1>. QED  BY <1>1 DEF TrafficStep, SameBytes

\* One response is counted, or its count is lost.
LEMMA ResponseCounted ==
    ASSUME TypeInv, NEW r \in Requests, NEW n \in ResponseBytes, pc[r] = "incrBytes",
           Goto(r, "recheck"), UNCHANGED on, IncrPrefix(on[r], "bytes", n)
    PROVE  TrafficStep
<1>0. on[r] \in Links /\ redis \in [Links -> Keys] /\ n \in Nat /\ n <= MaxResponse
      /\ MaxResponse \in Nat
  BY ConstantsAssumption DEF TypeInv, TypeOK, Procs, ResponseBytes
<1>1. PICK k \in Links : on[r] = k
  BY <1>0
<1>2. redis' = redis \/ redis' = [redis EXCEPT ![k] = IncrBy(@, "bytes", n)]
  BY <1>1 DEF IncrPrefix, IncrAndMarkDirty
<1>3. \A l \in Links \ {k} : Bytes(l)' = Bytes(l)
  BY <1>0, <1>2 DEF Bytes
<1>4. Bytes(k)' = Bytes(k) \/ Bytes(k)' = Bytes(k) + n
  <2>1. redis[k] \in Keys
    BY <1>0
  <2>2. IntOrZero(IncrBy(redis[k], "bytes", n)["bytes"]) = IntOrZero(redis[k]["bytes"]) + n
    BY <1>0, <2>1 DEF Keys, Fields, IncrBy, IntOrZero, Nil
  <2>. QED  BY <1>0, <1>2, <2>2 DEF Bytes
<1>5. Bytes(k)' <= Bytes(k) + MaxResponse
  BY <1>0, <1>4, TrafficNumbers
<1>6. pc[r] \in InTransit /\ "recheck" \notin InTransit /\ Moves(r, "recheck")
  BY DEF InTransit, Moves
<1>7. Cardinality(At(k, InTransit, pc', on')) + 1 = Cardinality(At(k, InTransit, pc, on))
  BY <1>1, <1>6, AtChanged
<1>8. \A l : l # k => At(l, InTransit, pc', on') = At(l, InTransit, pc, on)
  BY <1>1, <1>6, AtChanged
<1>9. /\ Transit(k)' + 1 = Transit(k)
      /\ \A l : l # k => Transit(l)' = Transit(l)
  BY <1>7, <1>8 DEF Transit, InTransit
<1>. QED  BY <1>3, <1>5, <1>9, TrafficNumbers DEF TrafficStep

\* BeforeProxy lets a request through only below the limit.
LEMMA CheckTraffic ==
    ASSUME TypeInv, NEW r \in Requests, CheckLimits(r)
    PROVE  TrafficStep
<1>0. PICK k \in Links : on[r] = k
  BY DEF TypeInv, TypeOK, Procs
<1>1. /\ pc[r] = "check" /\ UNCHANGED <<on, redis>> /\ pc \in [Procs -> RequestPCs]
      /\ Requests \subseteq Procs /\ redis[k] \in Keys
      /\ pc' = [pc EXCEPT ![r] = IF BeforeReason(k, GetCounters(redis[k])) # NoReason
                                 THEN "termCheck" ELSE "proxy"]
  BY <1>0 DEF TypeInv, TypeOK, Procs, CheckLimits, TerminateOr, Goto, storeVars
<1>2. SameBytes
  BY <1>1 DEF SameBytes, Bytes
<1>3. CASE BeforeReason(k, GetCounters(redis[k])) # NoReason
  BY <1>1, <1>2, <1>3, NobodyLetThrough DEF InTransit
<1>4. CASE BeforeReason(k, GetCounters(redis[k])) = NoReason
  <2>1. ~Reached(Policy[k].maxBytes, GetCounters(redis[k])["bytes"])
    BY <1>4 DEF BeforeReason, LimitReason, NoReason
  <2>2. GetCounters(redis[k])["bytes"] = Bytes(k)
    BY DEF GetCounters, Fields, Bytes
  <2>3. Moves(r, "proxy")
    BY <1>1, <1>4 DEF Moves, Goto
  <2>4. \A l : l # k => At(l, InTransit, pc', on') = At(l, InTransit, pc, on)
    BY <1>0, <2>3, AtChanged
  <2>5. \A l : l # k => Transit(l)' = Transit(l)
    BY <2>4 DEF Transit, InTransit
  <2>. QED  BY <1>2, <2>1, <2>2, <2>5, TrafficNumbers DEF TrafficStep, SameBytes
<1>. QED  BY <1>3, <1>4


LEMMA TrafficSteps ==
    ASSUME TypeInv, UsageInv, [Next]_vars, "redis" \notin Faults
    PROVE  TrafficStep
<1>0. /\ pc \in [Procs -> RequestPCs] /\ Requests \subseteq Procs /\ Owners \subseteq Procs
      /\ on \in [Procs -> Links] /\ Requests \cap Owners = {}
      /\ redis \in [Links -> Keys] /\ {"requests", "bytes", "violations"} = Fields
  BY ConstantsAssumption DEF TypeInv, TypeOK, Procs, Fields
<1>1. ASSUME redis' = redis PROVE SameBytes
  BY <1>1 DEF SameBytes, Bytes
\* A step of a process that was let through before, or is not let through now.
<1>2. ASSUME NEW p \in Procs, NEW where, Goto(p, where), SameBytes,
             \A q \in Procs \ {p} : on'[q] = on[q],
             where \notin InTransit \/ (pc[p] \in InTransit /\ UNCHANGED on)
      PROVE  TrafficStep
  <2>1. \A q \in Requests : pc'[q] \in InTransit => pc[q] \in InTransit /\ on'[q] = on[q]
    BY <1>0, <1>2 DEF Goto
  <2>. QED  BY <1>2, <2>1, NobodyLetThrough
<1>3. ASSUME UNCHANGED <<pc, on, redis>> PROVE TrafficStep
  BY <1>1, <1>3, NobodyLetThrough
\* Counting something else.
<1>4. ASSUME NEW r \in Requests, NEW f \in {"requests", "violations"}, NEW n,
             IncrPrefix(on[r], f, n)
      PROVE  SameBytes
  <2>1. f \in Fields /\ f # "bytes" /\ "bytes" \in Fields /\ on[r] \in Links
    BY <1>0, <1>4
  <2>2. IncrBy(redis[on[r]], f, n)["bytes"] = redis[on[r]]["bytes"]
    BY <1>0, <2>1, IncrOther
  <2>3. redis' = redis \/ redis' = [redis EXCEPT ![on[r]] = IncrBy(@, f, n)]
    BY <1>4 DEF IncrPrefix, IncrAndMarkDirty
  <2>. QED  BY <1>0, <2>1, <2>2, <2>3 DEF SameBytes, Bytes
<1>5. ASSUME NEW r \in Requests, NEW done, pc[r] = "warm", Warmed(on[r], r, done)
      PROVE  SameBytes
  <2>1. "bytes" \in Fields
    BY <1>0
  <2>. QED  BY <1>5, <2>1, WarmedKeeps DEF SameBytes, Bytes
<1>6. ASSUME NEW r \in Requests, NEW l \in Links, Lookup(r, l) \/ LookupRefused(r, l)
      PROVE  TrafficStep
  <2>1. CASE Lookup(r, l)
    <3>1. /\ Goto(r, "seed") /\ redis' = redis /\ \A q \in Procs \ {r} : on'[q] = on[q]
          /\ "seed" \notin InTransit
      BY <1>0, <2>1 DEF Lookup, storeVars, InTransit
    <3>. QED  BY <1>0, <1>1, <1>2, <3>1
  <2>2. CASE LookupRefused(r, l)
    BY <1>3, <2>2 DEF LookupRefused, vars
  <2>. QED  BY <1>6, <2>1, <2>2
<1>7. ASSUME NEW r \in Requests, HandlerStep(r) PROVE TrafficStep
  <2>1. CASE CheckLimits(r)
    BY <2>1, CheckTraffic
  <2>2. ASSUME NEW n \in ResponseBytes, CountBytes(r, n) PROVE TrafficStep
    BY <2>2, ResponseCounted DEF CountBytes, IncrPrefix
  <2>3. CASE \/ ReadUsage(r) \/ BlacklistHit(r) \/ BlacklistMiss(r) \/ RecordEvent(r)
             \/ Recheck(r)
    <3>1. UNCHANGED <<on, redis>>
      BY <2>3 DEF ReadUsage, BlacklistHit, BlacklistMiss, RecordEvent, Recheck, storeVars
    <3>2. PICK where : Goto(r, where) /\ where \notin InTransit
      BY <2>3 DEF ReadUsage, BlacklistHit, BlacklistMiss, RecordEvent, Recheck,
                  TerminateOr, InTransit
    <3>. QED  BY <1>0, <1>1, <1>2, <3>1, <3>2
  <2>4. CASE SeedRedis(r)
    <3>1. /\ pc[r] = "warm" /\ Warmed(on[r], r, Fields) /\ UNCHANGED on
          /\ Goto(r, "resolve") /\ "resolve" \notin InTransit
      BY <2>4 DEF SeedRedis, Warmed, InTransit
    <3>. QED  BY <1>0, <1>2, <1>5, <3>1
  <2>5. CASE CountViolation(r)
    <3>1. UNCHANGED on /\ IncrPrefix(on[r], "violations", 1)
      BY <2>5 DEF CountViolation, IncrPrefix
    <3>2. Goto(r, "termCheck") \/ Goto(r, "idle")
      BY <2>5 DEF CountViolation, AfterViolation, TerminateOr
    <3>3. "termCheck" \notin InTransit /\ "idle" \notin InTransit
      BY DEF InTransit
    <3>. QED  BY <1>0, <1>2, <1>4, <3>1, <3>2, <3>3
  <2>6. CASE Forward(r)
    <3>1. UNCHANGED <<on, redis>> /\ Goto(r, "incrRequests") /\ pc[r] \in InTransit
      BY <2>6 DEF Forward, storeVars, InTransit
    <3>. QED  BY <1>0, <1>1, <1>2, <3>1
  <2>7. CASE CountRequest(r)
    <3>1. /\ UNCHANGED on /\ IncrPrefix(on[r], "requests", 1)
          /\ Goto(r, "incrBytes") /\ pc[r] \in InTransit
      BY <2>7 DEF CountRequest, IncrPrefix, InTransit
    <3>. QED  BY <1>0, <1>2, <1>4, <3>1
  <2>. QED  BY <1>7, <2>1, <2>2, <2>3, <2>4, <2>5, <2>6, <2>7 DEF HandlerStep
<1>8. ASSUME NEW o \in Owners, NEW l \in Links, OwnerTerminates(o, l) PROVE TrafficStep
  <2>1. /\ Goto(o, "termCheck") /\ redis' = redis /\ \A q \in Procs \ {o} : on'[q] = on[q]
        /\ "termCheck" \notin InTransit
    BY <1>0, <1>8 DEF OwnerTerminates, storeVars, InTransit
  <2>. QED  BY <1>0, <1>1, <1>2, <2>1
<1>9. ASSUME NEW p \in Procs, TerminateStep(p) PROVE TrafficStep
  <2>1. UNCHANGED <<on, redis>>
    BY <1>9 DEF TerminateStep, TermCheck, TermUpdate, TermRecord, storeVars
  <2>2. PICK where : Goto(p, where) /\ where \notin InTransit
    BY <1>9 DEF TerminateStep, TermCheck, TermUpdate, TermRecord, Return, InTransit
  <2>. QED  BY <1>1, <1>2, <2>1, <2>2
<1>10. CASE SyncStep
  BY <1>3, <1>10 DEF SyncStep, SyncTick, SyncRead, SyncUpsert, SyncClear, storeVars
<1>11. ASSUME NEW l \in Links, NEW d \in Deadlines, DeadlinePasses(l, d) PROVE TrafficStep
  BY <1>3, <1>11 DEF DeadlinePasses, storeVars
<1>12. CASE Fault
  <2>1. ASSUME NEW r \in Requests, NEW done \in WarmPrefixes, FailSeed(r, done)
        PROVE  TrafficStep
    <3>1. /\ pc[r] = "warm" /\ Warmed(on[r], r, done) /\ UNCHANGED on
          /\ Goto(r, "idle") /\ "idle" \notin InTransit
      BY <2>1 DEF FailSeed, Warmed, Return, InTransit
    <3>. QED  BY <1>0, <1>2, <1>5, <3>1
  <2>2. ASSUME NEW r \in Requests, FailEvent(r) \/ Abort(r) PROVE TrafficStep
    <3>1. UNCHANGED <<on, redis>>
      BY <2>2 DEF FailEvent, Abort, storeVars
    <3>2. PICK where : Goto(r, where) /\ where \notin InTransit
      BY <2>2 DEF FailEvent, Abort, Return, InTransit
    <3>. QED  BY <1>0, <1>1, <1>2, <3>1, <3>2
  <2>3. ASSUME NEW r \in Requests, FailCountRequest(r) PROVE TrafficStep
    <3>1. /\ UNCHANGED on /\ IncrPrefix(on[r], "requests", 1)
          /\ Goto(r, "incrBytes") /\ pc[r] \in InTransit
      BY <2>3 DEF FailCountRequest, InTransit
    <3>. QED  BY <1>0, <1>2, <1>4, <3>1
  <2>4. ASSUME NEW r \in Requests, FailCountViolation(r) PROVE TrafficStep
    <3>1. UNCHANGED on /\ IncrPrefix(on[r], "violations", 1)
      BY <2>4 DEF FailCountViolation
    <3>2. Goto(r, "termCheck") \/ Goto(r, "idle")
      BY <2>4 DEF FailCountViolation, AfterViolation, TerminateOr
    <3>3. "termCheck" \notin InTransit /\ "idle" \notin InTransit
      BY DEF InTransit
    <3>. QED  BY <1>0, <1>2, <1>4, <3>1, <3>2, <3>3
  <2>5. ASSUME NEW r \in Requests, NEW n \in ResponseBytes, FailCountBytes(r, n)
        PROVE  TrafficStep
    BY <2>5, ResponseCounted DEF FailCountBytes
  <2>6. ASSUME NEW p \in Procs, FailRead(p) \/ FailUpdate(p) \/ FailRecord(p)
        PROVE  TrafficStep
    <3>1. UNCHANGED <<on, redis>> /\ Goto(p, "idle") /\ "idle" \notin InTransit
      BY <2>6 DEF FailRead, FailUpdate, FailRecord, Return, storeVars, InTransit
    <3>. QED  BY <1>1, <1>2, <3>1
  <2>7. CASE FailSync
    BY <1>3, <2>7 DEF FailSync
  <2>8. CASE Crash
    <3>1. UNCHANGED redis /\ \A q \in Requests : pc'[q] = "idle"
      BY <1>0, <2>8 DEF Crash, storeVars
    <3>. QED  BY <1>1, <3>1, NobodyLetThrough DEF InTransit
  <2>. QED  BY <1>12, <2>1, <2>2, <2>3, <2>4, <2>5, <2>6, <2>7, <2>8
            DEF Fault, RedisRestart
<1>13. CASE UNCHANGED vars
  BY <1>3, <1>13 DEF vars
<1>. QED  BY <1>6, <1>7, <1>8, <1>9, <1>10, <1>11, <1>12, <1>13 DEF Next

LEMMA BelowLimit ==
    ASSUME NEW limit \in Limits, limit # Nil
    PROVE  /\ Below(limit) \in Nat
           /\ \A v \in Nat : ~Reached(limit, v) => v <= Below(limit)
    BY DEF Limits, Nil, Below, Reached

LEMMA Times ==
    ASSUME NEW a \in Nat, NEW b \in Nat, NEW m \in Nat
    PROVE  /\ a * m \in Nat /\ (a + 1) * m = a * m + m
           /\ a <= b => a * m <= b * m
<1>1. a * m \in Nat /\ (a + 1) * m = a * m + m
  BY SMT
<1>2. ASSUME a <= b PROVE a * m <= b * m
  <2>1. PICK d \in Nat : b = a + d
    <3>1. b - a \in Nat /\ b = a + (b - a)
      BY <1>2
    <3>. QED  BY <3>1
  <2>2. d * m \in Nat /\ a * m \in Nat
    BY SMT
  <2>3. b * m = a * m + d * m
    BY <2>1, SMT
  <2>. QED  BY <2>2, <2>3
<1>. QED  BY <1>1, <1>2

LEMMA NextTraffic ==
    ASSUME TypeInv, TypeInv', UsageInv, TrafficInv, [Next]_vars, "redis" \notin Faults
    PROVE  TrafficInv'
<1> DEFINE N == Cardinality(Requests)
           M == MaxResponse
<1>. SUFFICES ASSUME NEW l \in Links, Policy[l].maxBytes # Nil
              PROVE  Bytes(l)' + Transit(l)' * M <= Below(Policy[l].maxBytes) + N * M
  BY DEF TrafficInv
<1>0. M \in Nat /\ N \in Nat /\ Policy[l].maxBytes \in Limits
  BY ConstantsAssumption, AtCounted DEF Policies
<1>1. PICK b \in Nat : b = Below(Policy[l].maxBytes)
  BY <1>0, BelowLimit
<1>2. PICK v \in Nat, t \in Nat : v = Bytes(l) /\ t = Transit(l)
  BY TrafficNumbers
<1>3. PICK w \in Nat, u \in Nat : w = Bytes(l)' /\ u = Transit(l)' /\ u <= N
  <2>1. redis'[l] \in Keys
    BY DEF TypeInv, TypeOK
  <2>2. Bytes(l)' \in Nat
    BY <2>1 DEF Bytes, Keys, Fields, IntOrZero, Nil
  <2>3. Transit(l)' \in Nat /\ Transit(l)' <= N
    BY AtCounted DEF Transit, InTransit
  <2>. QED  BY <2>2, <2>3
<1>4. v + t * M <= b + N * M
  BY <1>1, <1>2 DEF TrafficInv
<1>5. \/ w = v /\ u <= t
      \/ w = v /\ v <= b
      \/ w <= v + M /\ u + 1 = t
  <2>1. ~Reached(Policy[l].maxBytes, v) => v <= b
    BY <1>0, <1>1, BelowLimit
  <2>. QED  BY <1>2, <1>3, <2>1, TrafficSteps DEF TrafficStep
<1> HIDE DEF N, M
<1>6. /\ t * M \in Nat /\ u * M \in Nat /\ N * M \in Nat /\ u * M <= N * M
      /\ (u + 1) * M = u * M + M /\ (u <= t => u * M <= t * M)
  BY <1>0, <1>3, Times
<1>7. w + u * M <= b + N * M
  <2> DEFINE tm == t * M
             um == u * M
             nm == N * M
  <2>1. tm \in Nat /\ um \in Nat /\ nm \in Nat /\ um <= nm /\ v + tm <= b + nm
    BY <1>4, <1>6
  <2>2. \/ w = v /\ um <= tm
        \/ w = v /\ v <= b
        \/ w <= v + M /\ tm = um + M
    BY <1>5, <1>6
  <2> HIDE DEF tm, um, nm
  <2>3. w + um <= b + nm
    BY <1>0, <2>1, <2>2
  <2>. QED  BY <2>3 DEF um, nm
<1>. QED  BY <1>1, <1>3, <1>7


LEMMA InitTraffic == Init => TrafficInv
<1>. SUFFICES ASSUME Init, NEW l \in Links, Policy[l].maxBytes # Nil
              PROVE  Bytes(l) + Transit(l) * MaxResponse
                        <= Below(Policy[l].maxBytes) + Cardinality(Requests) * MaxResponse
  BY DEF TrafficInv
<1>1. Bytes(l) = 0
  BY DEF Init, Bytes, NoKeys, IntOrZero, Nil, Fields
<1>2. Transit(l) = 0
  <2>1. At(l, InTransit, pc, on) = {}
    BY DEF Init, At, InTransit, Procs
  <2>. QED  BY <2>1, FS_EmptySet DEF Transit
<1>3. Below(Policy[l].maxBytes) \in Nat
  BY BelowLimit, ConstantsAssumption DEF Policies
<1>4. PICK n \in Nat : n = Cardinality(Requests) * MaxResponse
  BY AtCounted, ConstantsAssumption, Times
<1>5. 0 * MaxResponse = 0
  BY ConstantsAssumption
<1>. QED  BY <1>1, <1>2, <1>3, <1>4, <1>5

\* While Redis keeps its data, and whatever else fails: the counted traffic
\* passes max_bytes_transferred by at most one response per request that can
\* run at the same time (BeforeProxy checks, AfterProxy counts).
THEOREM TrafficTheorem ==
    ASSUME "redis" \notin Faults
    PROVE  Spec => []TrafficOverrun
<1>1. Init => TypeInv /\ UsageInv /\ TrafficInv
  BY InitType, InitUsage, InitTraffic
<1>2. TypeInv /\ UsageInv /\ TrafficInv /\ [Next]_vars
         => TypeInv' /\ UsageInv' /\ TrafficInv'
  BY NextType, NextUsage, NextTraffic
<1>3. TypeInv /\ TrafficInv => TrafficOverrun
  <2>. SUFFICES ASSUME TypeInv, TrafficInv, NEW l \in Links, Policy[l].maxBytes # Nil
                PROVE  Bytes(l) <=
                          Below(Policy[l].maxBytes) + Cardinality(Requests) * MaxResponse
    BY DEF TrafficOverrun, Bytes
  <2>1. Bytes(l) \in Nat /\ Below(Policy[l].maxBytes) \in Nat
    BY TrafficNumbers, BelowLimit, ConstantsAssumption DEF Policies
  <2>2. PICK m \in Nat : m = Transit(l) * MaxResponse
    BY TrafficNumbers, ConstantsAssumption, Times
  <2>3. PICK n \in Nat : n = Cardinality(Requests) * MaxResponse
    BY AtCounted, ConstantsAssumption, Times
  <2>4. Bytes(l) + m <= Below(Policy[l].maxBytes) + n
    BY <2>2, <2>3 DEF TrafficInv
  <2>. QED  BY <2>1, <2>2, <2>3, <2>4
<1>. QED  BY <1>1, <1>2, <1>3, PTL DEF Spec

-----------------------------------------------------------------------------
(* How far the violations on a link can pass their limit, when no call     *)
(* fails, the process does not die and Redis keeps its data.               *)

\* Requests on l that close it, and requests that may still count a match.
ToClose == {"termCheck", "termUpdate"}
ToCount == {"seed", "warm", "resolve", "event", "incrViolations"}
Closing(l) == Cardinality(At(l, ToClose, pc, on))
Coming(l) == Cardinality(At(l, ToCount, pc, on))

\* While the link is active, whoever counted past the limit is closing it;
\* once it is closed, only those who came before can still count.
ViolationInv ==
    \A l \in Links :
        IF status[l] = "active"
        THEN Violations(l) <= Below(Policy[l].maxViolations) + Closing(l)
        ELSE Violations(l) + Coming(l)
                <= Below(Policy[l].maxViolations) + Cardinality(Requests)

SameViolations == \A l \in Links : Violations(l)' = Violations(l)

\* What a step may do on an active link, on a closed one, and in closing it.
ActiveStep(l) ==
    \/ Violations(l)' = Violations(l) /\ Closing(l) <= Closing(l)'
    \/ Violations(l)' <= Below(Policy[l].maxViolations)
    \/ Violations(l)' = Violations(l) + 1 /\ Closing(l)' = Closing(l) + 1

ClosedStep(l) ==
    \/ Violations(l)' = Violations(l) /\ Coming(l)' <= Coming(l)
    \/ Violations(l)' = Violations(l) + 1 /\ Coming(l)' + 1 = Coming(l)

ViolationStep ==
    \A l \in Links :
        \/ status[l] = "active" /\ status'[l] = "active" /\ ActiveStep(l)
        \/ status[l] = "terminated" /\ status'[l] = "terminated" /\ ClosedStep(l)
        \/ /\ status[l] = "active" /\ status'[l] = "terminated"
           /\ Violations(l)' = Violations(l) /\ Coming(l)' <= Coming(l)

\* Nobody is at two places.
LEMMA AtDisjoint ==
    ASSUME NEW l
    PROVE  Closing(l) + Coming(l) <= Cardinality(Requests)
<1> DEFINE S == At(l, ToClose, pc, on)
           T == At(l, ToCount, pc, on)
<1>1. /\ IsFiniteSet(S) /\ IsFiniteSet(T) /\ Cardinality(S) \in Nat /\ Cardinality(T) \in Nat
      /\ IsFiniteSet(Requests)
  BY AtCounted, ConstantsAssumption
<1>2. S \cap T = {} /\ S \cup T \in SUBSET Requests
  BY DEF At, ToClose, ToCount
<1>. SUFFICES Cardinality(S) + Cardinality(T) <= Cardinality(Requests)
  BY DEF Closing, Coming
<1> HIDE DEF S, T
<1>3. Cardinality(S \cup T) = Cardinality(S) + Cardinality(T)
  <2>1. Cardinality(S \cup T)
           = Cardinality(S) + Cardinality(T) - Cardinality(S \cap T)
    BY <1>1, FS_Union
  <2>2. Cardinality(S \cap T) = 0
    BY <1>2, FS_EmptySet
  <2>. QED  BY <1>1, <2>1, <2>2
<1>4. Cardinality(S \cup T) <= Cardinality(Requests)
  BY <1>1, <1>2, FS_Subset
<1>. QED  BY <1>3, <1>4

LEMMA ViolationNumbers ==
    ASSUME TypeInv, NEW l \in Links
    PROVE  /\ Violations(l) \in Nat /\ Closing(l) \in Nat /\ Coming(l) \in Nat
           /\ Below(Policy[l].maxViolations) \in Nat
           /\ status[l] \in {"active", "terminated"}
<1>1. Policy[l].maxViolations \in Nat
  BY ConstantsAssumption DEF Policies
<1>2. Below(Policy[l].maxViolations) \in Nat
  BY <1>1 DEF Below
<1>3. status[l] \in {"active", "terminated"}
  BY DEF TypeInv, TypeOK
<1>. QED  BY <1>2, <1>3, Numbers, AtCounted DEF Closing, Coming

\* A step that keeps the counters and the status: nobody gives up closing an
\* active link, nobody comes to a closed one.
LEMMA NoViolation ==
    ASSUME TypeInv, SameViolations, status' = status,
           \A q \in Requests : pc[q] \in ToClose /\ status[on[q]] = "active" =>
               pc'[q] \in ToClose /\ on'[q] = on[q],
           \A q \in Requests : pc'[q] \in ToCount /\ status[on'[q]] = "terminated" =>
               pc[q] \in ToCount /\ on'[q] = on[q]
    PROVE  ViolationStep
<1>. SUFFICES ASSUME NEW l \in Links
              PROVE  \/ status[l] = "active" /\ Closing(l) <= Closing(l)'
                     \/ status[l] = "terminated" /\ Coming(l)' <= Coming(l)
  BY DEF ViolationStep, SameViolations, ActiveStep, ClosedStep
<1>1. CASE status[l] = "active"
  <2> DEFINE S == At(l, ToClose, pc, on)
             T == At(l, ToClose, pc', on')
  <2>1. IsFiniteSet(T)
    BY AtCounted
  <2>2. S \in SUBSET T
    BY <1>1 DEF At
  <2>3. Cardinality(S) <= Cardinality(T)
    <3> HIDE DEF S, T
    <3>. QED  BY <2>1, <2>2, FS_Subset
  <2>. QED  BY <1>1, <2>3 DEF Closing, ToClose
<1>2. CASE status[l] = "terminated"
  <2> DEFINE S == At(l, ToCount, pc, on)
             T == At(l, ToCount, pc', on')
  <2>1. IsFiniteSet(S)
    BY AtCounted
  <2>2. T \in SUBSET S
    BY <1>2 DEF At
  <2>3. Cardinality(T) <= Cardinality(S)
    <3> HIDE DEF S, T
    <3>. QED  BY <2>1, <2>2, FS_Subset
  <2>. QED  BY <1>2, <2>3 DEF Coming, ToCount
<1>. QED  BY <1>1, <1>2, ViolationNumbers


\* recordViolation counts, and whoever reaches the limit goes on to close.
LEMMA CountedViolation ==
    ASSUME TypeInv, NEW r \in Requests, CountViolation(r)
    PROVE  ViolationStep
<1>0. PICK k \in Links : on[r] = k
  BY DEF TypeInv, TypeOK, Procs
<1>1. /\ redis' = [redis EXCEPT ![k] = IncrBy(@, "violations", 1)]
      /\ UNCHANGED <<on, status>> /\ pc[r] = "incrViolations"
      /\ redis \in [Links -> Keys]
  BY <1>0 DEF CountViolation, IncrAndMarkDirty, TypeInv, TypeOK
<1>2. Violations(k)' = Violations(k) + 1
  BY <1>0, <1>1, ViolationCounted DEF Violations
<1>3. \A l \in Links \ {k} : Violations(l)' = Violations(l)
  BY <1>1 DEF Violations
<1>4. PICK where \in {"termCheck", "idle"} :
         /\ Goto(r, where)
         /\ where = "idle" => ~(Violations(k) + 1 >= Policy[k].maxViolations)
  <2>1. pc' = [pc EXCEPT ![r] = IF (IF Violations(k) + 1 >= Policy[k].maxViolations
                                    THEN "violation_limit" ELSE NoReason) # NoReason
                                THEN "termCheck" ELSE "idle"]
    BY <1>0 DEF CountViolation, AfterViolation, TerminateOr, Goto, Violations
  <2>2. CASE Violations(k) + 1 >= Policy[k].maxViolations
    BY <2>1, <2>2 DEF NoReason, Goto
  <2>3. CASE ~(Violations(k) + 1 >= Policy[k].maxViolations)
    BY <2>1, <2>3 DEF NoReason, Goto
  <2>. QED  BY <2>2, <2>3
<1>5. Moves(r, where)
  BY <1>1, <1>4 DEF Moves
<1>6. \A l : l # k => Closing(l)' = Closing(l) /\ Coming(l)' = Coming(l)
  <2>1. \A l : l # k => At(l, ToClose, pc', on') = At(l, ToClose, pc, on)
    BY <1>0, <1>5, AtChanged
  <2>2. \A l : l # k => At(l, ToCount, pc', on') = At(l, ToCount, pc, on)
    BY <1>0, <1>5, AtChanged
  <2>. QED  BY <2>1, <2>2 DEF Closing, Coming, ToClose, ToCount
<1>7. Coming(k)' + 1 = Coming(k)
  <2>1. pc[r] \in ToCount /\ where \notin ToCount
    BY <1>1, <1>4 DEF ToCount
  <2>2. Cardinality(At(k, ToCount, pc', on')) + 1 = Cardinality(At(k, ToCount, pc, on))
    BY <1>0, <1>5, <2>1, AtChanged
  <2>. QED  BY <2>2 DEF Coming, ToCount
<1>8. where = "termCheck" => Closing(k)' = Closing(k) + 1
  <2>. SUFFICES ASSUME where = "termCheck" PROVE Closing(k)' = Closing(k) + 1
    OBVIOUS
  <2>1. pc[r] \notin ToClose /\ where \in ToClose
    BY <1>1 DEF ToClose
  <2>2. Cardinality(At(k, ToClose, pc', on')) = Cardinality(At(k, ToClose, pc, on)) + 1
    BY <1>0, <1>5, <2>1, AtChanged
  <2>. QED  BY <2>2 DEF Closing, ToClose
<1>9. where = "idle" => Violations(k)' <= Below(Policy[k].maxViolations)
  <2>1. Policy[k].maxViolations \in Nat
    BY ConstantsAssumption DEF Policies
  <2>. QED  BY <1>2, <1>4, <2>1, Numbers DEF Below
<1>10. ActiveStep(k) /\ ClosedStep(k)
  BY <1>2, <1>4, <1>7, <1>8, <1>9 DEF ActiveStep, ClosedStep
<1>11. \A l \in Links \ {k} : ActiveStep(l) /\ ClosedStep(l)
  BY <1>3, <1>6, ViolationNumbers DEF ActiveStep, ClosedStep
<1>. QED  BY <1>1, <1>10, <1>11, ViolationNumbers DEF ViolationStep

\* UpdateStatus closes the link.
LEMMA UpdatedStatus ==
    ASSUME TypeInv, NEW p \in Procs, TermUpdate(p)
    PROVE  ViolationStep
<1>0. PICK k \in Links : on[p] = k
  BY DEF TypeInv, TypeOK
<1>1. /\ status' = [status EXCEPT ![k] = "terminated"] /\ UNCHANGED <<on, redis>>
      /\ pc' = [pc EXCEPT ![p] = "termRecord"] /\ pc \in [Procs -> RequestPCs]
      /\ status \in [Links -> {"active", "terminated"}] /\ Requests \subseteq Procs
  BY <1>0 DEF TermUpdate, Goto, TypeInv, TypeOK, Procs
<1>2. \A l : Coming(l)' <= Coming(l)
  <2>1. \A q \in Requests : pc'[q] \in ToCount => pc[q] \in ToCount /\ on'[q] = on[q]
    BY <1>1 DEF ToCount
  <2>. QED  BY <2>1, AtKept DEF Coming, ToCount
<1>3. \A l : l # k => Closing(l)' = Closing(l)
  <2>1. \A l : l # k => At(l, ToClose, pc', on') = At(l, ToClose, pc, on)
    BY <1>0, <1>1 DEF At
  <2>. QED  BY <2>1 DEF Closing, ToClose
<1>4. \A l \in Links : Violations(l)' = Violations(l)
  BY <1>1 DEF Violations
<1>5. status'[k] = "terminated" /\ \A l \in Links \ {k} : status'[l] = status[l]
  BY <1>1
<1>6. ASSUME NEW l \in Links
      PROVE  ClosedStep(l) /\ (l # k => ActiveStep(l))
  BY <1>2, <1>3, <1>4, ViolationNumbers DEF ActiveStep, ClosedStep
<1>. QED  BY <1>2, <1>4, <1>5, <1>6, ViolationNumbers DEF ViolationStep

LEMMA ViolationSteps ==
    ASSUME TypeInv, UsageInv, [Next]_vars, "redis" \notin Faults, "io" \notin Faults,
           "crash" \notin Faults
    PROVE  ViolationStep
<1>0. /\ pc \in [Procs -> RequestPCs] /\ Requests \subseteq Procs /\ Owners \subseteq Procs
      /\ on \in [Procs -> Links] /\ Requests \cap Owners = {}
      /\ redis \in [Links -> Keys] /\ {"requests", "bytes", "violations"} = Fields
  BY ConstantsAssumption DEF TypeInv, TypeOK, Procs, Fields
<1>1. ASSUME redis' = redis PROVE SameViolations
  BY <1>1 DEF SameViolations, Violations
\* A step of one process; it does not give up closing an active link, and does
\* not come to a closed one.
<1>2. ASSUME NEW p \in Procs, NEW where, Goto(p, where), SameViolations, status' = status,
             \A q \in Procs \ {p} : on'[q] = on[q],
             \/ pc[p] \notin ToClose
             \/ status[on[p]] = "terminated"
             \/ where \in ToClose /\ UNCHANGED on,
             \/ where \notin ToCount
             \/ status[on'[p]] = "active"
             \/ pc[p] \in ToCount /\ UNCHANGED on
      PROVE  ViolationStep
  <2>1. pc'[p] = where /\ \A q \in Procs \ {p} : pc'[q] = pc[q]
    BY <1>0, <1>2 DEF Goto
  <2>2. \A q \in Requests : pc[q] \in ToClose /\ status[on[q]] = "active" =>
               pc'[q] \in ToClose /\ on'[q] = on[q]
    BY <1>0, <1>2, <2>1
  <2>3. \A q \in Requests : pc'[q] \in ToCount /\ status[on'[q]] = "terminated" =>
               pc[q] \in ToCount /\ on'[q] = on[q]
    BY <1>0, <1>2, <2>1
  <2>. QED  BY <1>2, <2>2, <2>3, NoViolation
<1>3. ASSUME UNCHANGED <<pc, on, redis, status>> PROVE ViolationStep
  BY <1>1, <1>3, NoViolation
<1>4. ASSUME NEW r \in Requests, NEW l \in Links, Lookup(r, l) \/ LookupRefused(r, l)
      PROVE  ViolationStep
  <2>1. CASE Lookup(r, l)
    <3>1. /\ Goto(r, "seed") /\ UNCHANGED <<redis, status>> /\ on'[r] = l
          /\ \A q \in Procs \ {r} : on'[q] = on[q]
          /\ status[l] = "active" /\ pc[r] \notin ToClose
      BY <1>0, <2>1 DEF Lookup, Usable, storeVars, ToClose
    <3>. QED  BY <1>0, <1>1, <1>2, <3>1
  <2>2. CASE LookupRefused(r, l)
    BY <1>3, <2>2 DEF LookupRefused, vars
  <2>. QED  BY <1>4, <2>1, <2>2
<1>5. ASSUME NEW r \in Requests, HandlerStep(r) PROVE ViolationStep
  <2>1. CASE CountViolation(r)
    BY <2>1, CountedViolation
  <2>2. ASSUME ~CountViolation(r)
        PROVE  /\ UNCHANGED <<on, status>> /\ pc[r] \notin ToClose
               /\ SameViolations
    <3>1. UNCHANGED <<on, status>> /\ pc[r] \notin ToClose
      BY <1>5, <2>2 DEF HandlerStep, ReadUsage, SeedRedis, BlacklistHit, BlacklistMiss,
            RecordEvent, CheckLimits, Forward, CountRequest, CountBytes, Recheck,
            storeVars, ToClose
    <3>2. CASE SeedRedis(r)
      <4>1. "violations" \in Fields
        BY <1>0
      <4>2. pc[r] = "warm" /\ Warmed(on[r], r, Fields)
        BY <3>2 DEF SeedRedis, Warmed
      <4>. QED  BY <3>1, <4>1, <4>2, WarmedKeeps DEF SameViolations, Violations
    <3>3. CASE CountRequest(r) \/ \E n \in ResponseBytes : CountBytes(r, n)
      <4>1. PICK g, n : /\ g \in {"requests", "bytes"}
                        /\ redis' = [redis EXCEPT ![on[r]] = IncrBy(@, g, n)]
        BY <3>3 DEF CountRequest, CountBytes, IncrAndMarkDirty
      <4>2. \A l \in Links : redis'[l]["violations"] = redis[l]["violations"]
        BY <1>0, <4>1, IncrOther
      <4>. QED  BY <3>1, <4>2 DEF SameViolations, Violations
    <3>4. CASE redis' = redis
      BY <1>1, <3>1, <3>4
    <3>. QED  BY <1>5, <2>2, <3>2, <3>3, <3>4
              DEF HandlerStep, ReadUsage, BlacklistHit, BlacklistMiss, RecordEvent,
                  CheckLimits, Forward, Recheck, storeVars
  <2>3. ASSUME ~CountViolation(r)
        PROVE  \E where : Goto(r, where) /\ (where \notin ToCount \/ pc[r] \in ToCount)
    BY <1>5, <2>3 DEF HandlerStep, ReadUsage, SeedRedis, BlacklistHit, BlacklistMiss,
            RecordEvent, CheckLimits, Forward, CountRequest, CountBytes, Recheck,
            TerminateOr, ToCount
  <2>. QED  BY <1>0, <1>2, <2>1, <2>2, <2>3
<1>6. ASSUME NEW o \in Owners, NEW l \in Links, OwnerTerminates(o, l) PROVE ViolationStep
  <2>1. /\ Goto(o, "termCheck") /\ UNCHANGED <<redis, status>> /\ pc[o] \notin ToClose
        /\ \A q \in Procs \ {o} : on'[q] = on[q]
    BY <1>0, <1>6 DEF OwnerTerminates, storeVars, ToClose
  <2>2. "termCheck" \notin ToCount
    BY DEF ToCount
  <2>. QED  BY <1>0, <1>1, <1>2, <2>1, <2>2
<1>7. ASSUME NEW p \in Procs, TerminateStep(p) PROVE ViolationStep
  <2>1. CASE TermUpdate(p)
    BY <2>1, UpdatedStatus
  <2>2. CASE TermCheck(p)
    <3>1. UNCHANGED <<on, redis, status>>
      BY <2>2 DEF TermCheck, storeVars
    <3>2. \/ status[on[p]] = "terminated" /\ Goto(p, "idle")
          \/ Goto(p, "termUpdate")
      BY <2>2 DEF TermCheck, Return
    <3>3. "termUpdate" \in ToClose /\ "termUpdate" \notin ToCount /\ "idle" \notin ToCount
      BY DEF ToClose, ToCount
    <3>. QED  BY <1>1, <1>2, <3>1, <3>2, <3>3
  <2>3. CASE TermRecord(p)
    <3>1. /\ UNCHANGED <<on, redis, status>> /\ Goto(p, "idle")
          /\ pc[p] \notin ToClose /\ "idle" \notin ToCount
      BY <2>3 DEF TermRecord, Return, ToClose, ToCount
    <3>. QED  BY <1>1, <1>2, <3>1
  <2>. QED  BY <1>7, <2>1, <2>2, <2>3 DEF TerminateStep
<1>8. CASE SyncStep
  BY <1>3, <1>8 DEF SyncStep, SyncTick, SyncRead, SyncUpsert, SyncClear, storeVars
<1>9. ASSUME NEW l \in Links, NEW d \in Deadlines, DeadlinePasses(l, d) PROVE ViolationStep
  BY <1>3, <1>9 DEF DeadlinePasses, storeVars
<1>10. CASE Fault
  <2>1. PICK r \in Requests : Abort(r)
    BY <1>10 DEF Fault, FailSeed, FailEvent, FailCountRequest, FailCountViolation,
                 FailCountBytes, FailRead, FailUpdate, FailRecord, FailSync, Crash,
                 RedisRestart
  <2>2. /\ UNCHANGED <<on, redis, status>> /\ Goto(r, "idle")
        /\ pc[r] \notin ToClose /\ "idle" \notin ToCount
    BY <2>1 DEF Abort, Return, storeVars, ToClose, ToCount
  <2>. QED  BY <1>0, <1>1, <1>2, <2>2
<1>11. CASE UNCHANGED vars
  BY <1>3, <1>11 DEF vars
<1>. QED  BY <1>4, <1>5, <1>6, <1>7, <1>8, <1>9, <1>10, <1>11 DEF Next


LEMMA InitViolation == Init => ViolationInv
<1>. SUFFICES ASSUME Init, NEW l \in Links
              PROVE  /\ status[l] = "active"
                     /\ Violations(l) <= Below(Policy[l].maxViolations) + Closing(l)
  BY DEF ViolationInv
<1>1. status[l] = "active" /\ Violations(l) = 0
  BY DEF Init, Violations, NoKeys, IntOrZero, Nil, Fields
<1>2. Below(Policy[l].maxViolations) \in Nat /\ Closing(l) \in Nat
  BY InitType, ViolationNumbers
<1>. QED  BY <1>1, <1>2

LEMMA NextViolation ==
    ASSUME TypeInv, TypeInv', UsageInv, ViolationInv, [Next]_vars,
           "redis" \notin Faults, "io" \notin Faults, "crash" \notin Faults
    PROVE  ViolationInv'
<1> DEFINE N == Cardinality(Requests)
<1>. SUFFICES ASSUME NEW l \in Links
              PROVE  IF status'[l] = "active"
                     THEN Violations(l)' <= Below(Policy[l].maxViolations) + Closing(l)'
                     ELSE Violations(l)' + Coming(l)' <= Below(Policy[l].maxViolations) + N
  BY DEF ViolationInv
<1>1. PICK b \in Nat : b = Below(Policy[l].maxViolations)
  BY ViolationNumbers
<1>2. PICK v \in Nat, c \in Nat, m \in Nat :
         v = Violations(l) /\ c = Closing(l) /\ m = Coming(l)
  BY ViolationNumbers
<1>3. PICK w \in Nat, d \in Nat, n \in Nat :
         w = Violations(l)' /\ d = Closing(l)' /\ n = Coming(l)'
  <2>1. redis'[l] \in Keys
    BY DEF TypeInv, TypeOK
  <2>2. Violations(l)' \in Nat
    BY <2>1, ViolationCounted DEF Violations
  <2>3. Closing(l)' \in Nat /\ Coming(l)' \in Nat
    BY AtCounted DEF Closing, Coming, ToClose, ToCount
  <2>. QED  BY <2>2, <2>3
<1>4. N \in Nat /\ c + m <= N
  BY <1>2, AtCounted, AtDisjoint
<1> HIDE DEF N
<1>5. CASE status[l] = "active" /\ status'[l] = "active" /\ ActiveStep(l)
  <2>1. v <= b + c
    BY <1>1, <1>2, <1>5 DEF ViolationInv
  <2>2. (w = v /\ c <= d) \/ w <= b \/ (w = v + 1 /\ d = c + 1)
    BY <1>1, <1>2, <1>3, <1>5 DEF ActiveStep
  <2>3. w <= b + d
    BY <2>1, <2>2
  <2>. QED  BY <1>1, <1>3, <1>5, <2>3
<1>6. CASE status[l] = "terminated" /\ status'[l] = "terminated" /\ ClosedStep(l)
  <2>1. v + m <= b + N
    BY <1>1, <1>2, <1>6 DEF ViolationInv, N
  <2>2. (w = v /\ n <= m) \/ (w = v + 1 /\ n + 1 = m)
    BY <1>2, <1>3, <1>6 DEF ClosedStep
  <2>3. w + n <= b + N
    BY <1>4, <2>1, <2>2
  <2>. QED  BY <1>1, <1>3, <1>6, <2>3
<1>7. CASE /\ status[l] = "active" /\ status'[l] = "terminated"
           /\ Violations(l)' = Violations(l) /\ Coming(l)' <= Coming(l)
  <2>1. v <= b + c
    BY <1>1, <1>2, <1>7 DEF ViolationInv
  <2>2. w = v /\ n <= m
    BY <1>2, <1>3, <1>7
  <2>3. w + n <= b + N
    BY <1>4, <2>1, <2>2
  <2>. QED  BY <1>1, <1>3, <1>7, <2>3
<1>. QED  BY <1>5, <1>6, <1>7, ViolationSteps DEF ViolationStep

\* When no call fails, the process does not die and Redis keeps its data, the
\* violation counter stays within the number of requests that can run at the
\* same time of max_violation_count, whatever guests and owners do
\* (recordViolation, AutoTerminate, inactiveReason).
THEOREM ViolationTheorem ==
    ASSUME "redis" \notin Faults, "io" \notin Faults, "crash" \notin Faults
    PROVE  Spec => []ViolationOverrun
<1>1. Init => TypeInv /\ UsageInv /\ ViolationInv
  BY InitType, InitUsage, InitViolation
<1>2. TypeInv /\ UsageInv /\ ViolationInv /\ [Next]_vars
         => TypeInv' /\ UsageInv' /\ ViolationInv'
  BY NextType, NextUsage, NextViolation
<1>3. TypeInv /\ ViolationInv => ViolationOverrun
  <2>. SUFFICES ASSUME TypeInv, ViolationInv, NEW l \in Links
                PROVE  Violations(l) <=
                          Below(Policy[l].maxViolations) + Cardinality(Requests)
    BY DEF ViolationOverrun, Violations
  <2>1. /\ Violations(l) \in Nat /\ Closing(l) \in Nat /\ Coming(l) \in Nat
        /\ Below(Policy[l].maxViolations) \in Nat
    BY ViolationNumbers
  <2>2. Cardinality(Requests) \in Nat /\ Closing(l) <= Cardinality(Requests)
    BY AtCounted DEF Closing
  <2>3. CASE status[l] = "active"
    <3>1. Violations(l) <= Below(Policy[l].maxViolations) + Closing(l)
      BY <2>3 DEF ViolationInv
    <3>. QED  BY <2>1, <2>2, <3>1
  <2>4. CASE status[l] # "active"
    <3>1. Violations(l) + Coming(l) <= Below(Policy[l].maxViolations) + Cardinality(Requests)
      BY <2>4 DEF ViolationInv
    <3>. QED  BY <2>1, <2>2, <3>1
  <2>. QED  BY <2>3, <2>4
<1>. QED  BY <1>1, <1>2, <1>3, PTL DEF Spec


=============================================================================

--------------------------- MODULE ShutdownProofs ---------------------------
(***************************************************************************)
(* Proofs about AccessLog and about Shutdown, which surrounds it with the  *)
(* servers and main: rows of the access log stay in order and none is lost *)
(* unnoticed, for any batch size, channel capacity and number of requests. *)
(***************************************************************************)
EXTENDS Shutdown, SequenceTheorems, TLAPS

-----------------------------------------------------------------------------
(* Sequences of row numbers.                                               *)

Increasing(s) == \A i, j \in DOMAIN s : i < j => s[i] < s[j]

Below(s, t) == \A i \in DOMAIN s, j \in DOMAIN t : s[i] < t[j]

UpTo(s, n) == \A i \in DOMAIN s : s[i] <= n

\* A concatenation is increasing when its parts are, one below the other.
LEMMA IncreasingConcat ==
    ASSUME NEW s \in Seq(Nat), NEW t \in Seq(Nat),
           Increasing(s), Increasing(t), Below(s, t)
    PROVE  Increasing(s \o t)
<1> SUFFICES ASSUME NEW i \in DOMAIN (s \o t), NEW j \in DOMAIN (s \o t), i < j
             PROVE  (s \o t)[i] < (s \o t)[j]
  BY DEF Increasing
<1>1. ASSUME NEW k \in DOMAIN (s \o t)
      PROVE  IF k <= Len(s) THEN k \in DOMAIN s /\ (s \o t)[k] = s[k]
             ELSE k - Len(s) \in DOMAIN t /\ (s \o t)[k] = t[k - Len(s)]
  OBVIOUS
<1>2. i \in Nat /\ j \in Nat /\ Len(s) \in Nat
  OBVIOUS
<1>3. CASE j <= Len(s)
  BY <1>1, <1>2, <1>3 DEF Increasing
<1>4. CASE i > Len(s)
  BY <1>1, <1>2, <1>4 DEF Increasing
<1>5. CASE i <= Len(s) /\ j > Len(s)
  BY <1>1, <1>2, <1>5 DEF Below
<1>. QED  BY <1>2, <1>3, <1>4, <1>5

LEMMA IncreasingAppend ==
    ASSUME NEW s \in Seq(Nat), NEW n \in Nat, Increasing(s),
           \A i \in DOMAIN s : s[i] < n
    PROVE  Increasing(Append(s, n))
BY DEF Increasing

LEMMA BelowConcat ==
    ASSUME NEW s \in Seq(Nat), NEW t \in Seq(Nat), NEW u \in Seq(Nat),
           Below(s, u), Below(t, u)
    PROVE  Below(s \o t, u)
BY DEF Below

LEMMA BelowAppend ==
    ASSUME NEW s \in Seq(Nat), NEW t \in Seq(Nat), NEW n \in Nat,
           Below(s, t), \A i \in DOMAIN s : s[i] < n
    PROVE  Below(s, Append(t, n))
BY DEF Below

LEMMA IncreasingTail ==
    ASSUME NEW s \in Seq(Nat), s # <<>>, Increasing(s)
    PROVE  Increasing(Tail(s)) /\ \A i \in DOMAIN Tail(s) : Head(s) < Tail(s)[i]
<1>1. /\ Head(s) = s[1] /\ 1 \in DOMAIN s
      /\ \A i \in DOMAIN Tail(s) : i \in Nat \ {0} /\ i + 1 \in DOMAIN s
                                   /\ Tail(s)[i] = s[i + 1]
  OBVIOUS
<1>. QED  BY <1>1 DEF Increasing

LEMMA AppendElements ==
    ASSUME NEW s \in Seq(Nat), NEW n \in Nat
    PROVE  \A i \in DOMAIN Append(s, n) :
               \/ Append(s, n)[i] = n
               \/ i \in DOMAIN s /\ Append(s, n)[i] = s[i]
OBVIOUS

\* The rows of the sequences that the steps build.
LEMMA RowsOfEmpty == RowsOf(<<>>) = {}
BY DEF RowsOf

LEMMA RowsOfAppend ==
    ASSUME NEW s \in Seq(Nat), NEW n \in Nat
    PROVE  RowsOf(Append(s, n)) = RowsOf(s) \cup {n}
<1>1. ASSUME NEW x \in RowsOf(Append(s, n)) PROVE x \in RowsOf(s) \cup {n}
  BY <1>1 DEF RowsOf
<1>2. ASSUME NEW x \in RowsOf(s) PROVE x \in RowsOf(Append(s, n))
  <2>1. PICK i \in DOMAIN s : x = s[i]
    BY <1>2 DEF RowsOf
  <2>2. i \in DOMAIN Append(s, n) /\ Append(s, n)[i] = x
    BY <2>1
  <2>. QED  BY <2>2 DEF RowsOf
<1>3. n \in RowsOf(Append(s, n))
  <2>1. Len(s) + 1 \in DOMAIN Append(s, n) /\ Append(s, n)[Len(s) + 1] = n
    OBVIOUS
  <2>. QED  BY <2>1 DEF RowsOf
<1>. QED  BY <1>1, <1>2, <1>3

LEMMA RowsOfConcat ==
    ASSUME NEW s \in Seq(Nat), NEW t \in Seq(Nat)
    PROVE  RowsOf(s \o t) = RowsOf(s) \cup RowsOf(t)
<1>1. ASSUME NEW x \in RowsOf(s \o t) PROVE x \in RowsOf(s) \cup RowsOf(t)
  <2>1. PICK i \in DOMAIN (s \o t) : x = (s \o t)[i]
    BY <1>1 DEF RowsOf
  <2>2. CASE i <= Len(s)
    BY <2>1, <2>2 DEF RowsOf
  <2>3. CASE i > Len(s)
    <3>1. i - Len(s) \in DOMAIN t /\ x = t[i - Len(s)]
      BY <2>1, <2>3
    <3>. QED  BY <3>1 DEF RowsOf
  <2>. QED  BY <2>1, <2>2, <2>3
<1>2. ASSUME NEW x \in RowsOf(s) PROVE x \in RowsOf(s \o t)
  <2>1. PICK i \in DOMAIN s : x = s[i]
    BY <1>2 DEF RowsOf
  <2>2. i \in DOMAIN (s \o t) /\ (s \o t)[i] = x
    BY <2>1
  <2>. QED  BY <2>2 DEF RowsOf
<1>3. ASSUME NEW x \in RowsOf(t) PROVE x \in RowsOf(s \o t)
  <2>1. PICK i \in DOMAIN t : x = t[i]
    BY <1>3 DEF RowsOf
  <2>2. Len(s) + i \in DOMAIN (s \o t) /\ (s \o t)[Len(s) + i] = x
    BY <2>1
  <2>. QED  BY <2>2 DEF RowsOf
<1>. QED  BY <1>1, <1>2, <1>3

LEMMA RowsOfHeadTail ==
    ASSUME NEW s \in Seq(Nat), s # <<>>
    PROVE  RowsOf(s) = RowsOf(Tail(s)) \cup {Head(s)}
<1>1. ASSUME NEW x \in RowsOf(s) PROVE x \in RowsOf(Tail(s)) \cup {Head(s)}
  <2>1. PICK i \in DOMAIN s : x = s[i]
    BY <1>1 DEF RowsOf
  <2>2. CASE i = 1
    BY <2>1, <2>2
  <2>3. CASE i # 1
    <3>1. i - 1 \in DOMAIN Tail(s) /\ x = Tail(s)[i - 1]
      BY <2>1, <2>3
    <3>. QED  BY <3>1 DEF RowsOf
  <2>. QED  BY <2>2, <2>3
<1>2. ASSUME NEW x \in RowsOf(Tail(s)) PROVE x \in RowsOf(s)
  <2>1. PICK i \in DOMAIN Tail(s) : x = Tail(s)[i]
    BY <1>2 DEF RowsOf
  <2>2. i + 1 \in DOMAIN s /\ s[i + 1] = x
    BY <2>1
  <2>. QED  BY <2>2 DEF RowsOf
<1>3. Head(s) \in RowsOf(s)
  <2>1. 1 \in DOMAIN s /\ s[1] = Head(s)
    OBVIOUS
  <2>. QED  BY <2>1 DEF RowsOf
<1>. QED  BY <1>1, <1>2, <1>3

-----------------------------------------------------------------------------
(* The types of AccessLog.                                                 *)

\* While Run selects there is room for one more row in the batch: it flushes
\* as soon as the batch is full.
LogTypeInv == LogTypeOK /\ (run = "select" => Len(batch) < BatchSize)

LEMMA SizeTypes == BatchSize \in Nat \ {0} /\ Capacity \in Nat
<1>1. BatchSize \in Nat \ {0}
  BY AccessLogAssumption DEF BatchSize
<1>2. BufferBatches \in Nat
  BY AccessLogAssumption
<1>. QED  BY <1>1, <1>2 DEF Capacity

LEMMA LogTypeInit == LogInit => LogTypeInv
<1> SUFFICES ASSUME LogInit PROVE LogTypeInv
  OBVIOUS
<1>1. entries = <<>> /\ batch = <<>> /\ stored = <<>>
  BY DEF LogInit
<1>2. /\ entries \in Seq(Rows) /\ batch \in Seq(Rows) /\ stored \in Seq(Rows)
      /\ Len(entries) <= Capacity /\ Len(batch) < BatchSize /\ Len(batch) <= BatchSize
  BY <1>1, SizeTypes
<1>3. logged \in 0..MaxRows
  BY AccessLogAssumption DEF LogInit
<1>4. /\ run = "select" /\ cancelled = FALSE /\ conn = FALSE /\ closed = FALSE
      /\ dropped = {} /\ failed = {}
  BY DEF LogInit
<1>. QED  BY <1>2, <1>3, <1>4 DEF LogTypeInv, LogTypeOK

LEMMA LogTypeStep == LogTypeInv /\ [LogNext]_logVars => LogTypeInv'
<1> SUFFICES ASSUME LogTypeInv, [LogNext]_logVars PROVE LogTypeInv'
  OBVIOUS
<1> USE SizeTypes, AccessLogAssumption DEF LogTypeInv, LogTypeOK, Rows, AfterFlush
<1>1. CASE Log
  <2>1. logged + 1 \in Rows /\ entries \in Seq(Rows)
    BY <1>1 DEF Log
  <2>2. \/ entries' = entries /\ Len(entries) = Capacity
        \/ entries' = Append(entries, logged + 1) /\ Len(entries) < Capacity
    BY <1>1 DEF Log
  <2>3. entries' \in Seq(Rows) /\ Len(entries') <= Capacity
    <3> HIDE DEF LogTypeInv, Rows
    <3>. QED  BY <2>1, <2>2
  <2>4. logged' \in 0..MaxRows
    BY <1>1 DEF Log
  <2>5. dropped' \subseteq Rows
    <3>1. dropped' = dropped \/ dropped' = dropped \cup {logged + 1}
      BY <1>1 DEF Log
    <3>. QED  BY <2>1, <3>1
  <2>. QED  BY <1>1, <2>3, <2>4, <2>5 DEF Log
<1>2. CASE Receive
  <2>1. /\ Head(entries) \in 1..MaxRows
        /\ Tail(entries) \in Seq(1..MaxRows)
        /\ Len(Tail(entries)) = Len(entries) - 1
    BY <1>2 DEF Receive
  <2>2. batch' \in Seq(1..MaxRows) /\ Len(batch') = Len(batch) + 1
    BY <1>2, <2>1 DEF Receive
  <2>3. entries' \in Seq(1..MaxRows) /\ Len(entries') <= Capacity
    BY <1>2, <2>1 DEF Receive
  <2>4. Len(batch') <= BatchSize /\ (run' = "select" => Len(batch') < BatchSize)
    BY <1>2, <2>2 DEF Receive
  <2>. QED  BY <1>2, <2>2, <2>3, <2>4 DEF Receive
<1>3. CASE Tick
  BY <1>3 DEF Tick
<1>4. ASSUME /\ stored' \in Seq(Rows) /\ failed' \subseteq Rows
             /\ batch' = <<>> /\ conn' = FALSE /\ run' = AfterFlush
             /\ UNCHANGED <<logged, entries, closed, cancelled, dropped>>
      PROVE  LogTypeInv'
  <2>1. batch' \in Seq(Rows) /\ Len(batch') <= BatchSize /\ Len(batch') < BatchSize
    BY <1>4
  <2>2. run' \in {"select", "flush", "final", "returned", "exited"}
    BY <1>4
  <2>. QED  BY <1>4, <2>1, <2>2, Zenon
<1>5. CASE Flush \/ FlushFails
  <2>1. stored \o batch \in Seq(Rows) /\ RowsOf(batch) \subseteq Rows
    BY DEF RowsOf
  <2>2. stored' \in {stored, stored \o batch} /\ failed' \in {failed, failed \cup RowsOf(batch)}
    BY <1>5 DEF Flush, FlushFails
  <2>. QED  BY <1>4, <1>5, <2>1, <2>2 DEF Flush, FlushFails
<1>6. CASE FlushRefused
  <2>1. RowsOf(batch) \subseteq Rows
    BY DEF RowsOf
  <2>2. conn' = FALSE
    BY <1>6 DEF FlushRefused
  <2>. QED  BY <1>4, <1>6, <2>1, <2>2 DEF FlushRefused
<1>7. CASE Cancel \/ ClosePool
  <2>1. UNCHANGED <<logged, entries, batch, run, conn, stored, dropped, failed>>
    BY <1>7 DEF Cancel, ClosePool
  <2>2. cancelled' \in BOOLEAN /\ closed' \in BOOLEAN
    BY <1>7, Zenon DEF Cancel, ClosePool
  <2>. QED  BY <2>1, <2>2, Zenon
<1>8. CASE Done \/ Acquire
  BY <1>8 DEF Done, Acquire
<1>9. CASE Exit
  BY <1>9 DEF Exit
<1>10. CASE UNCHANGED logVars
  BY <1>10 DEF logVars
<1>. QED
  BY <1>1, <1>2, <1>3, <1>4, <1>5, <1>6, <1>7, <1>8, <1>9, <1>10
  DEF LogNext, RunStep, FlushStep

-----------------------------------------------------------------------------
(* The order of rows.                                                      *)

\* Written, collected and waiting rows are increasing and follow one another,
\* and none is newer than the last call of Log.
OrderInv ==
    /\ Increasing(stored) /\ Increasing(batch) /\ Increasing(entries)
    /\ Below(stored, batch) /\ Below(stored, entries) /\ Below(batch, entries)
    /\ UpTo(stored, logged) /\ UpTo(batch, logged) /\ UpTo(entries, logged)

\* What LogTypeInv says of the sequences, in the form the lemmas need.
LEMMA RowSequences ==
    ASSUME LogTypeInv
    PROVE  /\ stored \in Seq(Nat) /\ batch \in Seq(Nat) /\ entries \in Seq(Nat)
           /\ logged \in Nat
<1>1. ASSUME NEW q \in Seq(Rows) PROVE q \in Seq(Nat)
  <2>1. Rows \subseteq Nat
    BY DEF Rows
  <2>. QED  BY <2>1, SeqMonotonic
<1>. QED  BY <1>1 DEF LogTypeInv, LogTypeOK

LEMMA OrderInit == LogInit => OrderInv
BY DEF LogInit, OrderInv, Increasing, Below, UpTo

LEMMA OrderStep == LogTypeInv /\ OrderInv /\ [LogNext]_logVars => OrderInv'
<1> SUFFICES ASSUME LogTypeInv, OrderInv, [LogNext]_logVars PROVE OrderInv'
  OBVIOUS
<1> USE RowSequences
<1>1. CASE Log
  <2>1. CASE entries' = Append(entries, logged + 1)
    <3>1. \A q \in {stored, batch, entries} : \A i \in DOMAIN q : q[i] < logged + 1
      BY DEF OrderInv, UpTo
    <3>2. Increasing(entries') /\ Below(stored, entries') /\ Below(batch, entries')
      BY <2>1, <3>1, IncreasingAppend, BelowAppend DEF OrderInv
    <3>3. UpTo(entries', logged + 1)
      BY <2>1, <3>1 DEF UpTo
    <3>4. UpTo(stored, logged + 1) /\ UpTo(batch, logged + 1)
      BY <3>1 DEF UpTo
    <3>. QED  BY <1>1, <3>2, <3>3, <3>4 DEF Log, OrderInv
  <2>2. CASE entries' = entries
    <3>1. \A q \in {stored, batch, entries} : UpTo(q, logged + 1)
      BY DEF OrderInv, UpTo
    <3>. QED  BY <1>1, <2>2, <3>1 DEF Log, OrderInv
  <2>. QED  BY <1>1, <2>1, <2>2 DEF Log
<1>2. CASE Receive
  <2> DEFINE h == Head(entries)
             t == Tail(entries)
  <2>1. h \in Nat /\ t \in Seq(Nat) /\ h = entries[1] /\ 1 \in DOMAIN entries
        /\ \A i \in DOMAIN t : i + 1 \in DOMAIN entries /\ t[i] = entries[i + 1]
    BY <1>2 DEF Receive
  <2>2. \A q \in {stored, batch} : \A i \in DOMAIN q : q[i] < h
    BY <2>1 DEF OrderInv, Below
  <2>3. Increasing(t) /\ \A i \in DOMAIN t : h < t[i]
    BY <1>2, IncreasingTail DEF Receive, OrderInv
  <2>4. Below(stored, t) /\ Below(batch, t)
    BY <2>1 DEF OrderInv, Below
  <2>5. h <= logged /\ UpTo(t, logged)
    BY <2>1 DEF OrderInv, UpTo
  <2>6. batch' = Append(batch, h) /\ entries' = t
    BY <1>2 DEF Receive
  <2>7. Increasing(batch') /\ Below(stored, batch')
    BY <2>1, <2>2, <2>6, IncreasingAppend, BelowAppend DEF OrderInv
  <2>8. \A i \in DOMAIN batch' :
            batch'[i] = h \/ (i \in DOMAIN batch /\ batch'[i] = batch[i])
    BY <2>1, <2>6, AppendElements
  <2>9. Below(batch', t) /\ UpTo(batch', logged)
    <3> HIDE DEF h, t
    <3>. QED  BY <2>3, <2>4, <2>5, <2>8 DEF OrderInv, Below, UpTo
  <2>10. stored' = stored /\ logged' = logged
    BY <1>2 DEF Receive
  <2>. QED  BY <2>3, <2>4, <2>5, <2>6, <2>7, <2>9, <2>10 DEF OrderInv
<1>3. ASSUME stored' = stored \o batch, batch' = <<>>, entries' = entries,
             logged' = logged
      PROVE  OrderInv'
  <2>1. Increasing(stored') /\ Below(stored', entries)
    BY <1>3, IncreasingConcat, BelowConcat DEF OrderInv
  <2>2. UpTo(stored', logged)
    BY <1>3 DEF OrderInv, UpTo
  <2>3. Increasing(batch') /\ Below(stored', batch') /\ Below(batch', entries)
        /\ UpTo(batch', logged)
    BY <1>3 DEF Increasing, Below, UpTo
  <2>. QED  BY <1>3, <2>1, <2>2, <2>3 DEF OrderInv
<1>4. ASSUME stored' = stored, batch' = <<>>, entries' = entries, logged' = logged
      PROVE  OrderInv'
  BY <1>4 DEF OrderInv, Increasing, Below, UpTo
<1>5. CASE Flush
  BY <1>3, <1>5 DEF Flush
<1>6. CASE FlushFails \/ FlushRefused
  BY <1>3, <1>4, <1>6 DEF FlushFails, FlushRefused
<1>7. ASSUME UNCHANGED <<stored, batch, entries, logged>> PROVE OrderInv'
  BY <1>7 DEF OrderInv
<1>. QED
  BY <1>1, <1>2, <1>5, <1>6, <1>7
  DEF LogNext, RunStep, FlushStep, Acquire, Tick, Cancel, Done, ClosePool, Exit, logVars

LEMMA OrderSuffices == LogTypeInv /\ OrderInv => InOrder
<1> SUFFICES ASSUME LogTypeInv, OrderInv PROVE InOrder
  OBVIOUS
<1> USE RowSequences
<1>1. Increasing(stored \o batch) /\ Below(stored \o batch, entries)
  BY IncreasingConcat, BelowConcat DEF OrderInv
<1>2. stored \o batch \in Seq(Nat)
  OBVIOUS
<1>3. Increasing(stored \o batch \o entries)
  BY <1>1, <1>2, IncreasingConcat DEF OrderInv
<1>. QED  BY <1>3 DEF InOrder, Increasing

-----------------------------------------------------------------------------
(* No row is lost.                                                         *)

LEMMA LostInit == LogInit => NothingLost
BY RowsOfEmpty DEF LogInit, NothingLost

LEMMA LostStep == LogTypeInv /\ NothingLost /\ [LogNext]_logVars => NothingLost'
<1> SUFFICES ASSUME LogTypeInv, NothingLost, [LogNext]_logVars PROVE NothingLost'
  OBVIOUS
<1> USE RowSequences, RowsOfEmpty
<1>1. CASE Log
  <2>1. 1..(logged + 1) = (1..logged) \cup {logged + 1}
    OBVIOUS
  <2>2. RowsOf(Append(entries, logged + 1)) = RowsOf(entries) \cup {logged + 1}
    BY RowsOfAppend
  <2>. QED  BY <1>1, <2>1, <2>2 DEF Log, NothingLost
<1>2. CASE Receive
  <2>1. Head(entries) \in Nat
    BY <1>2 DEF Receive
  <2>2. RowsOf(batch') = RowsOf(batch) \cup {Head(entries)}
    BY <1>2, <2>1, RowsOfAppend DEF Receive
  <2>3. RowsOf(entries) = RowsOf(entries') \cup {Head(entries)}
    BY <1>2, RowsOfHeadTail DEF Receive
  <2>. QED  BY <1>2, <2>2, <2>3 DEF Receive, NothingLost
<1>3. CASE Flush
  BY <1>3, RowsOfConcat DEF Flush, NothingLost
<1>4. CASE FlushFails \/ FlushRefused
  <2>1. RowsOf(batch') = {} /\ UNCHANGED <<entries, logged, dropped>>
    BY <1>4 DEF FlushFails, FlushRefused
  <2>2. RowsOf(stored') \cup failed' = RowsOf(stored) \cup RowsOf(batch) \cup failed
    BY <1>4, RowsOfConcat DEF FlushFails, FlushRefused
  <2>. QED  BY <2>1, <2>2 DEF NothingLost
<1>5. ASSUME UNCHANGED <<stored, batch, entries, logged, dropped, failed>>
      PROVE  NothingLost'
  BY <1>5 DEF NothingLost
<1>. QED
  BY <1>1, <1>2, <1>3, <1>4, <1>5
  DEF LogNext, RunStep, FlushStep, Acquire, Tick, Cancel, Done, ClosePool, Exit, logVars

-----------------------------------------------------------------------------
(* Theorems about the access log.                                          *)

LEMMA LogSafe == LogSpec => [](LogTypeInv /\ OrderInv /\ NothingLost)
<1>1. LogInit => LogTypeInv /\ OrderInv /\ NothingLost
  BY LogTypeInit, OrderInit, LostInit
<1>2. (LogTypeInv /\ OrderInv /\ NothingLost) /\ [LogNext]_logVars
          => (LogTypeInv /\ OrderInv /\ NothingLost)'
  BY LogTypeStep, OrderStep, LostStep
<1>. QED  BY <1>1, <1>2, PTL DEF LogSpec

\* The channel and the batch keep their bounds: Log never has more than the
\* channel's capacity waiting and Run never more than one batch (Log, Run).
THEOREM LogTypeTheorem == LogSpec => []LogTypeOK
<1>1. LogTypeInv => LogTypeOK
  BY DEF LogTypeInv
<1>. QED  BY <1>1, LogSafe, PTL

\* Rows reach the table at most once and in the order of the calls of Log.
THEOREM InOrderTheorem == LogSpec => []InOrder
BY OrderSuffices, LogSafe, PTL

\* Run loses no row: a row is in the table, in the batch, in the channel, or
\* was dropped by Log or lost by a failed InsertBatch.
THEOREM NothingLostTheorem == LogSpec => []NothingLost
BY LogSafe, PTL

-----------------------------------------------------------------------------
(* The access log inside the process.                                      *)

\* A step of the servers, of their clients or of main is a step of the access
\* log or leaves it alone.
LEMMA StepOfLog == [ShutdownNext]_shutdownVars => [LogNext]_logVars
BY DEF ShutdownNext, shutdownVars, Clients, Signal, MainStep, ListenerFails, Worker,
       HttpArrives, ProxyReturns, GuestServed, HttpEnds, RpcBegins, RpcEnds,
       DebugRequest, BeginStop, GrpcStopped, Deadline, DebugStopped, HttpStopped,
       PoolClosed, LogNext

LEMMA ProcessLog == ShutdownSpec => LogSpec
<1>1. ShutdownInit => LogInit
  BY DEF ShutdownInit
<1>. QED  BY <1>1, StepOfLog, PTL DEF ShutdownSpec, LogSpec

\* A process that serves, loses a listener or is being shut down keeps its
\* access log in order and complete, with requests still arriving after Run has
\* returned and after the pool was closed.
THEOREM LogKeptTheorem == ShutdownSpec => [](InOrder /\ NothingLost)
BY ProcessLog, InOrderTheorem, NothingLostTheorem, PTL

LEMMA MainInit == ShutdownInit => ShutdownTypeOK
<1> SUFFICES ASSUME ShutdownInit PROVE ShutdownTypeOK
  OBVIOUS
<1>1. LogTypeOK
  BY LogTypeInit DEF ShutdownInit, LogTypeInv
<1>2. phase = "serving" /\ run = "select" /\ closed = FALSE
  BY DEF ShutdownInit, LogInit
<1>3. (phase \in {"closing", "failing", "returned"}) = FALSE
  BY <1>2
<1>. QED  BY <1>1, <1>2, <1>3 DEF ShutdownInit, ShutdownTypeOK

LEMMA MainStepType ==
    ShutdownTypeOK /\ LogTypeOK' /\ [ShutdownNext]_shutdownVars => ShutdownTypeOK'
<1> SUFFICES ASSUME ShutdownTypeOK, LogTypeOK', [ShutdownNext]_shutdownVars
             PROVE  ShutdownTypeOK'
  OBVIOUS
<1> USE DEF ShutdownTypeOK, mainVars
<1>1. ASSUME NEW r \in Guests \cup Feeds, HttpArrives(r) \/ HttpEnds(r)
      PROVE  ShutdownTypeOK'
  BY <1>1 DEF HttpArrives, HttpEnds, logVars
<1>2. ASSUME NEW r \in Guests, ProxyReturns(r) \/ GuestServed(r)
      PROVE  ShutdownTypeOK'
  BY <1>2 DEF ProxyReturns, GuestServed, Log, logVars
<1>3. ASSUME NEW c \in Streams \cup Imports, RpcBegins(c) \/ RpcEnds(c)
      PROVE  ShutdownTypeOK'
  BY <1>3 DEF RpcBegins, RpcEnds, logVars
<1>4. CASE DebugRequest
  BY <1>4 DEF DebugRequest, logVars
<1>5. CASE Signal
  BY <1>5 DEF Signal, Cancel
<1>6. CASE BeginStop \/ GrpcStopped \/ Deadline \/ DebugStopped
  <2>1. CASE Deadline
    BY <2>1 DEF Deadline, logVars
  <2>2. CASE BeginStop \/ GrpcStopped \/ DebugStopped
    <3>1. /\ phase \in {"serving", "grpcStop", "debugStop"}
          /\ phase' \in {"grpcStop", "debugStop", "httpStop"}
          /\ UNCHANGED <<http, answered, grpc, debug, expired, run, closed>>
      BY <2>2 DEF BeginStop, GrpcStopped, DebugStopped, logVars
    <3>. QED  BY <3>1
  <2>. QED  BY <1>6, <2>1, <2>2
<1>7. CASE HttpStopped \/ ListenerFails \/ PoolClosed
  BY <1>7 DEF HttpStopped, ListenerFails, PoolClosed, ClosePool, Exit
<1>8. CASE Worker
  BY <1>8 DEF Worker, RunStep, Receive, Tick, FlushStep, Acquire, Flush,
              FlushRefused, Done, FlushFails, AfterFlush
<1>9. CASE UNCHANGED shutdownVars
  BY <1>9 DEF shutdownVars, logVars
<1>. QED
  BY <1>1, <1>2, <1>3, <1>4, <1>5, <1>6, <1>7, <1>8, <1>9
  DEF ShutdownNext, Clients, MainStep

\* The process and its access log agree on whether the process is gone and the
\* pool closed, the servers serve only known clients, and the bounds of the log hold.
THEOREM ShutdownTypeTheorem == ShutdownSpec => []ShutdownTypeOK
<1>1. ShutdownSpec => []LogTypeOK
  BY ProcessLog, LogTypeTheorem, PTL
<1>. QED  BY <1>1, MainInit, MainStepType, PTL DEF ShutdownSpec

=============================================================================

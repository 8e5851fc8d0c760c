----------------------------- MODULE AccessLog -----------------------------
(***************************************************************************)
(* proxy.AsyncAccessLogger: request goroutines put access-log rows into a  *)
(* bounded channel and never wait; one goroutine (Run) collects them into  *)
(* a batch and writes the batch to proxy_access_logs, when it is full or   *)
(* when a ticker fires.  main() cancels the context of Run on SIGTERM and  *)
(* does not wait for it, but before the process ends it closes the pool of *)
(* database connections, which waits for those that are in use.            *)
(*                                                                         *)
(* Rows are numbered in the order of the calls of Log.                     *)
(***************************************************************************)
EXTENDS Integers, Sequences

CONSTANTS
    ConfiguredBatchSize,   \* ProxyLogBatchSize of the configuration
    BufferBatches,         \* channel capacity in batches, 20 in the code
    MaxRows,               \* bound: calls of Log
    DBFails,               \* whether InsertBatch may fail
    MayStop                \* whether the process may be told to stop

ASSUME AccessLogAssumption ==
    /\ ConfiguredBatchSize \in Int
    /\ BufferBatches \in Nat \ {0}
    /\ MaxRows \in Nat
    /\ DBFails \in BOOLEAN
    /\ MayStop \in BOOLEAN

\* NewAsyncAccessLogger raises a configured size below 1 to 1.
BatchSize == IF ConfiguredBatchSize < 1 THEN 1 ELSE ConfiguredBatchSize

Capacity == BatchSize * BufferBatches

VARIABLES
    logged,     \* number of calls of Log so far
    entries,    \* the channel
    batch,      \* Run's local slice
    run,        \* where Run is
    conn,       \* InsertBatch of Run holds a connection
    closed,     \* pool.Close has been called: it gives no more connections
    cancelled,  \* ctx of Run is done
    stored,     \* proxy_access_logs, in insertion order
    dropped,    \* history: rows Log dropped
    failed      \* history: rows of batches that were not written

logVars ==
    <<logged, entries, batch, run, conn, closed, cancelled, stored, dropped, failed>>

Rows == 1..MaxRows

LogTypeOK ==
    /\ logged \in 0..MaxRows
    /\ entries \in Seq(Rows) /\ Len(entries) <= Capacity
    /\ batch \in Seq(Rows) /\ Len(batch) <= BatchSize
    /\ run \in {"select", "flush", "final", "returned", "exited"}
    /\ conn \in BOOLEAN /\ (conn => run \in {"flush", "final"})
    /\ closed \in BOOLEAN
    /\ cancelled \in BOOLEAN
    /\ stored \in Seq(Rows)
    /\ dropped \subseteq Rows
    /\ failed \subseteq Rows

LogInit ==
    /\ logged = 0
    /\ entries = <<>>
    /\ batch = <<>>
    /\ run = "select"
    /\ conn = FALSE
    /\ closed = FALSE
    /\ cancelled = FALSE
    /\ stored = <<>>
    /\ dropped = {}
    /\ failed = {}

\* The rows of a sequence.
RowsOf(s) == {s[i] : i \in DOMAIN s}

-----------------------------------------------------------------------------

\* The channel has room for one more than a multiple of the batch size.
LogOneMore ==
    /\ run # "exited"
    /\ logged < MaxRows
    /\ logged' = logged + 1
    /\ Len(entries) <= Capacity
    /\ entries' = Append(entries, logged + 1)
    /\ UNCHANGED <<batch, run, conn, closed, cancelled, stored, dropped, failed>>

\* Log waits for room in the channel.
LogBlocking ==
    /\ run # "exited"
    /\ logged < MaxRows
    /\ Len(entries) < Capacity
    /\ logged' = logged + 1
    /\ entries' = Append(entries, logged + 1)
    /\ UNCHANGED <<batch, run, conn, closed, cancelled, stored, dropped, failed>>

\* Log: a non-blocking send.  Requests may still be served, and logged, after
\* Run has returned.
Log ==
    /\ run # "exited"
    /\ logged < MaxRows
    /\ logged' = logged + 1
    /\ \/ /\ Len(entries) < Capacity
          /\ entries' = Append(entries, logged + 1)
          /\ UNCHANGED dropped
       \/ /\ Len(entries) = Capacity
          /\ dropped' = dropped \cup {logged + 1}
          /\ UNCHANGED entries
    /\ UNCHANGED <<batch, run, conn, closed, cancelled, stored, failed>>

\* Run: case e := <-a.entries.
Receive ==
    /\ run = "select"
    /\ entries # <<>>
    /\ batch' = Append(batch, Head(entries))
    /\ entries' = Tail(entries)
    /\ run' = IF Len(batch') >= BatchSize THEN "flush" ELSE "select"
    /\ UNCHANGED <<logged, conn, closed, cancelled, stored, dropped, failed>>

\* The ticker case is missing: a partial batch waits for more rows.
TickIgnored ==
    /\ run = "select"
    /\ batch # <<>>
    /\ UNCHANGED logVars

\* Run: case <-ticker.C (an empty batch is not written).
Tick ==
    /\ run = "select"
    /\ batch # <<>>
    /\ run' = "flush"
    /\ UNCHANGED <<logged, entries, batch, conn, closed, cancelled, stored, dropped,
                   failed>>

\* After flush Run selects again, or returns if this was the last flush.
AfterFlush == IF run = "final" THEN "returned" ELSE "select"

\* flush: InsertBatch takes a connection from the pool.
Acquire ==
    /\ run \in {"flush", "final"}
    /\ batch # <<>>
    /\ ~conn /\ ~closed
    /\ conn' = TRUE
    /\ UNCHANGED <<logged, entries, batch, run, closed, cancelled, stored, dropped,
                   failed>>

\* The slice is not emptied after it was written.
FlushKeepsBatch ==
    /\ run \in {"flush", "final"}
    /\ conn \/ batch = <<>>
    /\ stored' = stored \o batch
    /\ conn' = FALSE
    /\ run' = AfterFlush
    /\ UNCHANGED <<logged, entries, batch, closed, cancelled, dropped, failed>>

\* flush: InsertBatch has written the batch, in one implicit transaction, and
\* gives its connection back; an empty batch needs none.
Flush ==
    /\ run \in {"flush", "final"}
    /\ conn \/ batch = <<>>
    /\ stored' = stored \o batch
    /\ batch' = <<>>
    /\ conn' = FALSE
    /\ run' = AfterFlush
    /\ UNCHANGED <<logged, entries, closed, cancelled, dropped, failed>>

\* flush: InsertBatch returns an error and the batch is emptied.  It had no
\* connection, or the batch was applied or not.
FlushFails ==
    /\ DBFails
    /\ run \in {"flush", "final"}
    /\ batch # <<>>
    /\ \/ conn /\ stored' = stored \o batch /\ UNCHANGED failed
       \/ failed' = failed \cup RowsOf(batch) /\ UNCHANGED stored
    /\ batch' = <<>>
    /\ conn' = FALSE
    /\ run' = AfterFlush
    /\ UNCHANGED <<logged, entries, closed, cancelled, dropped>>

\* flush: the closed pool refuses InsertBatch a connection.
FlushRefused ==
    /\ run \in {"flush", "final"}
    /\ batch # <<>>
    /\ closed /\ ~conn
    /\ failed' = failed \cup RowsOf(batch)
    /\ batch' = <<>>
    /\ run' = AfterFlush
    /\ UNCHANGED <<logged, entries, conn, closed, cancelled, stored, dropped>>

\* SIGTERM: signal.NotifyContext cancels the context Run was started with.
Cancel ==
    /\ MayStop
    /\ ~cancelled
    /\ cancelled' = TRUE
    /\ UNCHANGED <<logged, entries, batch, run, conn, closed, stored, dropped, failed>>

\* Run returns without the last flush.
DoneWithoutFlush ==
    /\ run = "select"
    /\ cancelled
    /\ run' = "returned"
    /\ batch' = <<>>
    /\ UNCHANGED <<logged, entries, conn, closed, cancelled, stored, dropped, failed>>

\* Run: case <-ctx.Done(), chosen among the cases that are ready.
Done ==
    /\ run = "select"
    /\ cancelled
    /\ run' = "final"
    /\ UNCHANGED <<logged, entries, batch, conn, closed, cancelled, stored, dropped,
                   failed>>

\* main() has shut its servers down, or lost one of them, and returns: the
\* deferred pool.Close() refuses new connections ...
ClosePool ==
    /\ ~closed
    /\ closed' = TRUE
    /\ UNCHANGED <<logged, entries, batch, run, conn, cancelled, stored, dropped, failed>>

\* The process ends without waiting for the pool.
ExitAtOnce ==
    /\ closed
    /\ run # "exited"
    /\ run' = "exited"
    /\ conn' = FALSE
    /\ UNCHANGED <<logged, entries, batch, closed, cancelled, stored, dropped, failed>>

\* ... and waits for the one InsertBatch holds.  Then the process ends, wherever
\* else Run is.
Exit ==
    /\ closed /\ ~conn
    /\ run # "exited"
    /\ run' = "exited"
    /\ UNCHANGED <<logged, entries, batch, conn, closed, cancelled, stored, dropped,
                   failed>>

FlushStep == Acquire \/ Flush \/ FlushRefused

RunStep == Receive \/ Tick \/ FlushStep \/ Done

LogNext == Log \/ RunStep \/ FlushFails \/ Cancel \/ ClosePool \/ Exit

LogSpec == LogInit /\ [][LogNext]_logVars

\* The goroutine of Run is scheduled, its ticker keeps firing, and select
\* chooses at random among the cases that are ready: none of them is starved.
\* That InsertBatch returns, whose context has no deadline, assumes that the
\* pool has a connection for it and that Postgres answers.
LogFairness ==
    /\ WF_logVars(FlushStep)
    /\ SF_logVars(Receive)
    /\ SF_logVars(Tick)
    /\ SF_logVars(Done)

LogFairSpec == LogSpec /\ LogFairness

-----------------------------------------------------------------------------
(* Properties.                                                             *)

\* A row is written at most once and rows reach the table in the order of the
\* calls of Log, whatever mixture of full batches, ticks, failed and final
\* flushes wrote them: everything written precedes everything in the batch,
\* which precedes everything in the channel (AsyncAccessLogger.Run).
InOrder ==
    LET all == stored \o batch \o entries
    IN  \A i, j \in DOMAIN all : i < j => all[i] < all[j]

\* Run loses no row: until the process is gone a row is in the table, in the
\* batch or in the channel, or it is one of those Log dropped or a failed
\* InsertBatch lost (Log, Run).
NothingLost ==
    1..logged = RowsOf(stored) \cup RowsOf(batch) \cup RowsOf(entries)
                    \cup dropped \cup failed

\* A row that was accepted is handed to Postgres in the end, "otherwise a quiet
\* link's last few requests would never be logged" (logwriter_test.go), unless
\* the process is told to stop or ends.
RowsWritten ==
    \A n \in Rows :
        n \in RowsOf(entries) ~> \/ n \in RowsOf(stored) \cup failed
                                 \/ cancelled \/ run = "exited"

\* A batch that is being written is not cut off: also when the process is told
\* to stop, or a listener fails, Postgres has stored or refused its rows in the
\* end (Run, and pool.Close in run).
StartedBatchSettles ==
    \A n \in Rows :
        (conn /\ n \in RowsOf(batch)) ~> n \in RowsOf(stored) \cup failed

\* Told to stop, Run returns (or the process is gone) although rows may still
\* be waiting and the ticker may still fire.
RunReturns == cancelled ~> run \in {"returned", "exited"}

=============================================================================

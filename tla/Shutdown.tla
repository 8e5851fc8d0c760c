------------------------------ MODULE Shutdown ------------------------------
(***************************************************************************)
(* The end of the process (main.go, run): SIGTERM cancels the context of   *)
(* the workers; then, one after the other, the gRPC server stops           *)
(* gracefully, which has no deadline, and the debug and the HTTP server    *)
(* shut down, which share one of ten seconds.  Until its turn comes a      *)
(* server goes on accepting.  Whichever way run returns, it closes the     *)
(* pool of database connections first.  Composed with AccessLog, whose     *)
(* worker stops first and whose channel guest requests go on filling.      *)
(*                                                                         *)
(* Of the pool only the connection of the log worker is modelled: those of *)
(* requests and of the counter worker are given back when their statement  *)
(* ends, and pool.Close waits for them in the same way.                    *)
(***************************************************************************)
EXTENDS AccessLog, FiniteSets

CONSTANTS
    Guests,        \* guest requests the HTTP server may have at once
    Feeds,         \* dashboard feeds (SSE), which end when the client leaves
    Streams,       \* gRPC activity streams, the same
    Imports,       \* unary gRPC calls (ImportService), which end by themselves
    ListenersFail  \* whether a listener may fail

ASSUME ShutdownAssumption ==
    /\ IsFiniteSet(Guests)
    /\ Guests \cap Feeds = {}
    /\ Streams \cap Imports = {}
    /\ ListenersFail \in BOOLEAN

VARIABLES
    phase,     \* where main is
    http,      \* requests the HTTP server is serving
    answered,  \* guest requests whose reverse proxy has returned
    grpc,      \* calls the gRPC server is serving
    debug,     \* the debug server is serving a request (a profile, a trace)
    expired    \* shutdownCtx is done

mainVars == <<phase, http, answered, grpc, debug, expired>>
shutdownVars == <<logVars, mainVars>>

ShutdownTypeOK ==
    /\ LogTypeOK
    /\ phase \in {"serving", "grpcStop", "debugStop", "httpStop", "closing",
                  "failing", "returned"}
    /\ http \subseteq Guests \cup Feeds
    /\ answered \subseteq http \cap Guests
    /\ grpc \subseteq Streams \cup Imports
    /\ debug \in BOOLEAN
    /\ expired \in BOOLEAN
    /\ closed = (phase \in {"closing", "failing", "returned"})
    /\ (phase = "returned") = (run = "exited")

ShutdownInit ==
    /\ LogInit
    /\ phase = "serving"
    /\ http = {}
    /\ answered = {}
    /\ grpc = {}
    /\ debug = FALSE
    /\ expired = FALSE

-----------------------------------------------------------------------------
(* Clients.  A server accepts until main shuts it down; where run returns  *)
(* because of a failed listener it shuts none down.                        *)

\* The HTTP server accepts until srv.Shutdown is called.
HttpArrives(r) ==
    /\ phase \in {"serving", "grpcStop", "debugStop", "failing"}
    /\ r \notin http
    /\ r \in Guests => logged + Cardinality(http \cap Guests) < MaxRows
    /\ http' = http \cup {r}
    /\ UNCHANGED <<logVars, phase, answered, grpc, debug, expired>>

\* The target has answered, the call of it has failed, or the guest has gone:
\* the reverse proxy returns to ServeHTTP.  Nothing puts a limit on this.
ProxyReturns(r) ==
    /\ phase # "returned"
    /\ r \in (http \cap Guests) \ answered
    /\ answered' = answered \cup {r}
    /\ UNCHANGED <<logVars, phase, http, grpc, debug, expired>>

\* ServeHTTP calls logAccess and returns.
GuestServed(r) ==
    /\ phase # "returned"
    /\ r \in answered
    /\ Log
    /\ http' = http \ {r}
    /\ answered' = answered \ {r}
    /\ UNCHANGED <<phase, grpc, debug, expired>>

\* A request ends without a log row, or the client of a feed leaves.
HttpEnds(r) ==
    /\ phase # "returned"
    /\ r \in http \ answered
    /\ http' = http \ {r}
    /\ UNCHANGED <<logVars, phase, answered, grpc, debug, expired>>

\* GracefulStop refuses new calls.
RpcBegins(c) ==
    /\ phase \in {"serving", "failing"}
    /\ c \notin grpc
    /\ grpc' = grpc \cup {c}
    /\ UNCHANGED <<logVars, phase, http, answered, debug, expired>>

\* ImportSession returns, or the client of a stream leaves.
RpcEnds(c) ==
    /\ phase # "returned"
    /\ c \in grpc
    /\ grpc' = grpc \ {c}
    /\ UNCHANGED <<logVars, phase, http, answered, debug, expired>>

DebugRequest ==
    /\ phase # "returned"
    /\ debug \/ phase \in {"serving", "grpcStop", "failing"}
    /\ debug' = ~debug
    /\ UNCHANGED <<logVars, phase, http, answered, grpc, expired>>

Clients ==
    \/ \E r \in Guests \cup Feeds : HttpArrives(r) \/ HttpEnds(r)
    \/ \E r \in Guests : ProxyReturns(r) \/ GuestServed(r)
    \/ \E c \in Streams \cup Imports : RpcBegins(c) \/ RpcEnds(c)
    \/ DebugRequest

-----------------------------------------------------------------------------
(* main.                                                                   *)

\* SIGTERM.
Signal == Cancel /\ UNCHANGED mainVars

\* case <-ctx.Done(): grpcServer.GracefulStop() is called.
BeginStop ==
    /\ phase = "serving"
    /\ cancelled
    /\ phase' = "grpcStop"
    /\ UNCHANGED <<logVars, http, answered, grpc, debug, expired>>

\* GracefulStop returns when the last call has ended, be it a stream or an
\* import; the ten seconds start.
GrpcStopped ==
    /\ phase = "grpcStop"
    /\ grpc = {}
    /\ phase' = "debugStop"
    /\ UNCHANGED <<logVars, http, answered, grpc, debug, expired>>

\* shutdownCtx times out.
Deadline ==
    /\ phase \in {"debugStop", "httpStop"}
    /\ ~expired
    /\ expired' = TRUE
    /\ UNCHANGED <<logVars, phase, http, answered, grpc, debug>>

\* debugSrv.Shutdown returns.
DebugStopped ==
    /\ phase = "debugStop"
    /\ ~debug \/ expired
    /\ phase' = "httpStop"
    /\ UNCHANGED <<logVars, http, answered, grpc, debug, expired>>

\* srv.Shutdown has no deadline.
HttpStoppedWhenIdle ==
    /\ phase = "httpStop"
    /\ http = {}
    /\ phase' = "closing"
    /\ ClosePool
    /\ UNCHANGED <<http, answered, grpc, debug, expired>>

\* srv.Shutdown returns; run returns, and closes the pool.
HttpStopped ==
    /\ phase = "httpStop"
    /\ http = {} \/ expired
    /\ phase' = "closing"
    /\ ClosePool
    /\ UNCHANGED <<http, answered, grpc, debug, expired>>

\* case err := <-errCh: run returns at once, and closes the pool.
ListenerFails ==
    /\ ListenersFail
    /\ phase = "serving"
    /\ phase' = "failing"
    /\ ClosePool
    /\ UNCHANGED <<http, answered, grpc, debug, expired>>

\* pool.Close returns, and with it run and main.
PoolClosed ==
    /\ phase \in {"closing", "failing"}
    /\ phase' = "returned"
    /\ Exit
    /\ UNCHANGED <<http, answered, grpc, debug, expired>>

MainStep ==
    BeginStop \/ GrpcStopped \/ Deadline \/ DebugStopped \/ HttpStopped \/ PoolClosed

Worker == (RunStep \/ FlushFails) /\ UNCHANGED mainVars

ShutdownNext == Clients \/ Signal \/ MainStep \/ ListenerFails \/ Worker

\* main goes on and the clock runs, the worker is as fair as in AccessLog, an
\* import ends, and a guest request ends once the reverse proxy has returned
\* (both assume that Redis and Postgres answer).  Targets need not answer and
\* clients need not leave.
ShutdownSpec ==
    /\ ShutdownInit /\ [][ShutdownNext]_shutdownVars
    /\ LogFairness
    /\ WF_shutdownVars(MainStep)
    /\ \A r \in Guests : WF_shutdownVars(GuestServed(r))
    /\ \A c \in Imports : WF_shutdownVars(RpcEnds(c))

-----------------------------------------------------------------------------
(* Properties.                                                             *)

\* Told to stop, the log worker returns and the process ends, although feeds may
\* stay open, targets never answer and the debug server be busy; only a gRPC
\* stream whose client never leaves can hold it up (Run, run, GracefulStop).
StopCompletes ==
    /\ RunReturns
    /\ cancelled ~> (phase = "returned" \/ [](grpc \cap Streams # {}))

\* A guest request whose target has answered is not held up by its log row, also
\* after the worker is gone and nobody empties the channel any more, while the
\* HTTP server still accepts requests and waits for them (ServeHTTP, Log).
RequestsFinish ==
    \A r \in Guests : r \in answered ~> (r \notin http \/ phase = "returned")

=============================================================================

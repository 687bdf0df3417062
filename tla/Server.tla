------------------------------- MODULE Server -------------------------------
(***************************************************************************)
(* The life of one pod: main (cmd/server/main.go) with config.Load and     *)
(* internal/db/db.go, from start-up through the gRPC and HTTP servers to   *)
(* the shutdown on SIGTERM, and the container's restarts.  main runs next  *)
(* to the goroutine that opens the HTTP port, the RPC handlers and the     *)
(* webhook handlers.  What a handler does is in the other modules; here it *)
(* runs, is answered or is cut off.                                        *)
(***************************************************************************)
CONSTANTS Trades,  \* RPCs that use a repository: ExecuteTrade and SyncBrokerBalances
          Reads,   \* RPCs that use none: GetQuotes, ValidateTickers and reflection streams
          Hooks    \* webhook requests

ASSUME RpcsAssumption == Trades \cap Reads = {}

Rpcs == Trades \cup Reads

VARIABLES phase,    \* where main is
          repos,    \* the repositories exist: the database was reached at start-up
          http,     \* the HTTP server
          grpc,     \* the gRPC server
          expired,  \* shutdownCtx is over
          rpc,      \* rpc[c]: the state of an RPC
          hook      \* hook[h]: the state of a webhook request

vars == <<phase, repos, http, grpc, expired, rpc, hook>>

-----------------------------------------------------------------------------
Booting  == {"load", "database", "migrate", "clients", "listen", "notify"}
Stopping == {"draining", "closing", "exiting"}
Gone     == {"exited", "dead"}
Phases   == Booting \cup {"serving"} \cup Stopping \cup Gone

\* A request ends with an answer, with its connection closed after a panic that net/http
\* recovers, or with the process.
Requests == {"none", "running", "answered", "aborted", "cut"}

Init ==
    /\ phase = "load"
    /\ repos = FALSE
    /\ http = "off"
    /\ grpc = "off"
    /\ expired = FALSE
    /\ rpc = [c \in Rpcs |-> "none"]
    /\ hook = [h \in Hooks |-> "none"]

-----------------------------------------------------------------------------
CutOff(requests) ==
    [r \in DOMAIN requests |-> IF requests[r] = "running" THEN "cut" ELSE requests[r]]

\* The process ends and takes the running handlers with it.
End(place) ==
    /\ phase' = place
    /\ http' = "off"
    /\ grpc' = "off"
    /\ rpc' = CutOff(rpc)
    /\ hook' = CutOff(hook)
    /\ UNCHANGED <<repos, expired>>

Die == End("dead")

Goto(place) == phase' = place

\* A step of main that may also end the process.
Boot(from, to) ==
    /\ phase = from
    /\ \/ Goto(to) /\ UNCHANGED <<repos, http, grpc, expired, rpc, hook>>
       \/ Die

\* A required variable that is missing panics.
Load == Boot("load", "database")

\* A database that cannot be parsed, reached or pinged leaves the repositories nil.
NewPool ==
    /\ phase = "database"
    /\ \/ repos' = TRUE /\ Goto("migrate")
       \/ repos' = FALSE /\ Goto("clients")
    /\ UNCHANGED <<http, grpc, expired, rpc, hook>>

\* log.Fatalf when the schema cannot be applied.
RunMigrations == Boot("migrate", "clients")

\* Redis, OpenBao, the broker, Livro and Ativos are not contacted.  A client of Livro or Ativos
\* with an unusable address stays nil (see route in FillProcessor and connected in Reconcile).
\* The HTTP server is started in a goroutine.
NewClients ==
    /\ phase = "clients"
    /\ Goto("listen")
    /\ http' = "starting"
    /\ UNCHANGED <<repos, grpc, expired, rpc, hook>>

\* ListenAndServe in its goroutine; a failure is logged and main goes on.
ListenAndServe ==
    /\ http = "starting"
    /\ http' \in {"open", "failed"}
    /\ UNCHANGED <<phase, repos, grpc, expired, rpc, hook>>

\* The gRPC port opens, or log.Fatalf.
Listen ==
    /\ phase = "listen"
    /\ \/ /\ Goto("notify")
          /\ grpc' = "open"
          /\ UNCHANGED <<repos, http, expired, rpc, hook>>
       \/ Die

\* From here on SIGTERM is delivered to main.
Notify ==
    /\ phase = "notify"
    /\ Goto("serving")
    /\ UNCHANGED <<repos, http, grpc, expired, rpc, hook>>

\* SIGTERM: the timer of shutdownCtx starts and GracefulStop closes the gRPC port.  Before
\* Notify the signal ends the process.
Terminate ==
    \/ phase \in Booting /\ Die
    \/ /\ phase = "serving"
       /\ Goto("draining")
       /\ grpc' = "draining"
       /\ UNCHANGED <<repos, http, expired, rpc, hook>>

Timeout ==
    /\ phase \in Stopping
    /\ ~expired
    /\ expired' = TRUE
    /\ UNCHANGED <<phase, repos, http, grpc, rpc, hook>>

\* Fault: Stop instead of GracefulStop.
Stop ==
    /\ phase = "draining"
    /\ Goto("closing")
    /\ grpc' = "stopped"
    /\ rpc' = CutOff(rpc)
    /\ http' = "shut"
    /\ UNCHANGED <<repos, expired, hook>>

\* GracefulStop returns when the last RPC is answered; then Shutdown closes the HTTP port.
GracefulStop ==
    /\ phase = "draining"
    /\ \A c \in Rpcs : rpc[c] # "running"
    /\ Goto("closing")
    /\ grpc' = "stopped"
    /\ http' = "shut"
    /\ UNCHANGED <<repos, expired, rpc, hook>>

\* Fault: the HTTP server is closed without waiting.
Close ==
    /\ phase = "closing"
    /\ Goto("exiting")
    /\ UNCHANGED <<repos, http, grpc, expired, rpc, hook>>

\* Fault: Shutdown has no deadline.
ShutdownUnbounded ==
    /\ phase = "closing"
    /\ \A h \in Hooks : hook[h] # "running"
    /\ Goto("exiting")
    /\ UNCHANGED <<repos, http, grpc, expired, rpc, hook>>

\* Shutdown returns when no webhook is running or shutdownCtx, which began before GracefulStop,
\* is over.
Shutdown ==
    /\ phase = "closing"
    /\ (\A h \in Hooks : hook[h] # "running") \/ expired
    /\ Goto("exiting")
    /\ UNCHANGED <<repos, http, grpc, expired, rpc, hook>>

\* The deferred calls close the clients and the pool, and main returns.
Exit == phase = "exiting" /\ End("exited")

-----------------------------------------------------------------------------
(* The requests, and Kubernetes. *)

Alive == phase \notin Gone

Call(c) ==
    /\ Alive /\ grpc = "open"
    /\ rpc[c] = "none"
    /\ rpc' = [rpc EXCEPT ![c] = "running"]
    /\ UNCHANGED <<phase, repos, http, grpc, expired, hook>>

\* Fault: a panic of an RPC is recovered and closes its connection.
AnswerOrAbort(c) ==
    /\ rpc[c] = "running"
    /\ rpc' = [rpc EXCEPT ![c] = "aborted"]
    /\ UNCHANGED <<phase, repos, http, grpc, expired, hook>>

\* The handler returns, in degraded mode perhaps because it refused the input.
Answer(c) ==
    /\ rpc[c] = "running"
    /\ rpc' = [rpc EXCEPT ![c] = "answered"]
    /\ UNCHANGED <<phase, repos, http, grpc, expired, hook>>

\* A handler that calls a method of a nil repository panics; the gRPC server does not recover.
Panic(c) ==
    /\ rpc[c] = "running"
    /\ c \in Trades /\ ~repos
    /\ Die

Receive(h) ==
    /\ Alive /\ http = "open"
    /\ hook[h] = "none"
    /\ hook' = [hook EXCEPT ![h] = "running"]
    /\ UNCHANGED <<phase, repos, http, grpc, expired, rpc>>

\* Any status; a panic on the nil repository is recovered and closes the connection.
Respond(h) ==
    /\ hook[h] = "running"
    /\ \E end \in IF repos THEN {"answered"} ELSE {"answered", "aborted"} :
          hook' = [hook EXCEPT ![h] = end]
    /\ UNCHANGED <<phase, repos, http, grpc, expired, rpc>>

\* SIGKILL at the end of the grace period of the pod, which is longer than shutdownCtx.
Kill ==
    /\ phase \in Stopping /\ expired
    /\ Die

\* The container is started again.
Restart ==
    /\ phase \in Gone
    /\ Goto("load")
    /\ repos' = FALSE
    /\ expired' = FALSE
    /\ UNCHANGED <<http, grpc, rpc, hook>>

Main == \/ Load \/ NewPool \/ RunMigrations \/ NewClients \/ Listen \/ Notify
        \/ GracefulStop \/ Shutdown \/ Exit

Next ==
    \/ Main \/ ListenAndServe \/ Terminate \/ Timeout \/ Kill \/ Restart
    \/ \E c \in Rpcs : Call(c) \/ Answer(c) \/ Panic(c)
    \/ \E h \in Hooks : Receive(h) \/ Respond(h)

Spec == Init /\ [][Next]_vars

\* main and time go on.  Nothing is assumed of requests: the calls to Ativos and Livro have no
\* deadline, a reflection stream stays open as long as its client likes, and the HTTP server has no
\* timeouts.  Nor is the SIGKILL of Kill assumed, which is not the process's own doing.
Fairness == WF_vars(Main) /\ WF_vars(Timeout)

FairSpec == Spec /\ Fairness

-----------------------------------------------------------------------------
(* Properties. *)

\* The shape of every variable.
TypeOK ==
    /\ phase \in Phases
    /\ {repos, expired} \subseteq BOOLEAN
    /\ http \in {"off", "starting", "open", "failed", "shut"}
    /\ grpc \in {"off", "open", "draining", "stopped"}
    /\ rpc \in [Rpcs -> Requests \ {"aborted"}]
    /\ hook \in [Hooks -> Requests]

\* main.go, GracefulStop, and the nil repositories of degraded mode: with a database, an RPC that
\* was accepted is cut off only by a signal that comes before Notify or by the SIGKILL at the end
\* of the grace period, never by an orderly shutdown and never by another request.
RpcsAreDrained ==
    [][\A c \in Rpcs : rpc[c] = "running" /\ rpc'[c] = "cut" =>
          /\ phase' = "dead"
          /\ repos => phase = "notify" \/ expired]_vars

\* main.go, Shutdown: a webhook is cut off by a shutdown that ends normally only if shutdownCtx
\* was over, which the wait for the RPCs before it may have used up.
HooksHaveTheTimeout ==
    [][\A h \in Hooks : hook[h] = "running" /\ hook'[h] = "cut" /\ phase' = "exited" =>
          expired /\ \A c \in Rpcs : rpc[c] # "running"]_vars

\* main.go, shutdown: once no RPC is running the process that got a SIGTERM ends by itself, whatever
\* the webhook senders do.  shutdownCtx does not bound GracefulStop: an RPC that hangs is ended by
\* SIGKILL alone.
StopsEventually ==
    (phase \in Stopping /\ \A c \in Rpcs : rpc[c] # "running") ~> (phase \in Gone)
=============================================================================

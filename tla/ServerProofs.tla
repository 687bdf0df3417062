----------------------------- MODULE ServerProofs ---------------------------
(***************************************************************************)
(* Proofs about Server, for any RPCs and webhooks and any number of        *)
(* restarts.                                                               *)
(***************************************************************************)
EXTENDS Server, TLAPS

\* RPCs run only while the port is open or GracefulStop waits for them.
RpcPhases == {"notify", "serving", "draining"}

\* The gRPC port is open only between Listen and the signal, the HTTP port is closed before main
\* goes on to exit, and it goes on past a running webhook only when shutdownCtx is over.
Orderly ==
    /\ \A c \in Rpcs : rpc[c] = "running" => phase \in RpcPhases
    /\ grpc = "open" => phase \in {"notify", "serving"}
    /\ phase \in {"closing", "exiting"} => http = "shut"
    /\ phase = "exiting" => expired \/ \A h \in Hooks : hook[h] # "running"
    /\ phase \in Gone => grpc = "off"

IInv == TypeOK /\ Orderly

\* Requests that are cut off are no longer running.
LEMMA CutOffLemma ==
    ASSUME NEW S, NEW R, NEW requests \in [S -> R], "cut" \in R
    PROVE  /\ CutOff(requests) \in [S -> R]
           /\ \A r \in S : CutOff(requests)[r] # "running"
BY DEF CutOff

\* The end of the process leaves an orderly state.
LEMMA EndStep ==
    ASSUME TypeOK, NEW place \in Gone, End(place)
    PROVE  IInv'
<1>1. rpc' \in [Rpcs -> Requests \ {"aborted"}] /\ \A c \in Rpcs : rpc'[c] # "running"
  <2>1. rpc \in [Rpcs -> Requests \ {"aborted"}] /\ "cut" \in Requests \ {"aborted"}
    BY DEF TypeOK, Requests
  <2> QED
    BY <2>1, CutOffLemma, Zenon DEF End
<1>2. hook' \in [Hooks -> Requests]
  BY CutOffLemma DEF TypeOK, End, Requests
<1>3. TypeOK'
  BY <1>1, <1>2 DEF TypeOK, End, Phases
<1>4. Orderly'
  BY <1>1 DEF Orderly, End, Gone
<1> QED
  BY <1>3, <1>4 DEF IInv

\* IInv is inductive.
LEMMA IInvPreserved == IInv /\ [Next]_vars => IInv'
<1> SUFFICES ASSUME IInv, [Next]_vars PROVE IInv'
  OBVIOUS
<1> USE DEF Goto, Phases, Booting, Stopping, Gone, RpcPhases
<1>0. TypeOK /\ Orderly
  BY DEF IInv
<1>1. CASE Die
  BY <1>0, <1>1, EndStep DEF Die
<1>2. CASE Exit
  BY <1>0, <1>2, EndStep DEF Exit
<1>3. CASE Load \/ RunMigrations
  <2>1. CASE ~Die
    BY <1>0, <1>3, <2>1 DEF Load, RunMigrations, Boot, IInv, TypeOK, Orderly
  <2> QED
    BY <1>1, <2>1
<1>4. CASE NewPool
  BY <1>0, <1>4 DEF NewPool, IInv, TypeOK, Orderly
<1>5. CASE NewClients \/ ListenAndServe
  BY <1>0, <1>5 DEF NewClients, ListenAndServe, IInv, TypeOK, Orderly
<1>6. CASE Listen
  <2>1. CASE ~Die
    BY <1>0, <1>6, <2>1 DEF Listen, IInv, TypeOK, Orderly
  <2> QED
    BY <1>1, <2>1
<1>7. CASE Notify \/ Timeout
  BY <1>0, <1>7 DEF Notify, Timeout, IInv, TypeOK, Orderly
<1>8. CASE Terminate
  <2>1. CASE ~Die
    BY <1>0, <1>8, <2>1 DEF Terminate, IInv, TypeOK, Orderly
  <2> QED
    BY <1>1, <2>1
<1>9. CASE GracefulStop \/ Shutdown
  BY <1>0, <1>9 DEF GracefulStop, Shutdown, IInv, TypeOK, Orderly
<1>10. CASE Kill
  BY <1>1, <1>10 DEF Kill
<1>11. CASE Restart
  BY <1>0, <1>11 DEF Restart, IInv, TypeOK, Orderly
<1>12. ASSUME NEW c \in Rpcs, Call(c) \/ Answer(c) \/ Panic(c) PROVE IInv'
  <2>1. CASE Panic(c)
    BY <1>1, <2>1 DEF Panic
  <2>2. CASE Call(c) \/ Answer(c)
    BY <1>0, <2>2 DEF Call, Answer, IInv, TypeOK, Orderly, Requests
  <2> QED
    BY <1>12, <2>1, <2>2
<1>13. ASSUME NEW h \in Hooks, Receive(h) \/ Respond(h) PROVE IInv'
  <2>1. hook' \in [Hooks -> Requests]
    BY <1>0, <1>13 DEF Receive, Respond, TypeOK, Requests
  <2>2. phase = "exiting" => expired \/ \A g \in Hooks : hook'[g] # "running"
    BY <1>0, <1>13 DEF Receive, Respond, TypeOK, Orderly
  <2>3. UNCHANGED <<phase, repos, http, grpc, expired, rpc>>
    BY <1>13 DEF Receive, Respond
  <2> QED
    BY <1>0, <2>1, <2>2, <2>3 DEF IInv, TypeOK, Orderly
<1>14. CASE UNCHANGED vars
  BY <1>0, <1>14 DEF IInv, TypeOK, Orderly, vars
<1> QED
  BY <1>2, <1>3, <1>4, <1>5, <1>6, <1>7, <1>8, <1>9, <1>10, <1>11, <1>12, <1>13, <1>14 DEF Next, Main

\* The invariant holds throughout.
THEOREM Invariance == Spec => []IInv
<1>1. Init => IInv
  BY DEF Init, IInv, TypeOK, Orderly, Phases, Booting, Gone, Requests
<1> QED
  BY <1>1, IInvPreserved, PTL DEF Spec

\* The state of a pod keeps its shape.
THEOREM TypeCorrect == Spec => []TypeOK
BY Invariance, PTL DEF IInv

-----------------------------------------------------------------------------
\* With a database, an accepted RPC is cut off only by an early signal or the SIGKILL.
THEOREM RpcsAreAlwaysDrained == Spec => RpcsAreDrained
<1> DEFINE Drained == \A c \in Rpcs : rpc[c] = "running" /\ rpc'[c] = "cut" =>
                         /\ phase' = "dead"
                         /\ repos => phase = "notify" \/ expired
<1>1. ASSUME IInv, Next PROVE Drained
  <2> SUFFICES ASSUME NEW c \in Rpcs, rpc[c] = "running", rpc'[c] = "cut"
               PROVE  phase' = "dead" /\ (repos => phase = "notify" \/ expired)
    OBVIOUS
  <2>1. phase \in RpcPhases /\ rpc \in [Rpcs -> Requests \ {"aborted"}]
    BY <1>1 DEF IInv, Orderly, TypeOK
  <2>2. rpc' # rpc
    OBVIOUS
  <2>3. ~Exit /\ ~Load /\ ~RunMigrations /\ ~Listen
    BY <2>1 DEF Exit, Load, RunMigrations, Boot, Listen, RpcPhases
  <2>4. ~NewPool /\ ~NewClients /\ ~ListenAndServe /\ ~Notify /\ ~Timeout
    BY <2>2 DEF NewPool, NewClients, ListenAndServe, Notify, Timeout
  <2>5. ~GracefulStop /\ ~Shutdown /\ ~Restart
    BY <2>2 DEF GracefulStop, Shutdown, Restart
  <2>6. \A d \in Rpcs : ~Call(d) /\ ~Answer(d)
    BY <2>1 DEF Call, Answer
  <2>7. \A h \in Hooks : ~Receive(h) /\ ~Respond(h)
    BY <2>2 DEF Receive, Respond
  <2>8. CASE Terminate
    BY <2>1, <2>2, <2>8 DEF Terminate, Die, End, Booting, RpcPhases
  <2>9. CASE Kill
    BY <2>9 DEF Kill, Die, End
  <2>10. ASSUME NEW d \in Rpcs, Panic(d) PROVE phase' = "dead" /\ ~repos
    BY <2>10 DEF Panic, Die, End
  <2> QED
    BY <1>1, <2>3, <2>4, <2>5, <2>6, <2>7, <2>8, <2>9, <2>10 DEF Next, Main
<1>2. IInv /\ [Next]_vars => [Drained]_vars
  BY <1>1
<1> QED
  BY <1>2, Invariance, PTL DEF Spec, RpcsAreDrained

\* An orderly shutdown cuts a webhook off only when shutdownCtx is over and no RPC is left.
THEOREM HooksAlwaysHaveTheTimeout == Spec => HooksHaveTheTimeout
<1> DEFINE Patient ==
       \A h \in Hooks : hook[h] = "running" /\ hook'[h] = "cut" /\ phase' = "exited" =>
          expired /\ \A c \in Rpcs : rpc[c] # "running"
<1>1. ASSUME IInv, Next PROVE Patient
  <2> SUFFICES ASSUME NEW h \in Hooks, hook[h] = "running", hook'[h] = "cut", phase' = "exited"
               PROVE  expired /\ \A c \in Rpcs : rpc[c] # "running"
    OBVIOUS
  <2>0. phase \in Phases /\ hook \in [Hooks -> Requests]
    BY <1>1 DEF IInv, TypeOK
  <2>1. ~Die
    BY DEF Die, End
  <2>2. hook' # hook
    OBVIOUS
  <2>3. ~Load /\ ~NewPool /\ ~RunMigrations /\ ~NewClients /\ ~Listen /\ ~Notify
    BY <2>1, <2>2 DEF Load, NewPool, RunMigrations, Boot, NewClients, Listen, Notify
  <2>4. ~GracefulStop /\ ~Shutdown /\ ~ListenAndServe /\ ~Terminate /\ ~Timeout /\ ~Kill /\ ~Restart
    BY <2>1, <2>2 DEF GracefulStop, Shutdown, ListenAndServe, Terminate, Timeout, Kill, Restart
  <2>5. \A c \in Rpcs : ~Call(c) /\ ~Answer(c) /\ ~Panic(c)
    BY <2>1, <2>2 DEF Call, Answer, Panic
  <2>6. \A g \in Hooks : ~Receive(g) /\ ~Respond(g)
    BY <2>0 DEF Receive, Respond
  <2>7. Exit
    BY <1>1, <2>3, <2>4, <2>5, <2>6 DEF Next, Main
  <2> QED
    BY <1>1, <2>7 DEF Exit, IInv, Orderly, RpcPhases
<1>2. IInv /\ [Next]_vars => [Patient]_vars
  BY <1>1
<1> QED
  BY <1>2, Invariance, PTL DEF Spec, HooksHaveTheTimeout
=============================================================================

---------------------------- MODULE ExecuteTrade ----------------------------
(***************************************************************************)
(* PregaoServer.ExecuteTrade (internal/service/service.go) with the        *)
(* reservation loop reserveOrder, the deferred releaseReservation and the  *)
(* broker call of internal/broker/binance/client.go.  Many calls run at    *)
(* once, on any number of replicas; they share only PostgreSQL (orders)    *)
(* and the broker (wire).  Between two actions of one call any other call  *)
(* may run: an action is one statement, one remote call or one wait.       *)
(*                                                                         *)
(* The kinds of failure a run may meet are drawn once, in the initial      *)
(* state, so that a property can name the failures it survives.            *)
(***************************************************************************)
EXTENDS OrdersRepo

CONSTANTS Calls,        \* the requests callers may send, a subset of Call
          ReplyStatuses,\* the statuses mapOrderStatus may answer in this run
          FaultSets     \* the combinations of faults that the surroundings may show

Faults == {"db", "disconnect", "crash", "reply"}

ASSUME CallsAssumption == Calls \subseteq Call
ASSUME ReplyStatusesAssumption == ReplyStatuses \subseteq RecordedStatuses
ASSUME FaultSetsAssumption == FaultSets \subseteq SUBSET Faults

VARIABLES orders,    \* the table broker_orders
          call,      \* call[r]: the request of call r
          pc,        \* pc[r]: where call r is in ExecuteTrade
          canceled,  \* canceled[r]: the request context of r is done
          expired,   \* expired[r]: the reservationWait deadline of r has passed
          wire,      \* wire[r]: what the broker made of the order that r sent
          answer,    \* answer[r]: what r returned to its caller
          faults     \* the kinds of failure that can happen at all

vars == <<orders, call, pc, canceled, expired, wire, answer, faults>>

DBFaults    == "db" \in faults          \* PostgreSQL may fail, before or after committing
Disconnects == "disconnect" \in faults  \* the caller may cancel the request context
Crashes     == "crash" \in faults       \* the pod that runs the call may die
LostReplies == "reply" \in faults       \* the broker's answer may be late, lost or unreadable

-----------------------------------------------------------------------------
(* Where a call can be. *)

Waiting    == {"reserve", "byIntent", "byKey", "wait"}
Dispatching == {"credentials", "decrypt", "dispatch", "awaiting"}
Recording  == {"confirm", "settle"}
Live       == Waiting \cup Dispatching \cup Recording \cup {"release"}
Ended      == {"done", "dead"}
Places     == {"idle"} \cup Live \cup Ended

\* An order the broker holds: still working, or filled or canceled.
Accepted   == {"open", "closed"}
WireStates == {"none", "sent", "rejected"} \cup Accepted

Codes == {"none", "OK", "InvalidArgument", "FailedPrecondition", "Internal",
          "Unavailable", "Aborted", "Canceled"}

Answer == [code : Codes, order : Ids \cup {NoOrder}]

NoAnswer == [code |-> "none", order |-> NoOrder]

Error(code) == [code |-> code, order |-> NoOrder]

Success(id) == [code |-> "OK", order |-> id]

Init ==
    /\ orders = [r \in Ids |-> NoRow]
    /\ call \in [Ids -> Calls]
    /\ pc = [r \in Ids |-> "idle"]
    /\ canceled = [r \in Ids |-> FALSE]
    /\ expired = [r \in Ids |-> FALSE]
    /\ wire = [r \in Ids |-> "none"]
    /\ answer = [r \in Ids |-> NoAnswer]
    /\ faults \in FaultSets

-----------------------------------------------------------------------------
(* Steps a call takes. *)

Goto(r, place) == pc' = [pc EXCEPT ![r] = place]

Keep == UNCHANGED answer

Return(r, a) == answer' = [answer EXCEPT ![r] = a]

\* The request context fails a remote call when it is done, the database when it is down.
RequestDBMayFail(r) == DBFaults \/ canceled[r]

\* The request reaches the handler and passes its input checks.
Arrive(r) ==
    /\ pc[r] = "idle"
    /\ Goto(r, "reserve")
    /\ UNCHANGED <<orders, call, canceled, expired, wire, answer>>

\* An empty field, a malformed uuid or a quantity that is not positive.
RejectInvalid(r) ==
    /\ pc[r] = "idle"
    /\ Goto(r, "done")
    /\ Return(r, Error("InvalidArgument"))
    /\ UNCHANGED <<orders, call, canceled, expired, wire>>

\* The insert takes the reservation, or finds another row in its way.
Reserve(r) ==
    /\ pc[r] = "reserve"
    /\ orders' = ReserveOrder(orders, r, call[r])
    /\ Goto(r, IF Reservable(orders, call[r]) THEN "credentials" ELSE "byIntent")
    /\ UNCHANGED <<call, canceled, expired, wire, answer>>

\* Fault: a failed insert is cleaned up by trade intent.
ReserveFailsAndDeletes(r) ==
    /\ pc[r] = "reserve"
    /\ RequestDBMayFail(r)
    /\ orders' = [id \in Ids |-> IF id \in GetOrderByIntentID(orders, call[r]) THEN NoRow
                                                                        ELSE orders[id]]
    /\ Goto(r, "done")
    /\ Return(r, Error("Internal"))
    /\ UNCHANGED <<call, canceled, expired, wire>>

\* The insert runs on the request context: an error says nothing about the commit.
ReserveFails(r) ==
    /\ pc[r] = "reserve"
    /\ RequestDBMayFail(r)
    /\ orders' \in {orders, ReserveOrder(orders, r, call[r])}
    /\ Goto(r, "done")
    /\ Return(r, Error("Internal"))
    /\ UNCHANGED <<call, canceled, expired, wire>>

\* Fault: the status of the existing row is not looked at.
UseExistingUnchecked(r, id) ==
    Goto(r, "done") /\ Return(r, Success(orders[id].provider_order_id))

\* A row that is no longer PENDING is the answer; a PENDING one is waited for.
UseExisting(r, id) ==
    IF orders[id].status = "PENDING"
    THEN Goto(r, "wait") /\ Keep
    ELSE Goto(r, "done") /\ Return(r, Success(orders[id].provider_order_id))

\* Fault: a reservation found released is taken without inserting it again.
LookupByIntentAndGo(r) ==
    /\ pc[r] = "byIntent"
    /\ LET found == GetOrderByIntentID(orders, call[r])
       IN  \/ \E id \in found : UseExisting(r, id)
           \/ found = {} /\ Goto(r, "credentials") /\ Keep
    /\ UNCHANGED <<orders, call, canceled, expired, wire>>

LookupByIntent(r) ==
    /\ pc[r] = "byIntent"
    /\ LET found == GetOrderByIntentID(orders, call[r])
       IN  \/ \E id \in found : UseExisting(r, id)
           \/ /\ found = {}
              /\ Goto(r, IF call[r].idempotency_key # NoKey THEN "byKey" ELSE "wait")
              /\ Keep
    /\ UNCHANGED <<orders, call, canceled, expired, wire>>

LookupByKey(r) ==
    /\ pc[r] = "byKey"
    /\ LET found == GetOrderByIdempotencyKey(orders, call[r])
       IN  \/ \E id \in found : UseExisting(r, id)
           \/ found = {} /\ Goto(r, "wait") /\ Keep
    /\ UNCHANGED <<orders, call, canceled, expired, wire>>

LookupFails(r) ==
    /\ pc[r] \in {"byIntent", "byKey"}
    /\ RequestDBMayFail(r)
    /\ Goto(r, "done")
    /\ Return(r, Error("Internal"))
    /\ UNCHANGED <<orders, call, canceled, expired, wire>>

\* Fault: a call that has waited long enough takes the trade over.
WaitThenSteal(r) ==
    /\ pc[r] = "wait"
    /\ Goto(r, IF expired[r] THEN "credentials" ELSE "reserve")
    /\ UNCHANGED <<orders, call, canceled, expired, wire, answer>>

\* Fault: the deadline is not checked.
WaitForever(r) ==
    /\ pc[r] = "wait"
    /\ \/ canceled[r] /\ Goto(r, "done") /\ Return(r, Error("Canceled"))
       \/ ~canceled[r] /\ Goto(r, "reserve") /\ Keep
    /\ UNCHANGED <<orders, call, canceled, expired, wire>>

\* The end of a round of reserveOrder: deadline first, then the context or the poll timer.
Wait(r) ==
    /\ pc[r] = "wait"
    /\ \/ /\ expired[r]
          /\ Goto(r, "done")
          /\ Return(r, Error("Aborted"))
       \/ /\ ~expired[r] /\ canceled[r]
          /\ Goto(r, "done")
          /\ Return(r, Error("Canceled"))
       \/ /\ ~expired[r] /\ ~canceled[r]
          /\ Goto(r, "reserve")
          /\ Keep
    /\ UNCHANGED <<orders, call, canceled, expired, wire>>

\* Credentials are read, then decrypted; either may fail and leads to the deferred release.
GetCredentials(r) ==
    /\ pc[r] = "credentials"
    /\ \/ Goto(r, "decrypt") /\ Keep
       \/ /\ Goto(r, "release")
          /\ \/ Return(r, Error("FailedPrecondition"))
             \/ RequestDBMayFail(r) /\ Return(r, Error("Internal"))
    /\ UNCHANGED <<orders, call, canceled, expired, wire>>

\* Fault: a decryption error returns without the release.
DecryptCredentialsAndLeak(r) ==
    /\ pc[r] = "decrypt"
    /\ \/ Goto(r, "dispatch") /\ Keep
       \/ Goto(r, "done") /\ Return(r, Error("Internal"))
    /\ UNCHANGED <<orders, call, canceled, expired, wire>>

DecryptCredentials(r) ==
    /\ pc[r] = "decrypt"
    /\ \/ Goto(r, "dispatch") /\ Keep
       \/ Goto(r, "release") /\ Return(r, Error("Internal"))
    /\ UNCHANGED <<orders, call, canceled, expired, wire>>

\* PlaceMarketOrder up to httpClient.Do: it may fail before anything is sent.
PlaceMarketOrder(r) ==
    /\ pc[r] = "dispatch"
    /\ \/ /\ Goto(r, "awaiting")
          /\ wire' = [wire EXCEPT ![r] = "sent"]
          /\ Keep
       \/ /\ Goto(r, "release")
          /\ Return(r, Error("Unavailable"))
          /\ UNCHANGED wire
    /\ UNCHANGED <<orders, call, canceled, expired>>

\* A readable 200 sets dispatched; a readable refusal is an error.
ReceiveReply(r) ==
    /\ pc[r] = "awaiting"
    /\ \/ wire[r] \in Accepted /\ Goto(r, "confirm") /\ Keep
       \/ /\ wire[r] = "rejected"
          /\ Goto(r, "release")
          /\ Return(r, Error("Unavailable"))
    /\ UNCHANGED <<orders, call, canceled, expired, wire>>

\* The HTTP timeout, a broken connection, an unreadable body or a canceled context:
\* PlaceMarketOrder returns an error whatever became of the order.
ReplyLost(r) ==
    /\ pc[r] = "awaiting"
    /\ LostReplies \/ canceled[r]
    /\ Goto(r, "release")
    /\ Return(r, Error("Unavailable"))
    /\ UNCHANGED <<orders, call, canceled, expired, wire>>

\* Fault: a call whose order could not be recorded releases the reservation.
ConfirmOrRelease(r) ==
    /\ pc[r] = "confirm"
    /\ \/ \E s \in ReplyStatuses : orders' = ConfirmOrder(orders, r, r, s)
       \/ DBFaults /\ orders' = ReleaseOrder(orders, r)
    /\ Goto(r, "settle")
    /\ UNCHANGED <<call, canceled, expired, wire, answer>>

\* Fault: an error of the write, which may have committed, is reported as a failed trade.
ConfirmOrFail(r) ==
    /\ pc[r] = "confirm"
    /\ \E s \in ReplyStatuses : orders' = ConfirmOrder(orders, r, r, s)
    /\ \/ Goto(r, "settle") /\ Keep
       \/ DBFaults /\ Goto(r, "done") /\ Return(r, Error("Internal"))
    /\ UNCHANGED <<call, canceled, expired, wire>>

\* The detached write of the broker's answer; an error is logged and the call goes on.
Confirm(r) ==
    /\ pc[r] = "confirm"
    /\ \/ \E s \in ReplyStatuses : orders' = ConfirmOrder(orders, r, r, s)
       \/ DBFaults /\ UNCHANGED orders
    /\ Goto(r, "settle")
    /\ UNCHANGED <<call, canceled, expired, wire, answer>>

\* ProcessFill on an order the broker executed at once: it may write a fill status or fail,
\* and the call succeeds either way.
Settle(r) ==
    /\ pc[r] = "settle"
    /\ \/ UNCHANGED orders
       \/ \E s \in {"PARTIAL", "FILLED"} : orders' = UpdateOrderFill(orders, r, s)
    /\ Goto(r, "done")
    /\ Return(r, Success(r))
    /\ UNCHANGED <<call, canceled, expired, wire>>

\* Fault: the release shares the deadline of the wait.
ReleaseUnlessExpired(r) ==
    /\ pc[r] = "release"
    /\ orders' = IF expired[r] THEN orders ELSE ReleaseOrder(orders, r)
    /\ Goto(r, "done")
    /\ UNCHANGED <<call, canceled, expired, wire, answer>>

\* releaseReservation, deferred and detached; an error is logged.
Release(r) ==
    /\ pc[r] = "release"
    /\ \/ orders' = ReleaseOrder(orders, r)
       \/ DBFaults /\ UNCHANGED orders
    /\ Goto(r, "done")
    /\ UNCHANGED <<call, canceled, expired, wire, answer>>

-----------------------------------------------------------------------------
(* Steps of the surroundings. *)

Disconnect(r) ==
    /\ Disconnects
    /\ pc[r] \in Live
    /\ ~canceled[r]
    /\ canceled' = [canceled EXCEPT ![r] = TRUE]
    /\ UNCHANGED <<orders, call, pc, expired, wire, answer>>

\* reservationWait runs out while the call waits for another one.
Expire(r) ==
    /\ pc[r] \in Waiting
    /\ ~expired[r]
    /\ expired' = [expired EXCEPT ![r] = TRUE]
    /\ UNCHANGED <<orders, call, pc, canceled, wire, answer, faults>>

\* The pod that runs r dies.  The other calls of that pod die in further steps.
Crash(r) ==
    /\ Crashes
    /\ pc[r] \in Live
    /\ Goto(r, "dead")
    /\ UNCHANGED <<orders, call, canceled, expired, wire, answer, faults>>

\* The broker takes an order it was sent, now or after the sender stopped waiting.  The
\* client order id is the trade intent: two open orders never share one.
BrokerAccepts(r) ==
    /\ wire[r] = "sent"
    /\ \A s \in Ids : SameIntent(call[s], call[r]) => wire[s] # "open"
    /\ wire' = [wire EXCEPT ![r] = "open"]
    /\ UNCHANGED <<orders, call, pc, canceled, expired, answer>>

BrokerRejects(r) ==
    /\ wire[r] = "sent"
    /\ wire' = [wire EXCEPT ![r] = "rejected"]
    /\ UNCHANGED <<orders, call, pc, canceled, expired, answer>>

BrokerCloses(r) ==
    /\ wire[r] = "open"
    /\ wire' = [wire EXCEPT ![r] = "closed"]
    /\ UNCHANGED <<orders, call, pc, canceled, expired, answer>>

\* A webhook for an accepted order reaches ProcessFill on any replica.
WebhookFill(r) ==
    /\ wire[r] \in Accepted
    /\ \E s \in {"PARTIAL", "FILLED"} : orders' = UpdateOrderFill(orders, r, s)
    /\ UNCHANGED <<call, pc, canceled, expired, wire, answer>>

-----------------------------------------------------------------------------
Step(r) ==
    /\ \/ Reserve(r) \/ ReserveFails(r)
       \/ LookupByIntent(r) \/ LookupByKey(r) \/ LookupFails(r) \/ Wait(r)
       \/ GetCredentials(r) \/ DecryptCredentials(r)
       \/ PlaceMarketOrder(r) \/ ReceiveReply(r) \/ ReplyLost(r)
       \/ Confirm(r) \/ Settle(r) \/ Release(r)
    /\ UNCHANGED faults

Caller(r) == (Arrive(r) \/ RejectInvalid(r) \/ Disconnect(r)) /\ UNCHANGED faults

Broker(r) == /\ BrokerAccepts(r) \/ BrokerRejects(r) \/ BrokerCloses(r) \/ WebhookFill(r)
             /\ UNCHANGED faults

\* Every caller has its answer or lost its pod: only the broker is left.
Finished == (\A r \in Ids : pc[r] \in Ended) /\ UNCHANGED vars

Next == \/ \E r \in Ids : Step(r) \/ Caller(r) \/ Broker(r) \/ Expire(r) \/ Crash(r)
        \/ Finished

Spec == Init /\ [][Next]_vars

\* The calls of ProcessFill to Ativos and Livro have no deadline of their own: they return, at the
\* latest, when the caller is gone.
MayHang(r) == pc[r] = "settle" /\ ~canceled[r]

\* A handler that can run does run, and time passes.  Nothing is assumed of callers, of the broker,
\* or of Ativos and Livro.
Fairness == \A r \in Ids : WF_vars(Step(r) /\ ~MayHang(r)) /\ WF_vars(Expire(r))

FairSpec == Spec /\ Fairness

-----------------------------------------------------------------------------
(* Properties. *)

\* The shape of every variable.
TypeOK ==
    /\ orders \in [Ids -> Row \cup {NoRow}]
    /\ call \in [Ids -> Calls]
    /\ pc \in [Ids -> Places]
    /\ canceled \in [Ids -> BOOLEAN]
    /\ expired \in [Ids -> BOOLEAN]
    /\ wire \in [Ids -> WireStates]
    /\ answer \in [Ids -> Answer]
    /\ faults \in SUBSET Faults

\* service.go, ExecuteTrade: the insert is the gate for concurrent requests on any replica.
\* Two calls whose requests share the intent or the tenant's key are never both between the
\* reservation and its settlement, whatever is polled, lost, canceled or crashes.
ExclusiveDispatch ==
    \A r, s \in Ids :
        /\ r # s
        /\ pc[r] \in Dispatching \cup Recording \cup {"release"}
        /\ pc[s] \in Dispatching \cup Recording \cup {"release"}
        => ~Conflict(call[r], call[s])

\* The broker's answer reached the call, which goes on to report it to its caller.
Acknowledged(r) == pc[r] \in Recording \/ answer[r] = Success(r)

\* service.go, ExecuteTrade and reserveOrder: of all the orders placed for one intent, or for
\* one key of a tenant, at most one is ever acknowledged, even when its row could not be written.
OneAcknowledgedOrder ==
    \A r, s \in Ids :
        Acknowledged(r) /\ Acknowledged(s) /\ Conflict(call[r], call[s]) => r = s

\* service.go, reserveOrder: an OK names an order that the broker did accept and that was placed
\* for the same intent or the same key of the tenant, never a PENDING row without an order.
AnswerIsReal ==
    \A r \in Ids :
        answer[r].code = "OK" =>
            \E o \in Ids : /\ answer[r].order = o
                           /\ wire[o] \in Accepted
                           /\ Conflict(call[o], call[r])

\* service.go, ExecuteTrade: a caller that was told of a failure never owns a recorded order, so
\* the fills of that order cannot be booked for a trade its caller believes has failed.
FailureRecordsNothing ==
    \A r \in Ids :
        /\ answer[r].code \notin {"none", "OK"}
        /\ orders[r] # NoRow
        => orders[r].status = "PENDING" /\ orders[r].provider_order_id = NoOrder

\* orders_repo.go, ReleaseOrder, ConfirmOrder and UpdateOrderFill: an order that was recorded is
\* never deleted, never becomes a reservation again and never changes its broker order.
RecordedOrdersStay ==
    [][\A r \in Ids :
          orders[r] # NoRow /\ orders[r].status # "PENDING" =>
              /\ orders'[r] # NoRow
              /\ orders'[r].status # "PENDING"
              /\ orders'[r].provider_order_id = orders[r].provider_order_id]_vars

\* service.go, ExecuteTrade: when the broker accepts two orders for one intent or one key, the
\* caller of one of them was answered Unavailable, because the broker's reply was lost.  Crashes,
\* database errors, polling and takeovers of released reservations alone never cause it.
SecondOrderIsReported ==
    \A r, s \in Ids :
        /\ r # s /\ Conflict(call[r], call[s])
        /\ wire[r] \in Accepted /\ wire[s] \in Accepted
        => "Unavailable" \in {answer[r].code, answer[s].code}

\* docs/INTEGRATION_GUIDE.md:71, "exactly one broker order placement": the broker never accepts
\* two orders for one intent.
OnePlacement ==
    \A r, s \in Ids :
        wire[r] \in Accepted /\ wire[s] \in Accepted /\ SameIntent(call[r], call[s]) => r = s

\* service.go:44, "so a caller disconnect cannot strand a PENDING row": every reservation belongs
\* to a call that is still running and will settle it, unless the database fails or the pod dies.
NoStrandedReservation ==
    ~DBFaults /\ ~Crashes =>
        \A r \in Ids :
            orders[r] # NoRow /\ orders[r].status = "PENDING" =>
                pc[r] \in Dispatching \cup {"confirm", "release"}

\* service.go, reserveOrder and binance/client.go's HTTP timeout: every call that arrives is
\* answered, although duplicates wait for each other and the broker may stay silent.  Only one that
\* is past its broker order may hang, in the settlement, while its caller is there: the calls that
\* wait for it are answered even then.
EveryCallEnds == \A r \in Ids : (pc[r] \in Live) ~> (pc[r] \in Ended \/ MayHang(r))

\* service.go, ExecuteTrade: a reservation is recorded or released in the end, so that the
\* duplicates that wait for it get an order or a turn of their own: a broker that does not answer
\* is no reason to keep it.
ReservationSettles ==
    \A r \in Ids :
        (faults \subseteq {"reply"} /\ orders[r] # NoRow /\ orders[r].status = "PENDING")
            ~> (orders[r] = NoRow \/ orders[r].status # "PENDING")

\* The gate of IdempotencyGate in terms of rows and program counters.
gateOf == [r \in Ids |->
              IF orders[r] # NoRow
              THEN IF orders[r].status = "PENDING" THEN "held" ELSE "recorded"
              ELSE IF pc[r] \in {"idle"} \cup Waiting THEN "new" ELSE "over"]

toldOf == [r \in Ids |-> answer[r].order]

Gate == INSTANCE IdempotencyGate WITH gate <- gateOf, told <- toldOf

\* service.go, ExecuteTrade with all its faults implements the idempotency gate.
ImplementsGate == Gate!GateSpec
=============================================================================

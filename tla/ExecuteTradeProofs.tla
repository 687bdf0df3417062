------------------------- MODULE ExecuteTradeProofs -------------------------
(***************************************************************************)
(* Proofs about ExecuteTrade, for any number of calls, any requests and    *)
(* any combination of faults.                                              *)
(***************************************************************************)
EXTENDS ExecuteTrade, TLAPS

-----------------------------------------------------------------------------
(* The statements of the table map tables to tables. *)

Table == [Ids -> Row \cup {NoRow}]

\* ReserveOrder adds one PENDING row or nothing.
LEMMA ReserveOrderType ==
    ASSUME NEW t \in Table, NEW r \in Ids, NEW c \in Call
    PROVE  ReserveOrder(t, r, c) \in Table
BY DEF Table, ReserveOrder, PendingRow, Call, Row, Statuses

\* ConfirmOrder rewrites two columns of one row or nothing.
LEMMA ConfirmOrderType ==
    ASSUME NEW t \in Table, NEW r \in Ids, NEW s \in RecordedStatuses
    PROVE  ConfirmOrder(t, r, r, s) \in Table
BY NullsAreDistinct DEF Table, ConfirmOrder, Row, Statuses

\* ReleaseOrder deletes one row or nothing.
LEMMA ReleaseOrderType ==
    ASSUME NEW t \in Table, NEW r \in Ids
    PROVE  ReleaseOrder(t, r) \in Table
BY DEF Table, ReleaseOrder

\* UpdateOrderFill rewrites the status of rows that exist.
LEMMA UpdateOrderFillType ==
    ASSUME NEW t \in Table, NEW r \in Ids, NEW s \in RecordedStatuses
    PROVE  UpdateOrderFill(t, r, s) \in Table
BY NullsAreDistinct
   DEF Table, UpdateOrderFill, GetOrderByProviderOrderID, RowsOf, Row, Statuses

-----------------------------------------------------------------------------
(* Type correctness. *)

\* The initial states have the shape of the state.
LEMMA TypeInit == Init => TypeOK
BY FaultSetsAssumption DEF Init, TypeOK, Places, WireStates, NoAnswer, Answer, Codes

\* Every step of ExecuteTrade and of its surroundings keeps the shape of the state.
LEMMA TypePreserved == TypeOK /\ [Next]_vars => TypeOK'
<1> SUFFICES ASSUME TypeOK, [Next]_vars PROVE TypeOK'
  OBVIOUS
<1> USE CallsAssumption, ReplyStatusesAssumption DEF Goto, Keep, Return
<1> DEFINE Shape == /\ orders' \in Table
                    /\ call' \in [Ids -> Calls]
                    /\ pc' \in [Ids -> Places]
                    /\ canceled' \in [Ids -> BOOLEAN]
                    /\ expired' \in [Ids -> BOOLEAN]
                    /\ wire' \in [Ids -> WireStates]
                    /\ answer' \in [Ids -> Answer]
                    /\ faults' \in SUBSET Faults
<1>0. /\ orders \in Table
      /\ call \in [Ids -> Calls]
      /\ pc \in [Ids -> Places]
      /\ canceled \in [Ids -> BOOLEAN]
      /\ expired \in [Ids -> BOOLEAN]
      /\ wire \in [Ids -> WireStates]
      /\ answer \in [Ids -> Answer]
      /\ faults \in SUBSET Faults
  BY DEF TypeOK, Table
<1>a. \A code \in Codes : Error(code) \in Answer
  BY DEF Error, Answer
<1>b. \A id \in Ids \cup {NoOrder} : Success(id) \in Answer
  BY DEF Success, Answer, Codes
<1>s. ASSUME NEW r \in Ids, Step(r) PROVE Shape
  <2>0. faults' = faults
    BY <1>s DEF Step
  <2>1. CASE Reserve(r)
    BY <2>1, <2>0, <1>0, ReserveOrderType DEF Reserve, Places, Live, Waiting, Dispatching
  <2>2. CASE ReserveFails(r)
    BY <2>2, <2>0, <1>0, <1>a, ReserveOrderType DEF ReserveFails, Places, Ended, Codes
  <2>3. CASE LookupByIntent(r)
    BY <2>3, <2>0, <1>0, <1>b, NullsAreDistinct
    DEF LookupByIntent, UseExisting, GetOrderByIntentID, RowsOf, Table, Row, Places, Live, Waiting, Ended
  <2>4. CASE LookupByKey(r)
    BY <2>4, <2>0, <1>0, <1>b, NullsAreDistinct
    DEF LookupByKey, UseExisting, GetOrderByIdempotencyKey, RowsOf, Table, Row, Places, Live, Waiting, Ended
  <2>5. CASE LookupFails(r)
    BY <2>5, <2>0, <1>0, <1>a DEF LookupFails, Places, Ended, Codes
  <2>6. CASE Wait(r)
    BY <2>6, <2>0, <1>0, <1>a DEF Wait, Places, Live, Waiting, Ended, Codes
  <2>7. CASE GetCredentials(r)
    BY <2>7, <2>0, <1>0, <1>a DEF GetCredentials, Places, Live, Dispatching, Codes
  <2>8. CASE DecryptCredentials(r)
    BY <2>8, <2>0, <1>0, <1>a DEF DecryptCredentials, Places, Live, Dispatching, Codes
  <2>9. CASE PlaceMarketOrder(r)
    BY <2>9, <2>0, <1>0, <1>a DEF PlaceMarketOrder, Places, Live, Dispatching, WireStates, Codes
  <2>10. CASE ReceiveReply(r)
    BY <2>10, <2>0, <1>0, <1>a DEF ReceiveReply, Places, Live, Recording, Codes
  <2>11. CASE ReplyLost(r)
    BY <2>11, <2>0, <1>0, <1>a DEF ReplyLost, Places, Live, Codes
  <2>12. CASE Confirm(r)
    BY <2>12, <2>0, <1>0, ConfirmOrderType DEF Confirm, Places, Live, Recording
  <2>13. CASE Settle(r)
    BY <2>13, <2>0, <1>0, <1>b, UpdateOrderFillType DEF Settle, Places, Ended, RecordedStatuses
  <2>14. CASE Release(r)
    BY <2>14, <2>0, <1>0, ReleaseOrderType DEF Release, Places, Ended
  <2> QED
    BY <1>s, <2>1, <2>2, <2>3, <2>4, <2>5, <2>6, <2>7, <2>8, <2>9, <2>10, <2>11, <2>12, <2>13, <2>14
    DEF Step
<1>c. ASSUME NEW r \in Ids, Caller(r) PROVE Shape
  BY <1>c, <1>0, <1>a
  DEF Caller, Arrive, RejectInvalid, Disconnect, Places, Live, Waiting, Ended, Codes
<1>d. ASSUME NEW r \in Ids, Broker(r) PROVE Shape
  <2>0. faults' = faults
    BY <1>d DEF Broker
  <2>1. CASE WebhookFill(r)
    BY <2>1, <2>0, <1>0, UpdateOrderFillType DEF WebhookFill, RecordedStatuses
  <2>2. CASE BrokerAccepts(r) \/ BrokerRejects(r) \/ BrokerCloses(r)
    BY <2>2, <2>0, <1>0 DEF BrokerAccepts, BrokerRejects, BrokerCloses, WireStates, Accepted
  <2> QED
    BY <1>d, <2>1, <2>2 DEF Broker
<1>e. ASSUME NEW r \in Ids, Expire(r) \/ Crash(r) PROVE Shape
  BY <1>e, <1>0 DEF Expire, Crash, Places, Ended
<1>f. CASE Finished \/ UNCHANGED vars
  BY <1>f, <1>0 DEF Finished, vars, TypeOK, Table
<1> QED
  BY <1>s, <1>c, <1>d, <1>e, <1>f DEF Next, TypeOK, Table

\* Spec keeps the type invariant, for any constants.
THEOREM TypeCorrect == Spec => []TypeOK
BY TypeInit, TypePreserved, PTL DEF Spec

-----------------------------------------------------------------------------
(* The inductive invariant. *)

\* Between the reservation and the end of the call.
Held == Dispatching \cup Recording \cup {"release"}

\* The row of a call carries the request of that call.
OwnRow(r) == orders[r] # NoRow =>
    /\ orders[r].trade_intent_id = call[r].trade_intent_id
    /\ orders[r].tenant_id = call[r].tenant_id
    /\ orders[r].idempotency_key = call[r].idempotency_key

\* A row is a reservation without an order, or it records the order of its own call.
RowState(r) == orders[r] # NoRow =>
    \/ orders[r].status = "PENDING" /\ orders[r].provider_order_id = NoOrder
    \/ /\ orders[r].status # "PENDING"
       /\ orders[r].provider_order_id = r
       /\ wire[r] \in Accepted
       /\ answer[r] \in {NoAnswer, Success(r)}

\* A call that has not reserved has done nothing yet.
Fresh(r) == pc[r] \in {"idle"} \cup Waiting =>
    orders[r] = NoRow /\ wire[r] = "none" /\ answer[r] = NoAnswer

\* A call keeps its row PENDING until it settles it.
Holds(r) ==
    /\ pc[r] \in Held => orders[r] # NoRow
    /\ pc[r] \in Dispatching \cup {"confirm", "release"} => orders[r].status = "PENDING"

\* What a call knows about its order at each place.
Knows(r) ==
    /\ pc[r] \in {"credentials", "decrypt", "dispatch"} => wire[r] = "none"
    /\ pc[r] \in Recording => wire[r] \in Accepted
    /\ pc[r] \in Dispatching \cup Recording => answer[r] = NoAnswer
    /\ pc[r] = "release" => answer[r].code \notin {"none", "OK"} /\ answer[r].order = NoOrder

\* An order that was sent outlives its reservation only behind an Unavailable.
Reported(r) ==
    wire[r] # "none" /\ (pc[r] = "release" \/ orders[r] = NoRow) => answer[r].code = "Unavailable"

\* A successful answer is backed by a row if it names the call's own order, and is always real.
Backed(r) ==
    /\ answer[r] = Success(r) => orders[r] # NoRow
    /\ answer[r].code = "OK" => \E o \in Ids : /\ answer[r].order = o
                                               /\ wire[o] \in Accepted
                                               /\ Conflict(call[o], call[r])

CallInv(r) == /\ OwnRow(r) /\ RowState(r) /\ Fresh(r) /\ Holds(r)
              /\ Knows(r) /\ Reported(r) /\ Backed(r)

\* The unique constraints, on the requests behind the rows.
Unique == \A r, s \in Ids :
    r # s /\ orders[r] # NoRow /\ orders[s] # NoRow => ~Conflict(call[r], call[s])

IInv == TypeOK /\ Unique /\ \A r \in Ids : CallInv(r)

\* A step that leaves a call, its row, its order and its answer alone leaves its invariant alone:
\* the broker never takes an acceptance back.
LEMMA Frame ==
    ASSUME NEW q \in Ids, CallInv(q), UNCHANGED call,
           orders'[q] = orders[q], pc'[q] = pc[q], wire'[q] = wire[q], answer'[q] = answer[q],
           \A o \in Ids : wire[o] \in Accepted => wire'[o] \in Accepted
    PROVE  CallInv(q)'
<1>1. OwnRow(q)' /\ RowState(q)' /\ Fresh(q)' /\ Holds(q)' /\ Knows(q)' /\ Reported(q)'
  BY DEF CallInv, OwnRow, RowState, Fresh, Holds, Knows, Reported
<1>2. Backed(q)'
  BY DEF CallInv, Backed
<1> QED
  BY <1>1, <1>2 DEF CallInv

\* UpdateOrderFill reaches at most the row of the call that placed the order, once it is recorded.
LEMMA FillTouchesOwnRow ==
    ASSUME IInv, NEW r \in Ids, NEW s \in {"PARTIAL", "FILLED"},
           orders' = UpdateOrderFill(orders, r, s)
    PROVE  /\ \A q \in Ids \ {r} : orders'[q] = orders[q]
           /\ \/ orders'[r] = orders[r]
              \/ /\ orders[r] # NoRow /\ orders[r].status # "PENDING"
                 /\ orders'[r] = [orders[r] EXCEPT !.status = s]
<1>1. \A q \in Ids : orders[q] # NoRow =>
          \/ orders[q].status = "PENDING" /\ orders[q].provider_order_id = NoOrder
          \/ orders[q].status # "PENDING" /\ orders[q].provider_order_id = q
  BY DEF IInv, CallInv, RowState
<1>2. \A q \in Ids : orders[q] # NoRow /\ orders[q].provider_order_id = r
                         => q = r /\ orders[q].status # "PENDING"
  BY <1>1, NullsAreDistinct
<1>3. \A q \in Ids : orders'[q] =
          IF orders[q] # NoRow /\ orders[q].provider_order_id = r
          THEN [orders[q] EXCEPT !.status = s] ELSE orders[q]
  BY DEF UpdateOrderFill, GetOrderByProviderOrderID, RowsOf
<1> QED
  BY <1>2, <1>3

\* The steps of a call that do not write the table.
LEMMA LocalStep ==
    ASSUME IInv, NEW r \in Ids,
           \/ LookupFails(r) \/ Wait(r) \/ GetCredentials(r) \/ DecryptCredentials(r)
           \/ PlaceMarketOrder(r) \/ ReceiveReply(r) \/ ReplyLost(r)
    PROVE  Unique' /\ \A q \in Ids : CallInv(q)'
<1> USE DEF Goto, Return
<1>0. TypeOK /\ Unique /\ \A q \in Ids : CallInv(q)
  BY DEF IInv
<1>1. CASE LookupFails(r)
  <2>1. \A q \in Ids \ {r} : CallInv(q)'
    BY <1>1, <1>0, Frame DEF LookupFails, TypeOK
  <2>2. CallInv(r)'
    BY <1>1, <1>0 DEF LookupFails, TypeOK, CallInv,
       OwnRow, RowState, Fresh, Holds, Knows, Reported, Backed,
       Waiting, Dispatching, Recording, Held, Accepted, Error, Success, NoAnswer
  <2>3. Unique'
    BY <1>1, <1>0 DEF LookupFails, Unique
  <2> QED
    BY <2>1, <2>2, <2>3
<1>2. CASE Wait(r)
  <2>1. \A q \in Ids \ {r} : CallInv(q)'
    BY <1>2, <1>0, Frame DEF Wait, Keep, TypeOK
  <2>2. CallInv(r)'
    BY <1>2, <1>0 DEF Wait, Keep, TypeOK, CallInv,
       OwnRow, RowState, Fresh, Holds, Knows, Reported, Backed,
       Waiting, Dispatching, Recording, Held, Accepted, Error, Success, NoAnswer
  <2>3. Unique'
    BY <1>2, <1>0 DEF Wait, Keep, Unique
  <2> QED
    BY <2>1, <2>2, <2>3
<1>3. CASE GetCredentials(r)
  <2>1. \A q \in Ids \ {r} : CallInv(q)'
    BY <1>3, <1>0, Frame DEF GetCredentials, Keep, TypeOK
  <2>2. CallInv(r)'
    BY <1>3, <1>0 DEF GetCredentials, Keep, TypeOK, CallInv,
       OwnRow, RowState, Fresh, Holds, Knows, Reported, Backed,
       Waiting, Dispatching, Recording, Held, Accepted, Error, Success, NoAnswer
  <2>3. Unique'
    BY <1>3, <1>0 DEF GetCredentials, Keep, Unique
  <2> QED
    BY <2>1, <2>2, <2>3
<1>4. CASE DecryptCredentials(r)
  <2>1. \A q \in Ids \ {r} : CallInv(q)'
    BY <1>4, <1>0, Frame DEF DecryptCredentials, Keep, TypeOK
  <2>2. CallInv(r)'
    BY <1>4, <1>0 DEF DecryptCredentials, Keep, TypeOK, CallInv,
       OwnRow, RowState, Fresh, Holds, Knows, Reported, Backed,
       Waiting, Dispatching, Recording, Held, Accepted, Error, Success, NoAnswer
  <2>3. Unique'
    BY <1>4, <1>0 DEF DecryptCredentials, Keep, Unique
  <2> QED
    BY <2>1, <2>2, <2>3
<1>5. CASE PlaceMarketOrder(r)
  <2>0. wire[r] = "none"
    BY <1>5, <1>0 DEF PlaceMarketOrder, CallInv, Knows
  <2>1. \A q \in Ids \ {r} : CallInv(q)'
    <3>1. \A o \in Ids : wire[o] \in Accepted => wire'[o] \in Accepted
      BY <1>5, <1>0, <2>0 DEF PlaceMarketOrder, Accepted, TypeOK
    <3> QED
      BY <1>5, <1>0, <3>1, Frame DEF PlaceMarketOrder, Keep, TypeOK
  <2>2. CallInv(r)'
    BY <1>5, <1>0 DEF PlaceMarketOrder, Keep, TypeOK, CallInv,
       OwnRow, RowState, Fresh, Holds, Knows, Reported, Backed,
       Waiting, Dispatching, Recording, Held, Accepted, Error, Success, NoAnswer
  <2>3. Unique'
    BY <1>5, <1>0 DEF PlaceMarketOrder, Keep, Unique
  <2> QED
    BY <2>1, <2>2, <2>3
<1>6. CASE ReceiveReply(r)
  <2>1. \A q \in Ids \ {r} : CallInv(q)'
    BY <1>6, <1>0, Frame DEF ReceiveReply, Keep, TypeOK
  <2>2. CallInv(r)'
    BY <1>6, <1>0 DEF ReceiveReply, Keep, TypeOK, CallInv,
       OwnRow, RowState, Fresh, Holds, Knows, Reported, Backed,
       Waiting, Dispatching, Recording, Held, Accepted, Error, Success, NoAnswer
  <2>3. Unique'
    BY <1>6, <1>0 DEF ReceiveReply, Keep, Unique
  <2> QED
    BY <2>1, <2>2, <2>3
<1>7. CASE ReplyLost(r)
  <2>1. \A q \in Ids \ {r} : CallInv(q)'
    BY <1>7, <1>0, Frame DEF ReplyLost, TypeOK
  <2>2. CallInv(r)'
    BY <1>7, <1>0 DEF ReplyLost, TypeOK, CallInv,
       OwnRow, RowState, Fresh, Holds, Knows, Reported, Backed,
       Waiting, Dispatching, Recording, Held, Accepted, Error, Success, NoAnswer
  <2>3. Unique'
    BY <1>7, <1>0 DEF ReplyLost, Unique
  <2> QED
    BY <2>1, <2>2, <2>3
<1> QED
  BY <1>1, <1>2, <1>3, <1>4, <1>5, <1>6, <1>7

\* A duplicate answers with the order of a recorded row that its request conflicts with.
LEMMA LookupStep ==
    ASSUME IInv, NEW r \in Ids, LookupByIntent(r) \/ LookupByKey(r)
    PROVE  Unique' /\ \A q \in Ids : CallInv(q)'
<1> USE DEF Goto, Return, Keep
<1>0. TypeOK /\ Unique /\ \A q \in Ids : CallInv(q)
  BY DEF IInv
<1>1. /\ pc[r] \in {"byIntent", "byKey"}
      /\ UNCHANGED <<orders, call, wire>>
      /\ \/ /\ pc' \in {[pc EXCEPT ![r] = "byKey"], [pc EXCEPT ![r] = "wait"]}
            /\ answer' = answer
         \/ \E id \in Ids :
               /\ orders[id] # NoRow /\ orders[id].status # "PENDING"
               /\ Conflict(orders[id], call[r])
               /\ pc' = [pc EXCEPT ![r] = "done"]
               /\ answer' = [answer EXCEPT ![r] = Success(orders[id].provider_order_id)]
  <2>1. CASE LookupByIntent(r)
    BY <2>1 DEF LookupByIntent, UseExisting, GetOrderByIntentID, RowsOf, Conflict
  <2>2. CASE LookupByKey(r)
    BY <2>2 DEF LookupByKey, UseExisting, GetOrderByIdempotencyKey, RowsOf, Conflict
  <2> QED
    BY <2>1, <2>2
<1>2. \A q \in Ids \ {r} : CallInv(q)'
  BY <1>0, <1>1, Frame DEF TypeOK
<1>3. Unique'
  BY <1>0, <1>1 DEF Unique
<1>4. CallInv(r)'
  <2>1. CASE pc' \in {[pc EXCEPT ![r] = "byKey"], [pc EXCEPT ![r] = "wait"]} /\ answer' = answer
    BY <2>1, <1>0, <1>1 DEF TypeOK, CallInv,
       OwnRow, RowState, Fresh, Holds, Knows, Reported, Backed,
       Waiting, Dispatching, Recording, Held, Accepted, Error, Success, NoAnswer
  <2>2. ASSUME NEW id \in Ids,
               orders[id] # NoRow, orders[id].status # "PENDING",
               Conflict(orders[id], call[r]),
               pc' = [pc EXCEPT ![r] = "done"],
               answer' = [answer EXCEPT ![r] = Success(orders[id].provider_order_id)]
        PROVE  CallInv(r)'
    <3>1. orders[id].provider_order_id = id /\ wire[id] \in Accepted
      BY <2>2, <1>0 DEF CallInv, RowState
    <3>2. Conflict(call[id], call[r])
      BY <2>2, <1>0 DEF CallInv, OwnRow, Conflict, SameIntent, SameKey
    <3>3. id # r
      BY <2>2, <1>0, <1>1 DEF CallInv, Fresh, Waiting
    <3>4. answer'[r] = Success(id) /\ pc'[r] = "done"
      BY <2>2, <3>1, <1>0 DEF TypeOK
    <3>5. orders[r] = NoRow /\ wire[r] = "none"
      BY <1>0, <1>1 DEF CallInv, Fresh, Waiting
    <3>6. Backed(r)'
      BY <1>1, <3>1, <3>2, <3>3, <3>4 DEF Backed, Success
    <3>7. OwnRow(r)' /\ RowState(r)' /\ Fresh(r)' /\ Holds(r)' /\ Knows(r)' /\ Reported(r)'
      BY <1>1, <3>4, <3>5 DEF OwnRow, RowState, Fresh, Holds, Knows, Reported,
         Held, Waiting, Dispatching, Recording
    <3> QED
      BY <3>6, <3>7 DEF CallInv
  <2> QED
    BY <1>1, <2>1, <2>2
<1> QED
  BY <1>2, <1>3, <1>4

\* The insert adds a row only where no conflicting row is.
LEMMA ReserveStep ==
    ASSUME IInv, NEW r \in Ids, Reserve(r) \/ ReserveFails(r)
    PROVE  Unique' /\ \A q \in Ids : CallInv(q)'
<1> USE DEF Goto, Return
<1>0. TypeOK /\ Unique /\ \A q \in Ids : CallInv(q)
  BY DEF IInv
<1>1. /\ pc[r] = "reserve"
      /\ UNCHANGED <<call, wire>>
      /\ \/ orders' = orders
         \/ Reservable(orders, call[r]) /\ orders' = [orders EXCEPT ![r] = PendingRow(call[r])]
      /\ \/ /\ pc' = [pc EXCEPT ![r] = "credentials"]
            /\ Reservable(orders, call[r]) /\ orders' = [orders EXCEPT ![r] = PendingRow(call[r])]
            /\ answer' = answer
         \/ /\ pc' = [pc EXCEPT ![r] = "byIntent"]
            /\ orders' = orders
            /\ answer' = answer
         \/ /\ pc' = [pc EXCEPT ![r] = "done"]
            /\ answer' = [answer EXCEPT ![r] = Error("Internal")]
  BY DEF Reserve, ReserveFails, ReserveOrder
<1>2. orders[r] = NoRow /\ wire[r] = "none" /\ answer[r] = NoAnswer
  BY <1>0, <1>1 DEF CallInv, Fresh, Waiting
<1>3. \A q \in Ids \ {r} : CallInv(q)'
  BY <1>0, <1>1, Frame DEF TypeOK
<1>4. PendingRow(call[r]) # NoRow
  BY <1>0, NullsAreDistinct, CallsAssumption DEF PendingRow, TypeOK, Row, Call, Statuses
<1>5. CallInv(r)'
  BY <1>0, <1>1, <1>2, <1>4 DEF TypeOK, PendingRow, CallInv,
       OwnRow, RowState, Fresh, Holds, Knows, Reported, Backed,
       Waiting, Dispatching, Recording, Held, Accepted, Error, Success, NoAnswer
<1>6. Unique'
  <2>1. CASE orders' = orders
    BY <2>1, <1>0, <1>1 DEF Unique
  <2>2. CASE Reservable(orders, call[r]) /\ orders' = [orders EXCEPT ![r] = PendingRow(call[r])]
    <3>1. \A q \in Ids : orders[q] # NoRow => ~Conflict(call[q], call[r]) /\ ~Conflict(call[r], call[q])
      BY <2>2, <1>0 DEF Reservable, RowsOf, CallInv, OwnRow, Conflict, SameIntent, SameKey
    <3>2. \A q \in Ids \ {r} : orders'[q] = orders[q]
      BY <2>2, <1>0 DEF TypeOK
    <3> QED
      BY <3>1, <3>2, <1>0, <1>1 DEF Unique
  <2> QED
    BY <1>1, <2>1, <2>2
<1> QED
  BY <1>3, <1>5, <1>6

\* Confirm, Settle and Release write the row of their own call and no other.
LEMMA SettlingStep ==
    ASSUME IInv, NEW r \in Ids, Confirm(r) \/ Settle(r) \/ Release(r)
    PROVE  Unique' /\ \A q \in Ids : CallInv(q)'
<1> USE DEF Goto, Return
<1>0. TypeOK /\ Unique /\ \A q \in Ids : CallInv(q)
  BY DEF IInv
<1>1. CASE Confirm(r)
  <2>1. /\ orders[r] # NoRow /\ orders[r].status = "PENDING"
        /\ wire[r] \in Accepted /\ answer[r] = NoAnswer
        /\ orders[r] \in Row
    BY <1>1, <1>0 DEF Confirm, TypeOK, CallInv, Holds, Knows, Held, Recording
  <2>2. \/ orders' = orders
        \/ \E s \in RecordedStatuses :
              orders' = [orders EXCEPT ![r].provider_order_id = r, ![r].status = s]
    BY <1>1, <2>1, ReplyStatusesAssumption DEF Confirm, ConfirmOrder
  <2>3. \/ orders' = orders
        \/ \E s \in RecordedStatuses :
              orders' = [orders EXCEPT ![r] =
                            [orders[r] EXCEPT !.provider_order_id = r, !.status = s]]
    BY <2>2, <1>0, <2>1 DEF TypeOK, Row
  <2>4. \A q \in Ids \ {r} : CallInv(q)'
    BY <1>1, <1>0, <2>3, Frame DEF Confirm, TypeOK
  <2>5. pc'[r] = "settle" /\ UNCHANGED <<call, wire, answer>>
    BY <1>1, <1>0 DEF Confirm, TypeOK
  <2>6. CallInv(r)'
    <3>1. CASE orders' = orders
      BY <3>1, <1>0, <2>1, <2>5 DEF CallInv,
         OwnRow, RowState, Fresh, Holds, Knows, Reported, Backed,
         Waiting, Dispatching, Recording, Held, Accepted, Error, Success, NoAnswer
    <3>2. ASSUME NEW s \in RecordedStatuses,
                 orders' = [orders EXCEPT ![r] =
                               [orders[r] EXCEPT !.provider_order_id = r, !.status = s]]
          PROVE  CallInv(r)'
      <4>1. orders'[r] = [orders[r] EXCEPT !.provider_order_id = r, !.status = s]
        BY <3>2, <1>0 DEF TypeOK
      <4>2. orders'[r] \in Row
        BY <4>1, <2>1 DEF Row, Statuses
      <4>3. /\ orders'[r].provider_order_id = r
            /\ orders'[r].status = s
            /\ orders'[r].trade_intent_id = orders[r].trade_intent_id
            /\ orders'[r].tenant_id = orders[r].tenant_id
            /\ orders'[r].idempotency_key = orders[r].idempotency_key
        BY <4>1, <2>1 DEF Row
      <4>4. orders'[r] # NoRow /\ s # "PENDING"
        BY <4>2, NullsAreDistinct DEF RecordedStatuses
      <4> QED
        BY <1>0, <2>1, <2>5, <4>3, <4>4 DEF CallInv,
         OwnRow, RowState, Fresh, Holds, Knows, Reported, Backed,
         Waiting, Dispatching, Recording, Held, Accepted, Error, Success, NoAnswer
    <3> QED
      BY <2>3, <3>1, <3>2
  <2>7. Unique'
    BY <1>1, <1>0, <2>1, <2>3 DEF Confirm, Unique, TypeOK
  <2> QED
    BY <2>4, <2>6, <2>7
<1>2. CASE Settle(r)
  <2>1. orders[r] # NoRow /\ wire[r] \in Accepted /\ answer[r] = NoAnswer /\ orders[r] \in Row
    BY <1>2, <1>0 DEF Settle, TypeOK, CallInv, Holds, Knows, Held, Recording
  <2>2. /\ \A q \in Ids \ {r} : orders'[q] = orders[q]
        /\ \/ orders'[r] = orders[r]
           \/ /\ orders[r].status # "PENDING"
              /\ \E s \in {"PARTIAL", "FILLED"} : orders'[r] = [orders[r] EXCEPT !.status = s]
    BY <1>2, FillTouchesOwnRow DEF Settle
  <2>3. \A q \in Ids \ {r} : CallInv(q)'
    BY <1>2, <1>0, <2>2, Frame DEF Settle, TypeOK
  <2>4. orders'[r] # NoRow
    BY <2>1, <2>2, NullsAreDistinct DEF Row, Statuses, RecordedStatuses
  <2>5. Conflict(call[r], call[r])
    BY DEF Conflict, SameIntent
  <2>6. /\ orders'[r].provider_order_id = orders[r].provider_order_id
        /\ orders'[r].trade_intent_id = orders[r].trade_intent_id
        /\ orders'[r].tenant_id = orders[r].tenant_id
        /\ orders'[r].idempotency_key = orders[r].idempotency_key
        /\ orders'[r].status = "PENDING" <=> orders[r].status = "PENDING"
    BY <2>1, <2>2 DEF Row
  <2>7. pc'[r] = "done" /\ answer'[r] = Success(r)
    BY <1>2, <1>0 DEF Settle, TypeOK
  <2>8. CallInv(r)'
    BY <1>2, <1>0, <2>1, <2>4, <2>5, <2>6, <2>7 DEF Settle, CallInv,
       OwnRow, RowState, Fresh, Holds, Knows, Reported, Backed,
       Waiting, Dispatching, Recording, Held, Accepted, Error, Success, NoAnswer
  <2>9. Unique'
    BY <1>2, <1>0, <2>1, <2>2 DEF Settle, Unique
  <2> QED
    BY <2>3, <2>8, <2>9
<1>3. CASE Release(r)
  <2>1. \/ orders' = orders
        \/ orders' = [orders EXCEPT ![r] = NoRow]
    BY <1>3 DEF Release, ReleaseOrder
  <2>2. \A q \in Ids \ {r} : CallInv(q)'
    BY <1>3, <1>0, <2>1, Frame DEF Release, TypeOK
  <2>3. CallInv(r)'
    BY <1>3, <1>0, <2>1 DEF Release, TypeOK, CallInv,
       OwnRow, RowState, Fresh, Holds, Knows, Reported, Backed,
       Waiting, Dispatching, Recording, Held, Accepted, Error, Success, NoAnswer
  <2>4. Unique'
    BY <1>3, <1>0, <2>1 DEF Release, Unique, TypeOK
  <2> QED
    BY <2>2, <2>3, <2>4
<1> QED
  BY <1>1, <1>2, <1>3

\* Callers, time, crashes and the broker.
LEMMA SurroundingStep ==
    ASSUME IInv, NEW r \in Ids, Caller(r) \/ Broker(r) \/ Expire(r) \/ Crash(r)
    PROVE  Unique' /\ \A q \in Ids : CallInv(q)'
<1> USE DEF Goto, Return
<1>0. TypeOK /\ Unique /\ \A q \in Ids : CallInv(q)
  BY DEF IInv
<1>1. CASE Arrive(r) \/ RejectInvalid(r) \/ Crash(r)
  <2>1. \A q \in Ids \ {r} : CallInv(q)'
    BY <1>1, <1>0, Frame DEF Arrive, RejectInvalid, Crash, TypeOK
  <2>2. CallInv(r)'
    BY <1>1, <1>0 DEF Arrive, RejectInvalid, Crash, TypeOK, CallInv,
       OwnRow, RowState, Fresh, Holds, Knows, Reported, Backed,
       Waiting, Dispatching, Recording, Held, Accepted, Error, Success, NoAnswer
  <2>3. Unique'
    BY <1>1, <1>0 DEF Arrive, RejectInvalid, Crash, Unique
  <2> QED
    BY <2>1, <2>2, <2>3
<1>2. CASE Disconnect(r) \/ Expire(r)
  <2>1. \A q \in Ids : CallInv(q)'
    BY <1>2, <1>0, Frame DEF Disconnect, Expire
  <2>2. Unique'
    BY <1>2, <1>0 DEF Disconnect, Expire, Unique
  <2> QED
    BY <2>1, <2>2
<1>3. CASE BrokerAccepts(r) \/ BrokerRejects(r) \/ BrokerCloses(r)
  <2>1. \A o \in Ids : wire[o] \in Accepted => wire'[o] \in Accepted
    BY <1>3, <1>0 DEF BrokerAccepts, BrokerRejects, BrokerCloses, Accepted, TypeOK
  <2>2. \A q \in Ids \ {r} : CallInv(q)'
    BY <1>3, <1>0, <2>1, Frame DEF BrokerAccepts, BrokerRejects, BrokerCloses, TypeOK
  <2>3. wire[r] # "none" /\ wire'[r] # "none"
    BY <1>3, <1>0 DEF BrokerAccepts, BrokerRejects, BrokerCloses, TypeOK
  <2>4. /\ UNCHANGED <<orders, call, pc, answer>>
    BY <1>3 DEF BrokerAccepts, BrokerRejects, BrokerCloses
  <2>5. Backed(r)'
    BY <1>0, <2>1, <2>4 DEF CallInv, Backed
  <2>6. OwnRow(r)' /\ RowState(r)' /\ Fresh(r)' /\ Holds(r)' /\ Knows(r)' /\ Reported(r)'
    BY <1>0, <2>1, <2>3, <2>4 DEF CallInv, OwnRow, RowState, Fresh, Holds, Knows, Reported
  <2>7. Unique'
    BY <1>0, <2>4 DEF Unique
  <2> QED
    BY <2>2, <2>5, <2>6, <2>7 DEF CallInv
<1>4. CASE WebhookFill(r)
  <2>1. /\ \A q \in Ids \ {r} : orders'[q] = orders[q]
        /\ \/ orders'[r] = orders[r]
           \/ /\ orders[r] # NoRow /\ orders[r].status # "PENDING"
              /\ \E s \in {"PARTIAL", "FILLED"} : orders'[r] = [orders[r] EXCEPT !.status = s]
    BY <1>4, FillTouchesOwnRow DEF WebhookFill
  <2>2. UNCHANGED <<call, pc, wire, answer>>
    BY <1>4 DEF WebhookFill
  <2>3. \A q \in Ids \ {r} : CallInv(q)'
    BY <1>0, <2>1, <2>2, Frame
  <2>4. CASE orders'[r] = orders[r]
    <3>1. CallInv(r)'
      BY <2>4, <1>0, <2>2, Frame
    <3>2. Unique'
      BY <2>4, <1>0, <2>1, <2>2 DEF Unique
    <3> QED
      BY <2>3, <3>1, <3>2
  <2>5. ASSUME NEW s \in {"PARTIAL", "FILLED"}, orders[r] # NoRow, orders[r].status # "PENDING",
               orders'[r] = [orders[r] EXCEPT !.status = s]
        PROVE  Unique' /\ \A q \in Ids : CallInv(q)'
    <3>1. orders[r] \in Row
      BY <2>5, <1>0 DEF TypeOK
    <3>2. orders'[r] # NoRow
      BY <2>5, <3>1, NullsAreDistinct DEF Row, Statuses, RecordedStatuses
    <3>3. /\ orders'[r].provider_order_id = orders[r].provider_order_id
          /\ orders'[r].trade_intent_id = orders[r].trade_intent_id
          /\ orders'[r].tenant_id = orders[r].tenant_id
          /\ orders'[r].idempotency_key = orders[r].idempotency_key
          /\ orders'[r].status # "PENDING"
      BY <2>5, <3>1 DEF Row
    <3>4. CallInv(r)'
      BY <2>2, <2>5, <1>0, <3>2, <3>3 DEF CallInv,
         OwnRow, RowState, Fresh, Holds, Knows, Reported, Backed
    <3>5. Unique'
      BY <1>0, <2>1, <2>2, <2>5 DEF Unique
    <3> QED
      BY <2>3, <3>4, <3>5
  <2> QED
    BY <2>1, <2>4, <2>5
<1> QED
  BY <1>1, <1>2, <1>3, <1>4 DEF Caller, Broker

\* IInv is inductive.
LEMMA IInvPreserved == IInv /\ [Next]_vars => IInv'
<1> SUFFICES ASSUME IInv, [Next]_vars PROVE IInv'
  OBVIOUS
<1>1. TypeOK'
  BY TypePreserved DEF IInv
<1>2. ASSUME NEW r \in Ids, Step(r) PROVE Unique' /\ \A q \in Ids : CallInv(q)'
  BY <1>2, LocalStep, LookupStep, ReserveStep, SettlingStep DEF Step
<1>3. CASE UNCHANGED vars
  <2>1. \A q \in Ids : CallInv(q)'
    BY <1>3, Frame DEF IInv, vars
  <2> QED
    BY <1>1, <1>3, <2>1 DEF IInv, Unique, vars
<1> QED
  BY <1>1, <1>2, <1>3, SurroundingStep DEF IInv, Next, Finished

\* The invariant holds throughout.
THEOREM Invariance == Spec => []IInv
<1>1. Init => Unique /\ \A r \in Ids : CallInv(r)
  BY DEF Init, Unique, CallInv, OwnRow, RowState, Fresh, Holds, Knows, Reported, Backed,
       Waiting, Dispatching, Recording, Held, Accepted, Success, NoAnswer
<1> QED
  BY <1>1, TypeInit, IInvPreserved, PTL DEF Spec, IInv

-----------------------------------------------------------------------------
(* What the invariant gives. *)

\* No two conflicting calls are ever between their reservation and its settlement.
THEOREM DispatchIsExclusive == Spec => []ExclusiveDispatch
<1>1. IInv => ExclusiveDispatch
  BY DEF IInv, Unique, CallInv, Holds, Held, ExclusiveDispatch
<1> QED
  BY <1>1, Invariance, PTL

\* Of the orders placed for one intent or one key, at most one is acknowledged.
THEOREM AcknowledgedOnce == Spec => []OneAcknowledgedOrder
<1>1. IInv => \A r \in Ids : Acknowledged(r) => orders[r] # NoRow
  BY DEF IInv, CallInv, Holds, Held, Backed, Acknowledged
<1>2. IInv => OneAcknowledgedOrder
  BY <1>1 DEF IInv, Unique, OneAcknowledgedOrder
<1> QED
  BY <1>2, Invariance, PTL

\* An OK always names an order that the broker accepted for a conflicting request.
THEOREM AnswersAreReal == Spec => []AnswerIsReal
<1>1. IInv => AnswerIsReal
  BY DEF IInv, CallInv, Backed, AnswerIsReal
<1> QED
  BY <1>1, Invariance, PTL

\* A call that answered with an error has no recorded row.
THEOREM FailuresRecordNothing == Spec => []FailureRecordsNothing
<1>1. IInv => FailureRecordsNothing
  BY DEF IInv, CallInv, RowState, FailureRecordsNothing, NoAnswer, Success
<1> QED
  BY <1>1, Invariance, PTL

\* A second order at the broker exists only behind an Unavailable.
THEOREM SecondOrdersAreReported == Spec => []SecondOrderIsReported
<1>1. IInv => \A r \in Ids : wire[r] \in Accepted /\ orders[r] = NoRow
                                 => answer[r].code = "Unavailable"
  BY DEF IInv, CallInv, Reported, Accepted
<1>2. IInv => SecondOrderIsReported
  BY <1>1 DEF IInv, Unique, SecondOrderIsReported
<1> QED
  BY <1>2, Invariance, PTL

\* No step deletes a recorded order, returns it to PENDING or gives it another broker order.
THEOREM RecordedOrdersAreKept == Spec => RecordedOrdersStay
<1> DEFINE Stays == \A r \in Ids :
              orders[r] # NoRow /\ orders[r].status # "PENDING" =>
                  /\ orders'[r] # NoRow
                  /\ orders'[r].status # "PENDING"
                  /\ orders'[r].provider_order_id = orders[r].provider_order_id
<1>1. ASSUME IInv, IInv', [Next]_vars PROVE Stays
  <2>1. SUFFICES ASSUME NEW q \in Ids, orders[q] # NoRow, orders[q].status # "PENDING"
                 PROVE  \/ orders'[q] = orders[q]
                        \/ \E s \in {"PARTIAL", "FILLED"} :
                              orders'[q] = [orders[q] EXCEPT !.status = s]
    <3>1. \A q \in Ids : orders[q] # NoRow => orders[q] \in Row
      BY <1>1 DEF IInv, TypeOK
    <3>2. \A q \in Ids, s \in {"PARTIAL", "FILLED"} : orders[q] # NoRow =>
             /\ [orders[q] EXCEPT !.status = s] \in Row
             /\ [orders[q] EXCEPT !.status = s].status # "PENDING"
             /\ [orders[q] EXCEPT !.status = s].provider_order_id = orders[q].provider_order_id
      BY <3>1 DEF Row, Statuses, RecordedStatuses
    <3> QED
      BY <3>2, NullsAreDistinct
  <2>2. ASSUME NEW r \in Ids, Settle(r) \/ WebhookFill(r)
        PROVE  \/ orders'[q] = orders[q]
               \/ \E s \in {"PARTIAL", "FILLED"} : orders'[q] = [orders[q] EXCEPT !.status = s]
    BY <1>1, <2>2, FillTouchesOwnRow DEF Settle, WebhookFill
  <2>3. ASSUME NEW r \in Ids, Reserve(r) \/ ReserveFails(r) PROVE orders'[q] = orders[q]
    <3>1. orders[r] = NoRow
      BY <1>1, <2>3 DEF IInv, CallInv, Fresh, Waiting, Reserve, ReserveFails
    <3> QED
      BY <1>1, <2>1, <2>3, <3>1 DEF Reserve, ReserveFails, ReserveOrder, IInv, TypeOK
  <2>4. ASSUME NEW r \in Ids, Confirm(r) \/ Release(r) PROVE orders'[q] = orders[q]
    BY <1>1, <2>1, <2>4 DEF Confirm, Release, ConfirmOrder, ReleaseOrder, IInv, TypeOK
  <2>5. ASSUME NEW r \in Ids,
               \/ LookupByIntent(r) \/ LookupByKey(r) \/ LookupFails(r) \/ Wait(r)
               \/ GetCredentials(r) \/ DecryptCredentials(r) \/ PlaceMarketOrder(r)
               \/ ReceiveReply(r) \/ ReplyLost(r) \/ Caller(r) \/ Expire(r) \/ Crash(r)
               \/ BrokerAccepts(r) \/ BrokerRejects(r) \/ BrokerCloses(r)
        PROVE  orders' = orders
    BY <2>5 DEF LookupByIntent, LookupByKey, LookupFails, Wait, GetCredentials, DecryptCredentials,
       PlaceMarketOrder, ReceiveReply, ReplyLost, Caller, Arrive, RejectInvalid, Disconnect, Expire,
       Crash, BrokerAccepts, BrokerRejects, BrokerCloses
  <2>6. CASE Finished \/ UNCHANGED vars
    BY <2>6 DEF Finished, vars
  <2> QED
    BY <1>1, <2>2, <2>3, <2>4, <2>5, <2>6 DEF Next, Step, Broker
<1>2. IInv /\ IInv' /\ [Next]_vars => [Stays]_vars
  BY <1>1
<1> QED
  BY <1>2, Invariance, PTL DEF Spec, RecordedOrdersStay

-----------------------------------------------------------------------------
(* What holds as long as some of the faults do not happen. *)

\* Without disconnects no request context is ever done.
NeverCanceled == ~Disconnects => \A r \in Ids : ~canceled[r]

\* An order that the broker may still take, or has taken, has its row: nobody else can reserve.
Kept(r) ==
    /\ wire[r] \in {"sent"} \cup Accepted => orders[r] # NoRow
    /\ wire[r] = "sent" => pc[r] \in {"awaiting", "dead"}
    /\ pc[r] = "release" => wire[r] \in {"none", "rejected"}

AllKept == ~LostReplies /\ ~Disconnects => \A r \in Ids : Kept(r)

\* The set of faults never changes, and only Disconnect cancels a request.
LEMMA FaultsAreFixed ==
    ASSUME TypeOK, NeverCanceled, [Next]_vars
    PROVE  faults' = faults /\ NeverCanceled'
<1>1. ASSUME NEW r \in Ids, Step(r) PROVE faults' = faults /\ canceled' = canceled
  BY <1>1 DEF Step, Reserve, ReserveFails, LookupByIntent, LookupByKey, LookupFails, Wait,
     GetCredentials, DecryptCredentials, PlaceMarketOrder, ReceiveReply, ReplyLost,
     Confirm, Settle, Release
<1>2. ASSUME NEW r \in Ids, Arrive(r) \/ RejectInvalid(r) \/ Broker(r) \/ Expire(r) \/ Crash(r)
      PROVE  canceled' = canceled
  BY <1>2 DEF Arrive, RejectInvalid, Broker, BrokerAccepts, BrokerRejects, BrokerCloses,
     WebhookFill, Expire, Crash
<1>3. faults' = faults
  BY <1>1 DEF Next, Caller, Broker, Expire, Crash, Finished, vars
<1>4. canceled' = canceled \/ Disconnects
  BY <1>1, <1>2 DEF Next, Caller, Disconnect, Finished, vars
<1> QED
  BY <1>3, <1>4 DEF NeverCanceled, Disconnects

\* The steps that neither send an order nor delete a row, and do not enter the release.
LEMMA KeptFrame ==
    ASSUME NEW q \in Ids, Kept(q), wire'[q] = wire[q], orders[q] # NoRow => orders'[q] # NoRow,
           pc'[q] = pc[q] \/ (wire[q] # "sent" /\ pc'[q] # "release")
    PROVE  Kept(q)'
BY DEF Kept

\* As long as every answer of the broker arrives, a placed order keeps its row.
LEMMA KeptPreserved ==
    ASSUME IInv, IInv', NeverCanceled, AllKept, [Next]_vars
    PROVE  AllKept'
<1>0. SUFFICES ASSUME ~LostReplies, ~Disconnects PROVE \A q \in Ids : Kept(q)'
  BY FaultsAreFixed DEF AllKept, IInv, LostReplies, Disconnects
<1>1. /\ \A q \in Ids : Kept(q) /\ ~canceled[q] /\ CallInv(q)
      /\ TypeOK
  BY <1>0 DEF AllKept, NeverCanceled, IInv
<1>2. ASSUME NEW r \in Ids, Reserve(r) \/ ReserveFails(r) PROVE \A q \in Ids : Kept(q)'
  <2>1. wire[r] = "none"
    BY <1>1, <1>2 DEF CallInv, Fresh, Waiting, Reserve, ReserveFails
  <2>2. wire' = wire /\ \A q \in Ids \ {r} : pc'[q] = pc[q] /\ orders'[q] = orders[q]
    BY <1>1, <1>2 DEF Reserve, ReserveFails, ReserveOrder, Goto, TypeOK
  <2>3. pc'[r] # "release"
    BY <1>1, <1>2 DEF Reserve, ReserveFails, Goto, TypeOK
  <2> QED
    BY <1>1, <2>1, <2>2, <2>3 DEF Kept, Accepted
<1>3. ASSUME NEW r \in Ids,
             \/ LookupByIntent(r) \/ LookupByKey(r) \/ LookupFails(r) \/ Wait(r)
             \/ GetCredentials(r) \/ DecryptCredentials(r)
      PROVE  \A q \in Ids : Kept(q)'
  <2>1. wire[r] = "none"
    BY <1>1, <1>3 DEF CallInv, Fresh, Knows, Waiting, LookupByIntent, LookupByKey, LookupFails, Wait,
       GetCredentials, DecryptCredentials
  <2>2. wire' = wire /\ orders' = orders
    BY <1>3 DEF LookupByIntent, LookupByKey, LookupFails, Wait, GetCredentials, DecryptCredentials
  <2>3. \A q \in Ids \ {r} : pc'[q] = pc[q]
    BY <1>1, <1>3 DEF LookupByIntent, LookupByKey, LookupFails, Wait, GetCredentials,
       DecryptCredentials, UseExisting, Goto, TypeOK
  <2> QED
    BY <1>1, <2>1, <2>2, <2>3 DEF Kept, Accepted
<1>4. ASSUME NEW r \in Ids, PlaceMarketOrder(r) PROVE \A q \in Ids : Kept(q)'
  <2>1. wire[r] = "none" /\ orders[r] # NoRow
    BY <1>1, <1>4 DEF CallInv, Knows, Holds, Held, Dispatching, PlaceMarketOrder
  <2> QED
    BY <1>1, <1>4, <2>1 DEF Kept, Accepted, PlaceMarketOrder, Goto, TypeOK
<1>5. ASSUME NEW r \in Ids, ReceiveReply(r) PROVE \A q \in Ids : Kept(q)'
  BY <1>1, <1>5 DEF Kept, Accepted, ReceiveReply, Goto, TypeOK
<1>6. ASSUME NEW r \in Ids, ReplyLost(r) PROVE FALSE
  BY <1>0, <1>1, <1>6 DEF ReplyLost
<1>7. ASSUME NEW r \in Ids, Confirm(r) \/ Settle(r) \/ WebhookFill(r)
      PROVE  \A q \in Ids : Kept(q)'
  <2>1. wire' = wire /\ \A q \in Ids : orders[q] # NoRow => orders'[q] # NoRow
    <3>1. CASE Confirm(r)
      <4>1. \A q \in Ids : q # r => orders'[q] = orders[q]
        BY <1>1, <3>1 DEF Confirm, ConfirmOrder, TypeOK
      <4>2. orders'[r] # NoRow
        BY <3>1, <1>1, IInv' DEF IInv, CallInv, Holds, Held, Recording, Confirm, Goto, TypeOK
      <4> QED
        BY <3>1, <4>1, <4>2 DEF Confirm
    <3>2. CASE Settle(r) \/ WebhookFill(r)
      BY <3>2, <1>1, FillTouchesOwnRow, NullsAreDistinct
      DEF Settle, WebhookFill, IInv, TypeOK, Row, Statuses, RecordedStatuses
    <3> QED
      BY <1>7, <3>1, <3>2
  <2>2. \A q \in Ids : pc'[q] = pc[q] \/ (wire[q] # "sent" /\ pc'[q] # "release")
    BY <1>1, <1>7 DEF Confirm, Settle, WebhookFill, Goto, TypeOK, CallInv, Knows, Recording, Accepted
  <2> QED
    BY <1>1, <2>1, <2>2, KeptFrame
<1>8. ASSUME NEW r \in Ids, Release(r) PROVE \A q \in Ids : Kept(q)'
  BY <1>1, <1>8 DEF Kept, Accepted, Release, ReleaseOrder, Goto, TypeOK
<1>9. ASSUME NEW r \in Ids, Caller(r) \/ Expire(r) \/ Crash(r) PROVE \A q \in Ids : Kept(q)'
  BY <1>1, <1>9 DEF Kept, Caller, Arrive, RejectInvalid, Disconnect, Expire, Crash, Goto, TypeOK,
     CallInv, Fresh
<1>10. ASSUME NEW r \in Ids, BrokerAccepts(r) \/ BrokerRejects(r) \/ BrokerCloses(r)
       PROVE  \A q \in Ids : Kept(q)'
  BY <1>1, <1>10 DEF Kept, Accepted, BrokerAccepts, BrokerRejects, BrokerCloses, TypeOK
<1>11. CASE Finished \/ UNCHANGED vars
  BY <1>1, <1>11 DEF Kept, Finished, vars
<1> QED
  BY <1>2, <1>3, <1>4, <1>5, <1>6, <1>7, <1>8, <1>9, <1>10, <1>11 DEF Next, Step, Broker

\* docs/INTEGRATION_GUIDE.md:71, "exactly one broker order placement", under its real condition:
\* as long as the broker's answers arrive and no caller disconnects, the broker accepts at most one
\* order per intent, although the database fails and pods die at any point.
THEOREM PlacedOnceIfAnswered == Spec => [](~LostReplies /\ ~Disconnects => OnePlacement)
<1>1. Init => NeverCanceled /\ AllKept
  BY DEF Init, NeverCanceled, AllKept, Kept, Accepted
<1>2. IInv /\ IInv' /\ NeverCanceled /\ AllKept /\ [Next]_vars => NeverCanceled' /\ AllKept'
  BY KeptPreserved, FaultsAreFixed DEF IInv
<1>3. IInv /\ AllKept => (~LostReplies /\ ~Disconnects => OnePlacement)
  BY DEF IInv, AllKept, Kept, Unique, Conflict, OnePlacement
<1> QED
  BY <1>1, <1>2, <1>3, Invariance, PTL DEF Spec

-----------------------------------------------------------------------------
(* Reservations without a fault that could leave them behind. *)

Attended(r) == orders[r] # NoRow /\ orders[r].status = "PENDING" =>
                   pc[r] \in Dispatching \cup {"confirm", "release"}

Calm == ~DBFaults /\ ~Crashes /\ ~Disconnects

AllAttended == Calm => \A r \in Ids : Attended(r)

\* Without database errors, crashes and disconnects, a call leaves its reservation only by
\* recording the order or deleting the row.
LEMMA AttendedPreserved ==
    ASSUME IInv, IInv', NeverCanceled, AllAttended, [Next]_vars
    PROVE  AllAttended'
<1>0. SUFFICES ASSUME Calm PROVE \A q \in Ids : Attended(q)'
  BY FaultsAreFixed DEF AllAttended, IInv, Calm, DBFaults, Crashes, Disconnects
<1>1. /\ \A q \in Ids : Attended(q) /\ ~canceled[q] /\ CallInv(q) /\ CallInv(q)'
      /\ TypeOK /\ TypeOK' /\ ~DBFaults /\ ~Crashes /\ ~Disconnects
  BY <1>0 DEF AllAttended, NeverCanceled, Calm, IInv
<1> USE DEF Goto, Dispatching
<1>2. ASSUME NEW r \in Ids, Reserve(r) PROVE \A q \in Ids : Attended(q)'
  BY <1>1, <1>2 DEF Attended, Reserve, ReserveOrder, TypeOK, CallInv, Fresh, Waiting
<1>3. ASSUME NEW r \in Ids, ReserveFails(r) \/ LookupFails(r) \/ Crash(r) \/ Disconnect(r) PROVE FALSE
  BY <1>1, <1>3 DEF ReserveFails, LookupFails, Crash, Disconnect, RequestDBMayFail
<1>4. ASSUME NEW r \in Ids, LookupByIntent(r) \/ LookupByKey(r) \/ Wait(r)
      PROVE  \A q \in Ids : Attended(q)'
  BY <1>1, <1>4 DEF Attended, LookupByIntent, LookupByKey, Wait, UseExisting, TypeOK, CallInv, Fresh,
     Waiting
<1>5. ASSUME NEW r \in Ids,
             \/ GetCredentials(r) \/ DecryptCredentials(r) \/ PlaceMarketOrder(r)
             \/ ReceiveReply(r) \/ ReplyLost(r)
      PROVE  \A q \in Ids : Attended(q)'
  BY <1>1, <1>5 DEF Attended, GetCredentials, DecryptCredentials, PlaceMarketOrder, ReceiveReply,
     ReplyLost, TypeOK
<1>6. ASSUME NEW r \in Ids, Confirm(r) PROVE \A q \in Ids : Attended(q)'
  <2>1. orders'[r] # NoRow => orders'[r].status # "PENDING"
    <3>1. PICK s \in ReplyStatuses : orders' = ConfirmOrder(orders, r, r, s)
      BY <1>1, <1>6 DEF Confirm
    <3>2. orders[r] # NoRow /\ orders[r].status = "PENDING" /\ orders[r] \in Row
      BY <1>1, <1>6 DEF Confirm, CallInv, Holds, Held, Recording, TypeOK
    <3>3. orders'[r].status = s
      BY <1>1, <3>1, <3>2 DEF ConfirmOrder, TypeOK, Row
    <3> QED
      BY <3>1, <3>3, ReplyStatusesAssumption DEF RecordedStatuses
  <2>2. \A q \in Ids \ {r} : orders'[q] = orders[q] /\ pc'[q] = pc[q]
    BY <1>1, <1>6 DEF Confirm, ConfirmOrder, TypeOK
  <2> QED
    BY <1>1, <2>1, <2>2 DEF Attended
<1>7. ASSUME NEW r \in Ids, Settle(r) \/ WebhookFill(r) PROVE \A q \in Ids : Attended(q)'
  <2>1. \A q \in Ids : q # r => orders'[q] = orders[q] /\ pc'[q] = pc[q]
    BY <1>1, <1>7, FillTouchesOwnRow DEF Settle, WebhookFill, TypeOK
  <2>2. \/ orders'[r] = orders[r]
        \/ \E s \in {"PARTIAL", "FILLED"} :
              orders[r] \in Row /\ orders'[r] = [orders[r] EXCEPT !.status = s]
    BY <1>1, <1>7, FillTouchesOwnRow DEF Settle, WebhookFill, TypeOK
  <2>3. orders'[r] = orders[r] \/ orders'[r].status # "PENDING"
    BY <2>2 DEF Row
  <2>4. pc'[r] = pc[r] \/ pc[r] = "settle"
    BY <1>1, <1>7 DEF Settle, WebhookFill
  <2> QED
    BY <1>1, <2>1, <2>3, <2>4 DEF Attended
<1>8. ASSUME NEW r \in Ids, Release(r) PROVE \A q \in Ids : Attended(q)'
  BY <1>1, <1>8 DEF Attended, Release, ReleaseOrder, TypeOK, CallInv, Holds, Held
<1>9. ASSUME NEW r \in Ids,
             \/ Arrive(r) \/ RejectInvalid(r) \/ Expire(r)
             \/ BrokerAccepts(r) \/ BrokerRejects(r) \/ BrokerCloses(r)
      PROVE  \A q \in Ids : Attended(q)'
  BY <1>1, <1>9 DEF Attended, Arrive, RejectInvalid, Expire, BrokerAccepts, BrokerRejects,
     BrokerCloses, TypeOK, CallInv, Fresh
<1>10. CASE Finished \/ UNCHANGED vars
  BY <1>1, <1>10 DEF Attended, Finished, vars
<1> QED
  BY <1>2, <1>3, <1>4, <1>5, <1>6, <1>7, <1>8, <1>9, <1>10 DEF Next, Step, Caller, Broker

\* service.go:44: a reservation always has a call that will settle it, as long as the database
\* answers, no pod dies and no caller disconnects; lost broker replies do not matter.
THEOREM ReservationsAreAttended == Spec => [](~Disconnects => NoStrandedReservation)
<1>1. Init => NeverCanceled /\ AllAttended
  BY DEF Init, NeverCanceled, AllAttended, Attended
<1>2. IInv /\ IInv' /\ NeverCanceled /\ AllAttended /\ [Next]_vars
          => NeverCanceled' /\ AllAttended'
  BY AttendedPreserved, FaultsAreFixed DEF IInv
<1>3. AllAttended => (~Disconnects => NoStrandedReservation)
  BY DEF AllAttended, Calm, Attended, NoStrandedReservation
<1> QED
  BY <1>1, <1>2, <1>3, Invariance, PTL DEF Spec
=============================================================================

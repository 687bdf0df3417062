----------------------------- MODULE GateProofs -----------------------------
(***************************************************************************)
(* ExecuteTrade implements IdempotencyGate: every step of a call, of the   *)
(* broker or of the webhook is a step of the gate or leaves it alone.      *)
(***************************************************************************)
EXTENDS ExecuteTradeProofs

-----------------------------------------------------------------------------
(* Refinement. *)

\* How the abstract state of a call follows from its row and its place.
GateState(row, place) ==
    IF row # NoRow
    THEN IF row.status = "PENDING" THEN "held" ELSE "recorded"
    ELSE IF place \in {"idle"} \cup Waiting THEN "new" ELSE "over"

\* A step of one call changes the abstract state of that call alone.
LEMMA GateFrame ==
    ASSUME NEW r \in Ids, UNCHANGED call, TypeOK,
           \A q \in Ids \ {r} : /\ orders'[q] = orders[q]
                                /\ pc'[q] = pc[q]
                                /\ answer'[q] = answer[q]
    PROVE  /\ gateOf' = [gateOf EXCEPT ![r] = GateState(orders'[r], pc'[r])]
           /\ toldOf' = [toldOf EXCEPT ![r] = answer'[r].order]
           /\ gateOf[r] = GateState(orders[r], pc[r])
           /\ toldOf[r] = answer[r].order
<1>1. gateOf' = [q \in Ids |-> GateState(orders'[q], pc'[q])]
  BY DEF gateOf, GateState
<1>2. gateOf = [q \in Ids |-> GateState(orders[q], pc[q])]
  BY DEF gateOf, GateState
<1>3. toldOf' = [q \in Ids |-> answer'[q].order]
  BY DEF toldOf
<1>4. toldOf = [q \in Ids |-> answer[q].order]
  BY DEF toldOf
<1> QED
  BY <1>1, <1>2, <1>3, <1>4

\* A step of one call that keeps its abstract state is a stutter of the gate.
LEMMA GateStutter ==
    ASSUME NEW r \in Ids, UNCHANGED call, TypeOK,
           \A q \in Ids \ {r} : /\ orders'[q] = orders[q]
                                /\ pc'[q] = pc[q]
                                /\ answer'[q] = answer[q],
           GateState(orders'[r], pc'[r]) = GateState(orders[r], pc[r]),
           answer'[r].order = answer[r].order
    PROVE  UNCHANGED <<call, gateOf, toldOf>>
<1>1. \A q \in Ids : /\ GateState(orders'[q], pc'[q]) = GateState(orders[q], pc[q])
                     /\ answer'[q].order = answer[q].order
  OBVIOUS
<1>2. gateOf' = gateOf
  BY <1>1 DEF gateOf, GateState
<1>3. toldOf' = toldOf
  BY <1>1 DEF toldOf
<1> QED
  BY <1>2, <1>3

GateStep == Gate!GateNext \/ UNCHANGED Gate!gateVars

\* A call that ends before it reserved leaves the gate, with or without another call's order.
LEMMA LeaveStep ==
    ASSUME IInv, NEW r \in Ids, UNCHANGED call,
           \A q \in Ids \ {r} : /\ orders'[q] = orders[q]
                                /\ pc'[q] = pc[q]
                                /\ answer'[q] = answer[q],
           pc[r] \in {"idle"} \cup Waiting, pc'[r] \in Ended, orders' = orders,
           \/ answer'[r].order = NoOrder
           \/ \E id \in Ids : /\ orders[id] # NoRow /\ orders[id].status # "PENDING"
                              /\ Conflict(orders[id], call[r])
                              /\ answer'[r].order = orders[id].provider_order_id
    PROVE  GateStep
<1>0. TypeOK /\ \A q \in Ids : CallInv(q)
  BY DEF IInv
<1>1. orders[r] = NoRow /\ answer[r] = NoAnswer
  BY <1>0 DEF CallInv, Fresh
<1>2. /\ gateOf' = [gateOf EXCEPT ![r] = GateState(orders'[r], pc'[r])]
      /\ toldOf' = [toldOf EXCEPT ![r] = answer'[r].order]
      /\ gateOf[r] = GateState(orders[r], pc[r])
      /\ toldOf[r] = answer[r].order
  BY <1>0, GateFrame
<1>3. gateOf[r] = "new" /\ gateOf' = [gateOf EXCEPT ![r] = "over"]
  BY <1>1, <1>2 DEF GateState, Waiting, Ended
<1>4. CASE answer'[r].order = NoOrder
  <2>1. toldOf' = toldOf
    BY <1>1, <1>2, <1>4 DEF NoAnswer, toldOf
  <2>2. Gate!Leave(r)
    BY <1>3, <2>1 DEF Gate!Leave
  <2> QED
    BY <2>2 DEF GateStep, Gate!GateNext
<1>5. ASSUME NEW id \in Ids, orders[id] # NoRow, orders[id].status # "PENDING",
             Conflict(orders[id], call[r]), answer'[r].order = orders[id].provider_order_id
      PROVE  GateStep
  <2>1. orders[id].provider_order_id = id
    BY <1>5, <1>0 DEF CallInv, RowState
  <2>2. Conflict(call[id], call[r])
    BY <1>5, <1>0 DEF CallInv, OwnRow, Conflict, SameIntent, SameKey
  <2>3. gateOf[id] = "recorded"
    BY <1>5 DEF gateOf
  <2>4. toldOf' = [toldOf EXCEPT ![r] = id]
    BY <1>2, <1>5, <2>1
  <2>5. Gate!Leave(r)
    BY <1>3, <2>2, <2>3, <2>4 DEF Gate!Leave
  <2> QED
    BY <2>5 DEF GateStep, Gate!GateNext
<1> QED
  BY <1>4, <1>5

\* An insert that commits takes the gate, whether the call hears of it or not.
LEMMA TakeStep ==
    ASSUME IInv, NEW r \in Ids, UNCHANGED call,
           \A q \in Ids \ {r} : pc'[q] = pc[q] /\ answer'[q] = answer[q],
           pc[r] = "reserve", Reservable(orders, call[r]),
           orders' = [orders EXCEPT ![r] = PendingRow(call[r])],
           answer'[r].order = NoOrder
    PROVE  GateStep
<1>0. TypeOK /\ \A q \in Ids : CallInv(q)
  BY DEF IInv
<1>1. orders[r] = NoRow /\ answer[r] = NoAnswer
  BY <1>0 DEF CallInv, Fresh, Waiting
<1>2. PendingRow(call[r]) # NoRow
  BY <1>0, NullsAreDistinct, CallsAssumption DEF PendingRow, TypeOK, Row, Call, Statuses
<1>3. /\ orders'[r] = PendingRow(call[r])
      /\ \A q \in Ids \ {r} : orders'[q] = orders[q]
  BY <1>0 DEF TypeOK
<1>4. /\ gateOf' = [gateOf EXCEPT ![r] = GateState(orders'[r], pc'[r])]
      /\ toldOf' = [toldOf EXCEPT ![r] = answer'[r].order]
      /\ gateOf[r] = GateState(orders[r], pc[r])
      /\ toldOf[r] = answer[r].order
  BY <1>0, <1>3, GateFrame
<1>5. gateOf[r] = "new" /\ gateOf' = [gateOf EXCEPT ![r] = "held"]
  BY <1>1, <1>2, <1>3, <1>4 DEF GateState, Waiting, PendingRow
<1>6. toldOf' = toldOf
  BY <1>1, <1>4 DEF NoAnswer, toldOf
<1>7. \A q \in Ids : gateOf[q] \in {"held", "recorded"} => ~Conflict(call[q], call[r])
  <2>1. \A q \in Ids : gateOf[q] \in {"held", "recorded"} => orders[q] # NoRow
    BY DEF gateOf
  <2> QED
    BY <2>1, <1>0 DEF Reservable, RowsOf, CallInv, OwnRow, Conflict, SameIntent, SameKey
<1>8. Gate!Take(r)
  BY <1>5, <1>6, <1>7 DEF Gate!Take, Gate!Has
<1> QED
  BY <1>8 DEF GateStep, Gate!GateNext

\* A call that holds its row and keeps it PENDING, saying nothing of an order, does not move the gate.
LEMMA HoldStep ==
    ASSUME IInv, NEW r \in Ids, UNCHANGED <<call, orders>>,
           \A q \in Ids \ {r} : pc'[q] = pc[q] /\ answer'[q] = answer[q],
           pc[r] \in Held, answer'[r].order = answer[r].order
    PROVE  GateStep
<1>0. TypeOK /\ CallInv(r)
  BY DEF IInv
<1>1. orders[r] # NoRow
  BY <1>0 DEF CallInv, Holds
<1>2. GateState(orders'[r], pc'[r]) = GateState(orders[r], pc[r])
  BY <1>1 DEF GateState
<1>3. UNCHANGED <<call, gateOf, toldOf>>
  BY <1>0, <1>2, GateStutter
<1> QED
  BY <1>3 DEF GateStep, Gate!gateVars

\* Every step of ExecuteTrade is a step of the gate or a stutter.
LEMMA StepRefines == ASSUME IInv, [Next]_vars PROVE GateStep
<1>0. TypeOK /\ \A q \in Ids : CallInv(q)
  BY DEF IInv
<1> USE DEF Goto, Return, Keep
<1>1. ASSUME NEW r \in Ids, Reserve(r) \/ ReserveFails(r) PROVE GateStep
  <2>0. orders[r] = NoRow /\ answer[r] = NoAnswer
    BY <1>0, <1>1 DEF CallInv, Fresh, Waiting, Reserve, ReserveFails
  <2>1. CASE Reserve(r) /\ Reservable(orders, call[r])
    <3>1. /\ pc[r] = "reserve" /\ UNCHANGED <<call, answer>>
          /\ orders' = [orders EXCEPT ![r] = PendingRow(call[r])]
      BY <2>1 DEF Reserve, ReserveOrder
    <3>2. \A q \in Ids \ {r} : pc'[q] = pc[q] /\ answer'[q] = answer[q]
      BY <2>1, <1>0 DEF Reserve, TypeOK
    <3>3. answer'[r].order = NoOrder
      BY <2>0, <3>1 DEF NoAnswer
    <3> QED
      BY <2>1, <3>1, <3>2, <3>3, TakeStep
  <2>2. CASE Reserve(r) /\ ~Reservable(orders, call[r])
    <3>1. UNCHANGED <<call, gateOf, toldOf>>
      BY <2>0, <2>2, <1>0, GateStutter DEF Reserve, ReserveOrder, TypeOK, GateState, Waiting
    <3> QED
      BY <3>1 DEF GateStep, Gate!gateVars
  <2>3. CASE ReserveFails(r) /\ orders' # orders
    BY <2>3, <1>0, TakeStep DEF ReserveFails, ReserveOrder, TypeOK, Error
  <2>4. CASE ReserveFails(r) /\ orders' = orders
    BY <2>4, <1>0, LeaveStep DEF ReserveFails, TypeOK, Error, Waiting, Ended
  <2> QED
    BY <1>1, <2>1, <2>2, <2>3, <2>4
<1>2. ASSUME NEW r \in Ids, LookupByIntent(r) \/ LookupByKey(r) PROVE GateStep
  <2>1. /\ pc[r] \in {"byIntent", "byKey"}
        /\ UNCHANGED <<orders, call>>
        /\ \/ /\ pc' \in {[pc EXCEPT ![r] = "byKey"], [pc EXCEPT ![r] = "wait"]}
              /\ answer' = answer
           \/ /\ pc' = [pc EXCEPT ![r] = "done"]
              /\ \E id \in Ids :
                   /\ orders[id] # NoRow /\ orders[id].status # "PENDING"
                   /\ Conflict(orders[id], call[r])
                   /\ answer' = [answer EXCEPT ![r] = Success(orders[id].provider_order_id)]
    <3>1. CASE LookupByIntent(r)
      BY <3>1 DEF LookupByIntent, UseExisting, GetOrderByIntentID, RowsOf, Conflict
    <3>2. CASE LookupByKey(r)
      BY <3>2 DEF LookupByKey, UseExisting, GetOrderByIdempotencyKey, RowsOf, Conflict
    <3> QED
      BY <1>2, <3>1, <3>2
  <2>2. CASE /\ pc' \in {[pc EXCEPT ![r] = "byKey"], [pc EXCEPT ![r] = "wait"]}
             /\ answer' = answer
    <3>1. GateState(orders'[r], pc'[r]) = GateState(orders[r], pc[r])
      BY <2>1, <2>2, <1>0 DEF TypeOK, GateState, Waiting
    <3>2. UNCHANGED <<call, gateOf, toldOf>>
      BY <2>1, <2>2, <3>1, <1>0, GateStutter DEF TypeOK
    <3> QED
      BY <3>2 DEF GateStep, Gate!gateVars
  <2>3. CASE /\ pc' = [pc EXCEPT ![r] = "done"]
             /\ \E id \in Ids :
                  /\ orders[id] # NoRow /\ orders[id].status # "PENDING"
                  /\ Conflict(orders[id], call[r])
                  /\ answer' = [answer EXCEPT ![r] = Success(orders[id].provider_order_id)]
    <3>1. \E id \in Ids : /\ orders[id] # NoRow /\ orders[id].status # "PENDING"
                          /\ Conflict(orders[id], call[r])
                          /\ answer'[r].order = orders[id].provider_order_id
      BY <2>3, <1>0 DEF TypeOK, Success
    <3>2. pc'[r] \in Ended /\ pc[r] \in {"idle"} \cup Waiting
      BY <2>1, <2>3, <1>0 DEF TypeOK, Ended, Waiting
    <3>3. \A q \in Ids \ {r} : orders'[q] = orders[q] /\ pc'[q] = pc[q] /\ answer'[q] = answer[q]
      BY <2>1, <2>3, <1>0 DEF TypeOK
    <3> QED
      BY <2>1, <3>1, <3>2, <3>3, LeaveStep
  <2> QED
    BY <2>1, <2>2, <2>3
<1>3. ASSUME NEW r \in Ids, LookupFails(r) \/ RejectInvalid(r) PROVE GateStep
  BY <1>3, <1>0, LeaveStep DEF LookupFails, RejectInvalid, TypeOK, Error, Waiting, Ended
<1>4. ASSUME NEW r \in Ids, Wait(r) \/ Arrive(r) PROVE GateStep
  <2>1. CASE pc'[r] = "done"
    BY <1>4, <2>1, <1>0, LeaveStep DEF Wait, Arrive, TypeOK, Error, Waiting, Ended
  <2>2. CASE pc'[r] # "done"
    <3>1. UNCHANGED <<call, gateOf, toldOf>>
      BY <1>4, <2>2, <1>0, GateStutter DEF Wait, Arrive, TypeOK, GateState, Waiting
    <3> QED
      BY <3>1 DEF GateStep, Gate!gateVars
  <2> QED
    BY <2>1, <2>2
<1>5. ASSUME NEW r \in Ids,
             \/ GetCredentials(r) \/ DecryptCredentials(r) \/ PlaceMarketOrder(r)
             \/ ReceiveReply(r) \/ ReplyLost(r)
      PROVE  GateStep
  <2>1. pc[r] \in Dispatching
    BY <1>5 DEF GetCredentials, DecryptCredentials, PlaceMarketOrder, ReceiveReply, ReplyLost,
       Dispatching
  <2>2. answer[r].order = NoOrder
    BY <2>1, <1>0 DEF CallInv, Knows, NoAnswer
  <2>3. /\ UNCHANGED <<call, orders>>
        /\ \A q \in Ids \ {r} : pc'[q] = pc[q] /\ answer'[q] = answer[q]
    BY <1>5, <1>0 DEF GetCredentials, DecryptCredentials, PlaceMarketOrder, ReceiveReply, ReplyLost,
       TypeOK
  <2>4. answer'[r].order = NoOrder
    BY <1>5, <2>2, <1>0 DEF GetCredentials, DecryptCredentials, PlaceMarketOrder, ReceiveReply,
       ReplyLost, TypeOK, Error
  <2> QED
    BY <2>1, <2>2, <2>3, <2>4, HoldStep DEF Held
<1>6. ASSUME NEW r \in Ids, Confirm(r) PROVE GateStep
  <2>1. CASE orders' = orders
    BY <1>6, <2>1, <1>0, HoldStep DEF Confirm, TypeOK, Held, Recording
  <2>2. CASE orders' # orders
    <3>0. orders[r] # NoRow /\ orders[r].status = "PENDING" /\ orders[r] \in Row
      BY <1>6, <1>0 DEF Confirm, CallInv, Holds, Held, Recording, TypeOK
    <3>1. PICK s \in RecordedStatuses :
             orders' = [orders EXCEPT ![r].provider_order_id = r, ![r].status = s]
      BY <1>6, <2>2, <3>0, ReplyStatusesAssumption DEF Confirm, ConfirmOrder
    <3>2. orders'[r] = [orders[r] EXCEPT !.provider_order_id = r, !.status = s]
      BY <3>0, <3>1, <1>0 DEF TypeOK, Row
    <3>3. orders'[r] \in Row /\ orders'[r].status = s
      BY <3>0, <3>2 DEF Row, Statuses
    <3>4. /\ GateState(orders'[r], pc'[r]) = "recorded"
          /\ GateState(orders[r], pc[r]) = "held"
      BY <3>0, <3>3, NullsAreDistinct DEF GateState, RecordedStatuses
    <3>5. \A q \in Ids \ {r} : orders'[q] = orders[q] /\ pc'[q] = pc[q] /\ answer'[q] = answer[q]
      BY <1>6, <3>1, <1>0 DEF Confirm, TypeOK
    <3>6. UNCHANGED <<call, answer>>
      BY <1>6 DEF Confirm
    <3>7. /\ gateOf' = [gateOf EXCEPT ![r] = "recorded"]
          /\ gateOf[r] = "held"
      BY <1>0, <3>4, <3>5, <3>6, GateFrame
    <3>8. toldOf' = toldOf
      BY <3>6 DEF toldOf
    <3>9. Gate!Record(r)
      BY <3>6, <3>7, <3>8 DEF Gate!Record
    <3> QED
      BY <3>9 DEF GateStep, Gate!GateNext
  <2> QED
    BY <2>1, <2>2
<1>7. ASSUME NEW r \in Ids, Settle(r) PROVE GateStep
  <2>1. orders[r] # NoRow /\ answer[r] = NoAnswer /\ orders[r] \in Row
    BY <1>7, <1>0 DEF Settle, TypeOK, CallInv, Holds, Knows, Held, Recording
  <2>2. /\ \A q \in Ids \ {r} : orders'[q] = orders[q]
        /\ \/ orders'[r] = orders[r]
           \/ /\ orders[r].status # "PENDING"
              /\ \E s \in {"PARTIAL", "FILLED"} : orders'[r] = [orders[r] EXCEPT !.status = s]
    BY <1>7, FillTouchesOwnRow DEF Settle
  <2>3. /\ orders'[r] # NoRow
        /\ orders'[r].status = "PENDING" <=> orders[r].status = "PENDING"
    <3>1. \A s \in {"PARTIAL", "FILLED"} : /\ [orders[r] EXCEPT !.status = s] \in Row
                                           /\ [orders[r] EXCEPT !.status = s].status = s
      BY <2>1 DEF Row, Statuses, RecordedStatuses
    <3> QED
      BY <2>1, <2>2, <3>1, NullsAreDistinct
  <2>4. GateState(orders'[r], pc'[r]) = GateState(orders[r], pc[r])
    BY <2>1, <2>3 DEF GateState
  <2>5. \A q \in Ids \ {r} : orders'[q] = orders[q] /\ pc'[q] = pc[q] /\ answer'[q] = answer[q]
    BY <1>7, <2>2, <1>0 DEF Settle, TypeOK
  <2>6. /\ gateOf' = [gateOf EXCEPT ![r] = gateOf[r]]
        /\ toldOf' = [toldOf EXCEPT ![r] = answer'[r].order]
        /\ toldOf[r] = answer[r].order
        /\ gateOf[r] = GateState(orders[r], pc[r])
    BY <1>7, <1>0, <2>4, <2>5, GateFrame DEF Settle
  <2>7. gateOf' = gateOf
    BY <2>6 DEF gateOf
  <2>8. answer'[r].order = r
    BY <1>7, <1>0 DEF Settle, TypeOK, Success
  <2>9. gateOf[r] \in {"held", "recorded"}
    BY <2>1, <2>6 DEF GateState
  <2>10. /\ toldOf[r] = NoOrder
         /\ toldOf' = [toldOf EXCEPT ![r] = r]
         /\ UNCHANGED call
    <3>1. answer[r].order = NoOrder
      BY <2>1 DEF NoAnswer
    <3>2. UNCHANGED call
      BY <1>7 DEF Settle
    <3> QED
      BY <2>6, <2>8, <3>1, <3>2
  <2>11. Gate!Tell(r)
    BY <2>7, <2>9, <2>10 DEF Gate!Tell, Gate!Has
  <2> QED
    BY <2>11 DEF GateStep, Gate!GateNext
<1>8. ASSUME NEW r \in Ids, Release(r) PROVE GateStep
  <2>1. CASE orders' = orders
    BY <1>8, <2>1, <1>0, HoldStep DEF Release, TypeOK, Held
  <2>2. CASE orders' # orders
    <3>1. orders' = [orders EXCEPT ![r] = NoRow]
      BY <1>8, <2>2 DEF Release, ReleaseOrder
    <3>2. orders'[r] = NoRow /\ pc'[r] = "done"
      BY <1>8, <3>1, <1>0 DEF Release, TypeOK
    <3>3. \A q \in Ids \ {r} : orders'[q] = orders[q] /\ pc'[q] = pc[q] /\ answer'[q] = answer[q]
      BY <1>8, <3>1, <1>0 DEF Release, TypeOK
    <3>4. orders[r] # NoRow /\ orders[r].status = "PENDING"
      BY <1>8, <1>0 DEF Release, CallInv, Holds, Held
    <3>5. answer[r].order = NoOrder
      BY <1>8, <1>0 DEF Release, CallInv, Knows
    <3>6. /\ gateOf' = [gateOf EXCEPT ![r] = "over"]
          /\ gateOf[r] = "held"
          /\ toldOf[r] = answer[r].order
      BY <1>8, <1>0, <3>2, <3>3, <3>4, GateFrame DEF Release, GateState, Waiting
    <3>7. toldOf' = toldOf
      BY <1>8 DEF Release, toldOf
    <3>8. Gate!GiveBack(r)
      BY <1>8, <3>5, <3>6, <3>7 DEF Release, Gate!GiveBack
    <3> QED
      BY <3>8 DEF GateStep, Gate!GateNext
  <2> QED
    BY <2>1, <2>2
<1>9. ASSUME NEW r \in Ids, Crash(r) PROVE GateStep
  <2>1. CASE pc[r] \in Waiting
    BY <1>9, <2>1, <1>0, LeaveStep DEF Crash, TypeOK, Ended, CallInv, Fresh, NoAnswer
  <2>2. CASE pc[r] \in Held
    BY <1>9, <2>2, <1>0, HoldStep DEF Crash, TypeOK
  <2> QED
    BY <1>9, <2>1, <2>2 DEF Crash, Live, Held
<1>10. ASSUME NEW r \in Ids, WebhookFill(r) PROVE GateStep
  <2>1. /\ \A q \in Ids \ {r} : orders'[q] = orders[q]
        /\ \/ orders'[r] = orders[r]
           \/ /\ orders[r] # NoRow /\ orders[r].status # "PENDING"
              /\ \E s \in {"PARTIAL", "FILLED"} : orders'[r] = [orders[r] EXCEPT !.status = s]
    BY <1>10, FillTouchesOwnRow DEF WebhookFill
  <2>2. \A s \in {"PARTIAL", "FILLED"} : orders[r] # NoRow =>
           [orders[r] EXCEPT !.status = s] \in Row /\ [orders[r] EXCEPT !.status = s].status = s
    BY <1>0 DEF TypeOK, Row, Statuses, RecordedStatuses
  <2>3. UNCHANGED <<call, pc, answer>>
    BY <1>10 DEF WebhookFill
  <2>4. GateState(orders'[r], pc'[r]) = GateState(orders[r], pc[r])
    BY <2>1, <2>2, <2>3, NullsAreDistinct DEF GateState
  <2>5. UNCHANGED <<call, gateOf, toldOf>>
    BY <1>0, <2>1, <2>3, <2>4, GateStutter
  <2> QED
    BY <2>5 DEF GateStep, Gate!gateVars
<1>11. ASSUME \/ \E r \in Ids : \/ Disconnect(r) \/ Expire(r) \/ BrokerAccepts(r)
                                \/ BrokerRejects(r) \/ BrokerCloses(r)
              \/ Finished \/ UNCHANGED vars
       PROVE  GateStep
  <2>1. UNCHANGED <<orders, call, pc, answer>>
    BY <1>11 DEF Disconnect, Expire, BrokerAccepts, BrokerRejects, BrokerCloses, Finished, vars
  <2> QED
    BY <2>1 DEF GateStep, Gate!gateVars, gateOf, toldOf
<1> QED
  BY <1>1, <1>2, <1>3, <1>4, <1>5, <1>6, <1>7, <1>8, <1>9, <1>10, <1>11
  DEF Next, Step, Caller, Broker

\* ExecuteTrade, with every fault, implements the idempotency gate.
THEOREM Refinement == Spec => ImplementsGate
<1>1. Init => Gate!GateInit
  BY DEF Init, Gate!GateInit, gateOf, toldOf, NoAnswer
<1>2. IInv /\ [Next]_vars => [Gate!GateNext]_(Gate!gateVars)
  BY StepRefines DEF GateStep
<1> QED
  BY <1>1, <1>2, Invariance, PTL DEF Spec, ImplementsGate, Gate!GateSpec
=============================================================================

----------------------------- MODULE OrdersRepo -----------------------------
(***************************************************************************)
(* The broker_orders table (internal/db/orders_repo.go and the schema in   *)
(* migrations/001_initial_schema.sql) as far as the idempotency gate sees  *)
(* it.  A table is a function from row ids to rows; NoRow marks an id that *)
(* has no row.  Every ExecuteTrade call draws a fresh uuid for its row, so *)
(* the row ids are the calls themselves.  A statement is one operator from *)
(* the table before it to the table after it: PostgreSQL executes each of  *)
(* them atomically and none of them runs in a longer transaction.          *)
(***************************************************************************)

CONSTANTS Ids,       \* row ids: one per ExecuteTrade call
          Intents,   \* trade_intent_id values
          Tenants,   \* tenant_id values
          Keys,      \* idempotency_key values other than ''
          NoKey,     \* the empty idempotency_key ''
          NoRow,     \* there is no row with this id
          NoOrder    \* provider_order_id IS NULL

RecordedStatuses == {"SUBMITTED", "PARTIAL", "FILLED", "CANCELED", "REJECTED"}

Statuses == {"PENDING"} \cup RecordedStatuses

\* What the request says about the trade: the columns the gate compares.
Call == [trade_intent_id : Intents,
         tenant_id       : Tenants,
         idempotency_key : Keys \cup {NoKey}]

\* A broker order is named by the call that placed it.
Row == [trade_intent_id   : Intents,
        tenant_id         : Tenants,
        idempotency_key   : Keys \cup {NoKey},
        status            : Statuses,
        provider_order_id : Ids \cup {NoOrder}]

ASSUME NullsAreDistinct == NoRow \notin Row /\ NoOrder \notin Ids /\ NoKey \notin Keys

SameIntent(a, b) == a.trade_intent_id = b.trade_intent_id

\* The partial unique index ignores rows whose key is ''.
SameKey(a, b) == /\ a.idempotency_key # NoKey
                 /\ a.idempotency_key = b.idempotency_key
                 /\ a.tenant_id = b.tenant_id

\* The two unique constraints of the table, on anything with a Call's columns.
Conflict(a, b) == SameIntent(a, b) \/ SameKey(a, b)

RowsOf(orders) == {id \in Ids : orders[id] # NoRow}

PendingRow(c) == [trade_intent_id   |-> c.trade_intent_id,
                  tenant_id         |-> c.tenant_id,
                  idempotency_key   |-> c.idempotency_key,
                  status            |-> "PENDING",
                  provider_order_id |-> NoOrder]

\* Fault: the partial unique index on (tenant_id, idempotency_key) is missing.
ReservableWithoutKeyIndex(orders, c) ==
    \A id \in RowsOf(orders) : ~SameIntent(orders[id], c)

Reservable(orders, c) == \A id \in RowsOf(orders) : ~Conflict(orders[id], c)

\* INSERT ... ON CONFLICT DO NOTHING
ReserveOrder(orders, id, c) ==
    IF Reservable(orders, c) THEN [orders EXCEPT ![id] = PendingRow(c)] ELSE orders

\* UPDATE ... WHERE id = $5 AND status = 'PENDING'
ConfirmOrder(orders, id, providerOrderID, status) ==
    IF orders[id] # NoRow /\ orders[id].status = "PENDING"
    THEN [orders EXCEPT ![id].provider_order_id = providerOrderID,
                        ![id].status = status]
    ELSE orders

\* DELETE ... WHERE id = $1 AND status = 'PENDING'
ReleaseOrder(orders, id) ==
    IF orders[id] # NoRow /\ orders[id].status = "PENDING"
    THEN [orders EXCEPT ![id] = NoRow]
    ELSE orders

\* SELECT ... WHERE trade_intent_id = $1: the ids of the matching rows.
GetOrderByIntentID(orders, c) ==
    {id \in RowsOf(orders) : SameIntent(orders[id], c)}

\* SELECT ... WHERE tenant_id = $1 AND idempotency_key = $2; only asked for a key other than ''.
GetOrderByIdempotencyKey(orders, c) ==
    {id \in RowsOf(orders) : SameKey(orders[id], c)}

\* SELECT ... WHERE provider = $1 AND provider_order_id = $2; there is one provider.
GetOrderByProviderOrderID(orders, providerOrderID) ==
    {id \in RowsOf(orders) : orders[id].provider_order_id = providerOrderID}

\* Fault: the broker's own status name is stored.
UpdateOrderFillUnmapped(orders, providerOrderID, status) ==
    [id \in Ids |->
        IF id \in GetOrderByProviderOrderID(orders, providerOrderID)
        THEN [orders[id] EXCEPT !.status = "PARTIALLY_FILLED"]
        ELSE orders[id]]

\* UPDATE ... SET status = $1 WHERE provider = $4 AND provider_order_id = $5: the status column.
UpdateOrderFill(orders, providerOrderID, status) ==
    [id \in Ids |->
        IF id \in GetOrderByProviderOrderID(orders, providerOrderID)
        THEN [orders[id] EXCEPT !.status = status]
        ELSE orders[id]]
=============================================================================

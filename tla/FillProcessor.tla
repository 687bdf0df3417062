--------------------------- MODULE FillProcessor ----------------------------
(***************************************************************************)
(* fillProcessor.ProcessFill (internal/worker/fill_processor.go) for one   *)
(* order, called by the webhook handler and by ExecuteTrade.  ProcessFill  *)
(* takes no lock and opens no transaction: it reads the row, settles       *)
(* downstream under an idempotency key made of the new cumulative          *)
(* quantity, and writes back what it computed from the row it read.  Rows, *)
(* keys and holds of different orders never meet, so one order is enough.  *)
(*                                                                         *)
(* The broker appends execution reports; the sender of the webhooks keeps  *)
(* a report until it is answered with a status other than 500.             *)
(***************************************************************************)
EXTENDS Webhook, Sequences, FiniteSetsExt

CONSTANTS Handlers,   \* webhook requests that can be served at once
          Sync,       \* the ExecuteTrade call that placed the order
          Prices,     \* the prices the broker fills at, in units of the last digit that Div keeps
          Digit,      \* units per last digit of average_fill_price
          Target,     \* target_quantity
          Steps,      \* the step sizes of the traded symbols
          MaxReports, \* bound on the reports of the order
          Noise,      \* reports other than fills the broker may send
          Channels,   \* how fills may be reported, see below
          MaxFilled,  \* bound on a filled_quantity that repeated webhooks inflate
          Unordered   \* webhooks are sent at once, in any order

ASSUME TargetAssumption == Target \in Nat \ {0}
\* A quotient by a step has no more digits than Div keeps, so that its rounding cannot reach the next integer.
ASSUME StepsAssumption == Steps \subseteq 1 .. 2 * Scale - 1
ASSUME PricesAssumption == Prices \subseteq Nat \ {0}
ASSUME DigitAssumption == Digit \in Nat \ {0}
ASSUME NoiseAssumption == Noise \subseteq {rep \in Report : Ignored(rep) \/ Malformed(rep)}
ASSUME MaxReportsAssumption == MaxReports \in Nat
ASSUME SyncAssumption == Sync \notin Handlers
ASSUME UnorderedAssumption == Unordered \in BOOLEAN

Workers == Handlers \cup {Sync}

\* Who settles: Ativos; without it Livro, for a BUY or for a SELL; without both nobody.
Routes == {"ativos", "capture", "credit", "none"}

\* "webhook": every fill comes by webhook, and the sender sees every answer.
\* "shuffled": as above, but the webhooks, one after the other, come in any order.
\* "repeat":  as "webhook", but after the row was written the database's acknowledgement, the pod or
\*            the 200 may be lost, and then the report is sent again.
\* "reply":   a fill that precedes the reply to the placement is reported in the reply alone.
\* "both":    such a fill is reported in the reply and by webhook.
ASSUME ChannelsAssumption == Channels \subseteq {"webhook", "shuffled", "repeat", "reply", "both"}
ASSUME MaxFilledAssumption == MaxFilled \in Nat

VARIABLES total,    \* the quantity sent to the broker: target_quantity cut to the step size
          route,    \* the settlement of this order
          channel,  \* how the fills of this order are reported
          broker,   \* what the broker executed, quantity and quote value, and whether it canceled the rest
          reports,  \* the execution reports, oldest first
          pending,  \* the reports the sender still has to deliver
          row,      \* the order's row: status, filled_quantity, average_fill_price
          pc,       \* where each worker is in ProcessFill
          job,      \* the event a worker processes and the report it came from
          seen,     \* the row as the worker read it
          ledger    \* what Ativos or Livro applied

vars == <<total, route, channel, broker, reports, pending, row, pc, job, seen, ledger>>

-----------------------------------------------------------------------------
Row == [status : {"PENDING", "SUBMITTED", "PARTIAL", "FILLED", "CANCELED"}, filled : Nat, avg : Nat]

\* keys: the idempotency keys applied, each given by the cumulative quantity it names (the rest
\* of a key is the order); qty, value: what was settled; released: the rest of the hold is free.
Ledger == [keys : SUBSET Nat, qty : Nat, value : Nat, released : BOOLEAN]

\* report is 0 for the event that ExecuteTrade makes of the broker's reply.
Job == [report : Nat, status : OrderStatuses \cup {"PARTIAL"}, qty : Nat, price : Nat]

NoJob == [report |-> 0, status |-> "NEW", qty |-> 0, price |-> 0]

Places == {"idle", "lookup", "account", "settle", "update", "respond"}

UnrecordedRow == [status |-> "PENDING", filled |-> 0, avg |-> 0]

Init ==
    /\ total \in {TruncateToStepSize(Target, stepSize) : stepSize \in Steps} \ {0}
    /\ route \in Routes
    /\ channel \in Channels
    /\ broker = [qty |-> 0, value |-> 0, canceled |-> FALSE]
    /\ reports = <<>>
    /\ pending = {}
    /\ row = UnrecordedRow
    /\ pc = [w \in Workers |-> "idle"]
    /\ job = [w \in Workers |-> NoJob]
    /\ seen = [w \in Workers |-> UnrecordedRow]
    /\ ledger = [keys |-> {}, qty |-> 0, value |-> 0, released |-> FALSE]

-----------------------------------------------------------------------------
(* The broker and the sender of the webhooks. *)

Emit(rep) ==
    /\ Len(reports) < MaxReports
    /\ reports' = Append(reports, rep)
    /\ pending' = IF channel = "reply" /\ row.status = "PENDING" THEN pending
                  ELSE pending \cup {Len(reports) + 1}
    /\ UNCHANGED <<total, route, channel, row, pc, job, seen, ledger>>

BrokerFills(qty, price) ==
    LET qty2 == broker.qty + qty
        value2 == broker.value + qty * price
    IN  /\ qty2 <= total /\ ~broker.canceled
        /\ broker' = [broker EXCEPT !.qty = qty2, !.value = value2]
        /\ Emit([x |-> "TRADE",
                 X |-> IF qty2 = total THEN "FILLED" ELSE "PARTIALLY_FILLED",
                 l |-> qty, z |-> qty2, L |-> price, Z |-> value2])

\* The broker cancels or expires what is not executed.
BrokerCancels ==
    /\ broker.qty < total /\ ~broker.canceled
    /\ broker' = [broker EXCEPT !.canceled = TRUE]
    /\ Emit([x |-> "CANCELED", X |-> "CANCELED", l |-> 0, z |-> broker.qty, L |-> 0, Z |-> broker.value])

BrokerNotes(rep) == Emit(rep) /\ UNCHANGED broker

-----------------------------------------------------------------------------
(* A worker in ProcessFill. *)

Goto(w, place) == pc' = [pc EXCEPT ![w] = place]

\* Unless webhooks are sent at once, one request is under way; a sender that keeps the order
\* repeats it until it is accepted.
InTurn(n) ==
    \/ Unordered
    \/ /\ \A v \in Handlers : pc[v] = "idle"
       /\ channel = "shuffled" \/ \A m \in pending : n <= m

\* A report reaches the handler; a fill is passed on to ProcessFill.
Deliver(w, n) ==
    /\ pc[w] = "idle"
    /\ InTurn(n)
    /\ ~Ignored(reports[n]) /\ ~Malformed(reports[n])
    /\ Goto(w, "lookup")
    /\ job' = [job EXCEPT ![w] = [report |-> n,
                                  status |-> FillEvent(reports[n]).status,
                                  qty    |-> FillEvent(reports[n]).qty,
                                  price  |-> FillEvent(reports[n]).price]]
    /\ UNCHANGED <<total, route, channel, broker, reports, pending, row, seen, ledger>>

\* 200 for an ignored report, 400 for a malformed one: the sender is done with it.
Dismiss(n) ==
    /\ InTurn(n)
    /\ Ignored(reports[n]) \/ Malformed(reports[n])
    /\ pending' = pending \ {n}
    /\ UNCHANGED <<total, route, channel, broker, reports, row, pc, job, seen, ledger>>

newFilledQty(w) == seen[w].filled + job[w].qty

\* A price as its column keeps it, NUMERIC(28, 4): rounded to the column's last digit.
Stored(price) == RoundedDiv(price, Digit) * Digit

\* Fault: a plain mean of the prices.
newAvgPriceUnweighted(w) ==
    Stored(IF seen[w].filled = 0 THEN job[w].price ELSE RoundedDiv(seen[w].avg + job[w].price, 2))

\* Every price that is written is rounded by the column, the first as it came and a later mean
\* after Div has rounded it already.
newAvgPrice(w) ==
    Stored(IF seen[w].filled = 0
           THEN job[w].price
           ELSE RoundedDiv(seen[w].filled * seen[w].avg + job[w].qty * job[w].price, newFilledQty(w)))

\* Fault: the broker's own status name is stored.
newStatusUnmapped(w) == job[w].status

newStatus(w) ==
    IF job[w].status = "FILLED" \/ newFilledQty(w) >= Target THEN "FILLED" ELSE "PARTIAL"

\* ProcessFill returns an error: 500 to the sender, a log line in ExecuteTrade.
Fail(w) ==
    /\ pc[w] \in {"lookup", "account", "settle", "update"}
    /\ Goto(w, "idle")
    /\ job' = [job EXCEPT ![w] = NoJob]
    /\ seen' = [seen EXCEPT ![w] = UnrecordedRow]
    /\ UNCHANGED <<total, route, channel, broker, reports, pending, row, ledger>>

\* GetOrderByProviderOrderID finds the order once ConfirmOrder stored the broker's id.
Lookup(w) ==
    /\ pc[w] = "lookup"
    /\ job[w].qty > 0 /\ job[w].price > 0
    /\ row.status # "PENDING"
    /\ seen' = [seen EXCEPT ![w] = row]
    /\ Goto(w, CASE route = "capture" -> "account"
                 [] route = "none"    -> "update"
                 [] OTHER             -> "settle")
    /\ UNCHANGED <<total, route, channel, broker, reports, pending, row, job, ledger>>

GetOrCreateBrokerAccount(w) ==
    /\ pc[w] = "account"
    /\ Goto(w, "settle")
    /\ UNCHANGED <<total, route, channel, broker, reports, pending, row, job, seen, ledger>>

\* exactFiatValue, which Ativos is sent as it is and Livro with four decimals.
Amount(w) == IF route = "ativos" THEN job[w].qty * job[w].price
                                 ELSE StringFixed(job[w].qty * job[w].price) * Unit

\* Fault: the key is made of the quantity of the event.
AppliedByEvent(w) ==
    IF job[w].qty \in ledger.keys THEN ledger
    ELSE [keys     |-> ledger.keys \cup {job[w].qty},
          qty      |-> ledger.qty + job[w].qty,
          value    |-> ledger.value + Amount(w),
          released |-> ledger.released \/ (route = "capture" /\ newStatus(w) = "FILLED")]

\* Fault: every capture releases the rest of the hold.
AppliedAndReleased(w) ==
    IF newFilledQty(w) \in ledger.keys THEN ledger
    ELSE [keys     |-> ledger.keys \cup {newFilledQty(w)},
          qty      |-> ledger.qty + job[w].qty,
          value    |-> ledger.value + Amount(w),
          released |-> ledger.released \/ route = "capture"]

\* Ativos and Livro apply a key once and answer a repeated one with success.
Applied(w) ==
    IF newFilledQty(w) \in ledger.keys THEN ledger
    ELSE [keys     |-> ledger.keys \cup {newFilledQty(w)},
          qty      |-> ledger.qty + job[w].qty,
          value    |-> ledger.value + Amount(w),
          released |-> ledger.released \/ (route = "capture" /\ newStatus(w) = "FILLED")]

\* Fault: the row is written although the settlement failed.
SettleIgnoringErrors(w) ==
    /\ pc[w] = "settle"
    /\ ledger' \in {ledger, Applied(w)}
    /\ Goto(w, "update")
    /\ UNCHANGED <<total, route, channel, broker, reports, pending, row, job, seen>>

\* SyncBrokerExecution, CaptureHold or Credit; the answer may be lost after the effect.
Settle(w) ==
    /\ pc[w] = "settle"
    /\ ledger' = Applied(w)
    /\ \/ Goto(w, "update") /\ UNCHANGED <<job, seen>>
       \/ /\ Goto(w, "idle")
          /\ job' = [job EXCEPT ![w] = NoJob]
          /\ seen' = [seen EXCEPT ![w] = UnrecordedRow]
    /\ UNCHANGED <<total, route, channel, broker, reports, pending, row>>

UpdateOrderFill(w) ==
    /\ pc[w] = "update"
    /\ row' = [status |-> newStatus(w), filled |-> newFilledQty(w), avg |-> newAvgPrice(w)]
    /\ Goto(w, "respond")
    /\ UNCHANGED <<total, route, channel, broker, reports, pending, job, seen, ledger>>

\* Fault: the handler answers 500 although the fill is booked.
RespondWithError(w) ==
    /\ pc[w] = "respond"
    /\ Goto(w, "idle")
    /\ job' = [job EXCEPT ![w] = NoJob]
    /\ seen' = [seen EXCEPT ![w] = UnrecordedRow]
    /\ UNCHANGED <<total, route, channel, broker, reports, pending, row, ledger>>

\* 200 to the sender; ExecuteTrade returns to its caller.
Respond(w) ==
    /\ pc[w] = "respond"
    /\ Goto(w, "idle")
    /\ \/ pending' = pending \ {job[w].report}
       \/ channel = "repeat" /\ row.filled <= MaxFilled /\ UNCHANGED pending
    /\ job' = [job EXCEPT ![w] = NoJob]
    /\ seen' = [seen EXCEPT ![w] = UnrecordedRow]
    /\ UNCHANGED <<total, route, channel, broker, reports, row, ledger>>

Replies == {"reply", "both"}

\* mapOrderStatus of the broker's reply.
replyStatus == IF broker.canceled THEN "CANCELED"
               ELSE IF broker.qty = total THEN "FILLED"
               ELSE IF broker.qty > 0 THEN "PARTIAL" ELSE "SUBMITTED"

\* The reply to the placement says that nothing was executed, or leaves it to the webhooks.
ConfirmOrder ==
    /\ row.status = "PENDING"
    /\ channel \in Replies => broker.qty = 0
    /\ row' = [row EXCEPT !.status = IF channel \in Replies THEN replyStatus ELSE "SUBMITTED"]
    /\ UNCHANGED <<total, route, channel, broker, reports, pending, pc, job, seen, ledger>>

\* Fault: the reply's executed quantity is stored as well as processed.
ConfirmFilledAndProcess ==
    /\ row.status = "PENDING"
    /\ channel \in Replies /\ broker.qty > 0
    /\ row' = [row EXCEPT !.status = replyStatus, !.filled = broker.qty]
    /\ job' = [job EXCEPT ![Sync] = [report |-> 0, status |-> replyStatus, qty |-> broker.qty,
                                     price |-> RoundedDiv(broker.value, broker.qty)]]
    /\ Goto(Sync, "lookup")
    /\ UNCHANGED <<total, route, channel, broker, reports, pending, seen, ledger>>

\* The reply reports what was executed so far.  ConfirmOrder stores its status with nothing
\* filled, and ExecuteTrade calls ProcessFill with the executed quantity.
ConfirmAndProcess ==
    /\ row.status = "PENDING"
    /\ channel \in Replies /\ broker.qty > 0
    /\ row' = [row EXCEPT !.status = replyStatus]
    /\ job' = [job EXCEPT ![Sync] = [report |-> 0, status |-> replyStatus, qty |-> broker.qty,
                                     price |-> RoundedDiv(broker.value, broker.qty)]]
    /\ Goto(Sync, "lookup")
    /\ UNCHANGED <<total, route, channel, broker, reports, pending, seen, ledger>>

-----------------------------------------------------------------------------
Work(w) == \/ Fail(w) \/ Lookup(w) \/ GetOrCreateBrokerAccount(w)
           \/ Settle(w) \/ UpdateOrderFill(w) \/ Respond(w)

Next ==
    \/ \E qty \in 1 .. Target, price \in Prices : BrokerFills(qty, price)
    \/ BrokerCancels
    \/ \E rep \in Noise : BrokerNotes(rep)
    \/ \E w \in Handlers, n \in pending : Deliver(w, n)
    \/ \E n \in pending : Dismiss(n)
    \/ ConfirmOrder \/ ConfirmAndProcess
    \/ \E w \in Workers : Work(w)

Spec == Init /\ [][Next]_vars

-----------------------------------------------------------------------------
(* Properties. *)

\* The shape of every variable.
TypeOK ==
    /\ total \in Nat
    /\ route \in Routes
    /\ channel \in Channels
    /\ broker \in [qty : Nat, value : Nat, canceled : BOOLEAN]
    /\ reports \in Seq(Report)
    /\ pending \subseteq 1 .. Len(reports)
    /\ row \in Row
    /\ pc \in [Workers -> Places]
    /\ job \in [Workers -> Job]
    /\ seen \in [Workers -> Row]
    /\ ledger \in Ledger

IsFill(rep) == ~Ignored(rep) /\ ~Malformed(rep)

\* The fills that are reported, not yet answered and not yet written by a worker about to answer.
Outstanding ==
    {n \in pending : IsFill(reports[n]) /\ \A w \in Workers : pc[w] = "respond" => job[w].report # n}

\* The sum of what some reports say was executed, as a quantity and as a value.
Qty(ns) == SumFunctionOnSet([n \in DOMAIN reports |-> reports[n].l], ns)
Value(ns) == SumFunctionOnSet([n \in DOMAIN reports |-> reports[n].l * reports[n].L], ns)

\* The webhooks are sent one after the other, and no webhook again after its 200.
OneByOne == channel \in {"webhook", "shuffled"}

\* fill_processor.go, ProcessFill: filled_quantity is exactly what the answered webhooks
\* reported, in whatever order they came and however often an attempt failed before its write.
FilledIsAnswered == OneByOne => row.filled = broker.qty - Qty(Outstanding)

\* fill_processor.go, ProcessFill: what Ativos or Livro settled is what the row shows or, after a
\* settlement whose row was not written, one outstanding fill more, because the next attempt uses
\* the same key.  Row and ledger agree even about a fill that was booked twice.
SettlementMatchesRow ==
    channel \in {"webhook", "repeat"} /\ route # "none" =>
        ledger.qty \in {row.filled} \cup {row.filled + reports[n].l : n \in Outstanding}

\* Twice what an amount may be off by.
Rounding == IF route = "ativos" THEN 0 ELSE Unit

\* livro/client.go, CaptureHold and Credit: each amount is rounded to four decimals, so the cash
\* that Livro moved is within half of 0.0001 per settlement of what the settled fills are worth;
\* Ativos is sent the exact value, and what it applied is exactly their worth.
SettledValueIsExact ==
    LET booked == broker.value - Value(Outstanding)
        near(value) == /\ 2 * (ledger.value - value) <= Rounding * Cardinality(ledger.keys)
                       /\ 2 * (value - ledger.value) <= Rounding * Cardinality(ledger.keys)
    IN  channel = "webhook" /\ route # "none" =>
            IF ledger.qty = row.filled THEN near(booked)
            ELSE \E n \in Outstanding : near(booked + Value({n}))

\* fill_processor.go, ProcessFill: the running average, rounded by Div and again by its column on
\* every write, stays within half of the last digit of each per fill of the volume-weighted average
\* of the fills that were written.
AverageIsVWAP ==
    LET gap == row.filled * row.avg - (broker.value - Value(Outstanding))
        bound == row.filled * ((Digit + 1) * Len(reports))
    IN  OneByOne => 2 * gap <= bound /\ -2 * gap <= bound

\* fill_processor.go, ProcessFill and livro CaptureHold: the rest of a hold is released only with
\* the capture that completes the order, never while a fill is still to be captured.
ReleasedWhenComplete ==
    channel = "webhook" /\ ledger.released => broker.qty = total /\ ledger.qty = total

\* fill_processor.go, ProcessFill: once a row shows all that was sent to the broker it never
\* changes again.  No failed attempt, no row read before and no report still to come writes over
\* it, whichever of reply and webhooks brought the fills and in whatever order, unless a webhook is
\* sent again after it was booked.
CompleteIsFinal == [][channel # "repeat" /\ row.filled = total => row' = row]_vars

\* docs/INTEGRATION_GUIDE.md:107, "Order 100% completed. | Final hold captured": when nobody is
\* working on an order whose row says FILLED, the row shows and, where there is somebody to
\* settle, the ledger has settled all that was sent to the broker.
FilledMeansComplete ==
    row.status = "FILLED" /\ (\A w \in Workers : pc[w] = "idle") =>
        row.filled = total /\ (route # "none" => ledger.qty = total)

Promise == INSTANCE Settlement
           WITH hold <- route = "capture", executed <- broker.qty, settled <- ledger.qty, booked <- row.filled,
                released <- ledger.released, filled <- row.status = "FILLED"

\* fill_processor.go, ProcessFill: for fills in order and a downstream that settles, whatever fails
\* half-way and however often it is tried again, the fill processor implements Settlement: each step
\* executes, settles what is next, books what was settled, or changes none of it.
ImplementsSettlement ==
    /\ Promise!SettlementInit
    /\ [][channel = "webhook" /\ route # "none" => Promise!SettlementNext]_(Promise!settlementVars)

\* binance/client.go, TruncateToStepSize: although Div rounds before Floor, the broker never
\* executes more than was asked for, and a row that webhooks in order made FILLED falls short of it by
\* less than a step.
OrderIsTruncated ==
    /\ broker.qty <= Target
    /\ channel = "webhook" /\ row.status = "FILLED" =>
           \E stepSize \in Steps : total % stepSize = 0 /\ Target - row.filled < stepSize

\* service.go:302, "without double-counting the initial executed quantity": filled_quantity never
\* exceeds what the broker executed, unless a webhook is sent again after it was answered.
NoDoubleCount == channel # "repeat" => row.filled <= broker.qty

\* docs/INTEGRATION_GUIDE.md:106, "Cumulative filled quantity updated": once every fill was
\* answered with 200 the row shows all of them.
NoLostFill == Outstanding = {} => row.filled >= broker.qty

\* docs/INTEGRATION_GUIDE.md:108, "Order was canceled prior to fill. | Full hold voided in Livro":
\* when the webhooks of an order that was canceled before any fill are answered, its row says so
\* and nothing is held for it any more.
CancellationVoidsHold ==
    broker.canceled /\ broker.qty = 0 /\ pending = {} /\ row.status # "PENDING" =>
        row.status = "CANCELED" /\ (route = "capture" => ledger.released)
=============================================================================

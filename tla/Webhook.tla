------------------------------ MODULE Webhook -------------------------------
(***************************************************************************)
(* handleBinanceOrderWebhook (internal/webhook/handler.go): what the       *)
(* handler makes of a native executionReport before it calls ProcessFill.  *)
(* Quantities are integers in units of the last stored digit, prices in    *)
(* units of the last digit that Div keeps; Unparsable stands for a field   *)
(* that decimal.NewFromString refuses.                                     *)
(***************************************************************************)
EXTENDS Decimals

Unparsable == -1

Field == Nat \cup {Unparsable}

ExecutionTypes == {"NEW", "TRADE", "CANCELED"}
OrderStatuses == {"NEW", "PARTIALLY_FILLED", "FILLED", "CANCELED"}

\* The fields of RawBinanceExecutionReport that the handler reads, under their wire names.
Report == [x : ExecutionTypes,  \* execution type
           X : OrderStatuses,   \* order status
           l : Field,           \* last executed quantity
           z : Field,           \* cumulative filled quantity
           L : Field,           \* last executed price
           Z : Field]           \* cumulative quote quantity

Ignored(rep) == rep.x # "TRADE" /\ rep.X \notin {"FILLED", "PARTIALLY_FILLED"}

Missing(field) == field \in {0, Unparsable}

\* Fault: the cumulative quantity is taken for the last one.
lastQtyCumulative(rep) == rep.z

lastQty(rep) == IF Missing(rep.l) THEN rep.z ELSE rep.l

lastPrice(rep) ==
    IF ~Missing(rep.L) THEN rep.L
    ELSE IF rep.Z # Unparsable /\ lastQty(rep) > 0 THEN RoundedDiv(rep.Z, lastQty(rep)) ELSE 0

\* HTTP 400: neither quantity field can be parsed.
Malformed(rep) == ~Ignored(rep) /\ lastQty(rep) = Unparsable

FillEvent(rep) == [status |-> rep.X, qty |-> lastQty(rep), price |-> lastPrice(rep)]
=============================================================================

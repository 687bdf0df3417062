------------------------ MODULE FillProcessorProofs -------------------------
(***************************************************************************)
(* Proofs about FillProcessor, for every set of handlers, every price,     *)
(* quantity and step size, and any number of reports.                      *)
(***************************************************************************)
EXTENDS FillProcessor, ArithmeticProofs, SequenceTheorems

-----------------------------------------------------------------------------
(* Types. *)

\* handler.go: the event made of a report that is neither ignored nor refused has a quantity and a
\* price that are natural numbers.
LEMMA FillEventType ==
    ASSUME NEW rep \in Report, ~Ignored(rep), ~Malformed(rep)
    PROVE  FillEvent(rep) \in [status : OrderStatuses, qty : Nat, price : Nat]
<1>1. lastQty(rep) \in Nat
    BY DEF Malformed, lastQty, Missing, Report, Field, Unparsable
<1>2. lastPrice(rep) \in Nat
    <2>1. CASE ~Missing(rep.L)
        BY <2>1 DEF lastPrice, Missing, Report, Field, Unparsable
    <2>2. CASE Missing(rep.L) /\ rep.Z # Unparsable /\ lastQty(rep) > 0
        <3>1. rep.Z \in Nat
            BY <2>2 DEF Report, Field
        <3> QED
            BY <1>1, <2>2, <3>1, RoundedDivType DEF lastPrice
    <2>3. CASE Missing(rep.L) /\ ~(rep.Z # Unparsable /\ lastQty(rep) > 0)
        BY <2>3 DEF lastPrice
    <2> QED
        BY <2>1, <2>2, <2>3
<1> QED
    BY <1>1, <1>2 DEF FillEvent, Report

\* Whatever step size Init chose, the quantity sent is a natural number.
LEMMA InitTypeOK == Init => TypeOK
<1> SUFFICES ASSUME Init PROVE TypeOK
    OBVIOUS
<1>1. total \in Nat
    <2>1. PICK stepSize \in Steps : total = TruncateToStepSize(Target, stepSize)
        BY DEF Init
    <2>2. stepSize \in 1 .. 2 * Scale - 1 /\ Target \in Nat
        BY StepsAssumption, TargetAssumption
    <2> QED
        BY <2>1, <2>2, TruncateIsFloor
<1>2. NoJob \in Job /\ UnrecordedRow \in Row
    BY DEF NoJob, Job, OrderStatuses, UnrecordedRow, Row
<1>3. reports \in Seq(Report) /\ pending \subseteq 1 .. Len(reports)
    BY DEF Init
<1>4. pc \in [Workers -> Places] /\ job \in [Workers -> Job] /\ seen \in [Workers -> Row] /\ row \in Row
    BY <1>2 DEF Init, Places
<1>5. broker \in [qty : Nat, value : Nat, canceled : BOOLEAN] /\ ledger \in Ledger
    BY DEF Init, Ledger
<1> QED
    BY <1>1, <1>3, <1>4, <1>5 DEF Init, TypeOK

\* Emit appends a report and keeps the rest.
LEMMA EmitType ==
    ASSUME TypeOK, NEW rep \in Report, Emit(rep)
    PROVE  /\ reports' \in Seq(Report) /\ Len(reports') = Len(reports) + 1
           /\ \A n \in 1 .. Len(reports) : reports'[n] = reports[n]
           /\ reports'[Len(reports) + 1] = rep
           /\ pending' \subseteq 1 .. Len(reports')
           /\ Len(reports) \in Nat
<1>1. reports \in Seq(Report) /\ reports' = Append(reports, rep)
    BY DEF TypeOK, Emit
<1>2. /\ reports' \in Seq(Report) /\ Len(reports') = Len(reports) + 1
      /\ \A n \in 1 .. Len(reports) : reports'[n] = reports[n]
      /\ reports'[Len(reports) + 1] = rep
    BY <1>1, AppendProperties
<1>3. Len(reports) \in Nat
    BY <1>1
<1>4. pending' \subseteq 1 .. Len(reports')
    <2>1. pending' \subseteq pending \cup {Len(reports) + 1} /\ pending \subseteq 1 .. Len(reports)
        BY DEF TypeOK, Emit
    <2>2. 1 .. Len(reports) \subseteq 1 .. Len(reports') /\ Len(reports) + 1 \in 1 .. Len(reports')
        BY <1>2, <1>3
    <2> QED
        BY <2>1, <2>2
<1> QED
    BY <1>2, <1>3, <1>4

\* The reports the broker makes of a fill and of a cancellation have the shape of a report.
LEMMA BrokerReportType ==
    ASSUME TypeOK
    PROVE  /\ \A qty \in 1 .. Target, price \in Prices :
                 LET qty2 == broker.qty + qty
                     value2 == broker.value + qty * price
                 IN  /\ qty2 \in Nat /\ value2 \in Nat
                     /\ [x |-> "TRADE", X |-> IF qty2 = total THEN "FILLED" ELSE "PARTIALLY_FILLED",
                         l |-> qty, z |-> qty2, L |-> price, Z |-> value2] \in Report
           /\ [x |-> "CANCELED", X |-> "CANCELED", l |-> 0, z |-> broker.qty, L |-> 0,
               Z |-> broker.value] \in Report
           /\ Noise \subseteq Report
<1>1. broker.qty \in Nat /\ broker.value \in Nat
    BY DEF TypeOK
<1>2. ASSUME NEW qty \in 1 .. Target, NEW price \in Prices
      PROVE  qty \in Nat /\ price \in Nat /\ broker.qty + qty \in Nat /\ broker.value + qty * price \in Nat
    BY <1>1, TargetAssumption, PricesAssumption
<1>3. Noise \subseteq Report
    BY NoiseAssumption
<1> QED
    BY <1>1, <1>2, <1>3 DEF Report, ExecutionTypes, OrderStatuses, Field

\* fill_processor.go: what ProcessFill computes has the shape of a row.
LEMMA NewRowType ==
    ASSUME TypeOK, NEW w \in Workers
    PROVE  /\ newFilledQty(w) \in Nat
           /\ newAvgPrice(w) \in Nat
           /\ newStatus(w) \in {"FILLED", "PARTIAL"}
           /\ Amount(w) \in Nat
<1>1. /\ seen[w].filled \in Nat /\ seen[w].avg \in Nat
      /\ job[w].qty \in Nat /\ job[w].price \in Nat
    BY DEF TypeOK, Row, Job
<1>2. newFilledQty(w) \in Nat
    BY <1>1 DEF newFilledQty
<1>3. newAvgPrice(w) \in Nat
    <2>0. ASSUME NEW price \in Nat PROVE Stored(price) \in Nat
        <3>1. RoundedDiv(price, Digit) \in Nat /\ Digit \in Nat
            BY RoundedDivType, DigitAssumption
        <3> QED
            BY <3>1 DEF Stored
    <2>1. CASE seen[w].filled = 0
        BY <1>1, <2>0, <2>1 DEF newAvgPrice
    <2>2. CASE seen[w].filled # 0
        <3>1. newFilledQty(w) \in Nat \ {0}
            BY <1>1, <2>2 DEF newFilledQty
        <3>2. seen[w].filled * seen[w].avg + job[w].qty * job[w].price \in Nat
            BY <1>1
        <3> QED
            BY <2>0, <2>2, <3>1, <3>2, RoundedDivType DEF newAvgPrice
    <2> QED
        BY <2>1, <2>2
<1>4. Amount(w) \in Nat
    <2>1. job[w].qty * job[w].price \in Nat
        BY <1>1
    <2> QED
        BY <2>1, StringFixedError DEF Amount
<1>5. newStatus(w) \in {"FILLED", "PARTIAL"}
    BY DEF newStatus
<1> QED
    BY <1>2, <1>3, <1>4, <1>5

\* Every step keeps the shape of every variable.
LEMMA NextTypeOK == TypeOK /\ [Next]_vars => TypeOK'
<1> SUFFICES ASSUME TypeOK, [Next]_vars PROVE TypeOK'
    OBVIOUS
<1>0. NoJob \in Job /\ UnrecordedRow \in Row
    BY DEF NoJob, Job, OrderStatuses, UnrecordedRow, Row
<1>e. ASSUME NEW rep \in Report, Emit(rep), broker' \in [qty : Nat, value : Nat, canceled : BOOLEAN]
      PROVE  TypeOK'
    <2>1. reports' \in Seq(Report) /\ pending' \subseteq 1 .. Len(reports')
        BY <1>e, EmitType
    <2> QED
        BY <1>e, <2>1 DEF TypeOK, Emit
<1>1. ASSUME NEW qty \in 1 .. Target, NEW price \in Prices, BrokerFills(qty, price) PROVE TypeOK'
    <2>1. broker' \in [qty : Nat, value : Nat, canceled : BOOLEAN]
        BY <1>1, BrokerReportType DEF TypeOK, BrokerFills
    <2> QED
        BY <1>1, <1>e, <2>1, BrokerReportType DEF BrokerFills
<1>2. CASE BrokerCancels
    <2>1. broker' \in [qty : Nat, value : Nat, canceled : BOOLEAN]
        BY <1>2 DEF TypeOK, BrokerCancels
    <2> QED
        BY <1>2, <1>e, <2>1, BrokerReportType DEF BrokerCancels
<1>3. ASSUME NEW rep \in Noise, BrokerNotes(rep) PROVE TypeOK'
    <2>1. broker' \in [qty : Nat, value : Nat, canceled : BOOLEAN] /\ rep \in Report /\ Emit(rep)
        BY <1>3, BrokerReportType DEF TypeOK, BrokerNotes
    <2> QED
        BY <1>e, <2>1
<1>4. ASSUME NEW w \in Handlers, NEW n \in pending, Deliver(w, n) PROVE TypeOK'
    <2>1. reports[n] \in Report
        BY DEF TypeOK
    <2>2. FillEvent(reports[n]) \in [status : OrderStatuses, qty : Nat, price : Nat]
        BY <1>4, <2>1, FillEventType DEF Deliver
    <2>3. n \in Nat /\ w \in Workers
        BY DEF TypeOK, Workers
    <2>4. [report |-> n, status |-> FillEvent(reports[n]).status, qty |-> FillEvent(reports[n]).qty,
           price |-> FillEvent(reports[n]).price] \in Job
        BY <2>2, <2>3 DEF Job
    <2>5. job' \in [Workers -> Job] /\ pc' \in [Workers -> Places]
        BY <1>4, <2>4 DEF TypeOK, Deliver, Goto, Places
    <2> QED
        BY <1>4, <2>5 DEF TypeOK, Deliver
<1>5. ASSUME NEW n \in pending, Dismiss(n) PROVE TypeOK'
    BY <1>5 DEF TypeOK, Dismiss
<1>6. CASE ConfirmOrder
    <2>1. row' \in Row
        BY <1>6 DEF TypeOK, ConfirmOrder, replyStatus, Row
    <2> QED
        BY <1>6, <2>1 DEF TypeOK, ConfirmOrder
<1>7. CASE ConfirmAndProcess
    <2>1. row' \in Row
        BY <1>7 DEF TypeOK, ConfirmAndProcess, replyStatus, Row
    <2>2. broker.qty \in Nat \ {0} /\ broker.value \in Nat
        BY <1>7 DEF TypeOK, ConfirmAndProcess
    <2>3. RoundedDiv(broker.value, broker.qty) \in Nat
        BY <2>2, RoundedDivType
    <2>4. replyStatus \in OrderStatuses \cup {"PARTIAL"}
        BY <2>2 DEF replyStatus, OrderStatuses
    <2>5. [report |-> 0, status |-> replyStatus, qty |-> broker.qty,
           price |-> RoundedDiv(broker.value, broker.qty)] \in Job
        BY <2>2, <2>3, <2>4 DEF Job
    <2>6. job' \in [Workers -> Job] /\ pc' \in [Workers -> Places]
        BY <1>7, <2>5 DEF TypeOK, ConfirmAndProcess, Goto, Places
    <2> QED
        BY <1>7, <2>1, <2>6 DEF TypeOK, ConfirmAndProcess
<1>8. ASSUME NEW w \in Workers, Fail(w) PROVE TypeOK'
    BY <1>0, <1>8 DEF TypeOK, Fail, Goto, Places
<1>9. ASSUME NEW w \in Workers, Lookup(w) PROVE TypeOK'
    <2>1. pc' \in [Workers -> Places] /\ seen' \in [Workers -> Row]
        BY <1>9 DEF TypeOK, Lookup, Goto, Places
    <2> QED
        BY <1>9, <2>1 DEF TypeOK, Lookup
<1>10. ASSUME NEW w \in Workers, GetOrCreateBrokerAccount(w) PROVE TypeOK'
    BY <1>10 DEF TypeOK, GetOrCreateBrokerAccount, Goto, Places
<1>11. ASSUME NEW w \in Workers, Settle(w) PROVE TypeOK'
    <2>1. ledger' \in Ledger
        <3> DEFINE released == ledger.released \/ (route = "capture" /\ newStatus(w) = "FILLED")
        <3>1. released \in BOOLEAN
            OBVIOUS
        <3>2. /\ ledger.keys \cup {newFilledQty(w)} \in SUBSET Nat
              /\ ledger.qty + job[w].qty \in Nat /\ ledger.value + Amount(w) \in Nat
            <4>1. newFilledQty(w) \in Nat /\ Amount(w) \in Nat
                BY NewRowType
            <4>2. ledger.keys \in SUBSET Nat /\ ledger.qty \in Nat /\ ledger.value \in Nat /\ job[w].qty \in Nat
                BY DEF TypeOK, Ledger, Job
            <4> QED
                BY <4>1, <4>2
        <3>3. ledger' = ledger \/ ledger' = [keys |-> ledger.keys \cup {newFilledQty(w)},
                 qty |-> ledger.qty + job[w].qty, value |-> ledger.value + Amount(w), released |-> released]
            BY <1>11 DEF Settle, Applied
        <3> HIDE DEF released
        <3> QED
            BY <3>1, <3>2, <3>3 DEF TypeOK, Ledger
    <2>2. pc' \in [Workers -> Places] /\ job' \in [Workers -> Job] /\ seen' \in [Workers -> Row]
        BY <1>0, <1>11 DEF TypeOK, Settle, Goto, Places
    <2> QED
        BY <1>11, <2>1, <2>2 DEF TypeOK, Settle
<1>12. ASSUME NEW w \in Workers, UpdateOrderFill(w) PROVE TypeOK'
    <2>1. row' \in Row
        BY <1>12, NewRowType DEF UpdateOrderFill, Row
    <2>2. pc' \in [Workers -> Places]
        BY <1>12 DEF TypeOK, UpdateOrderFill, Goto, Places
    <2> QED
        BY <1>12, <2>1, <2>2 DEF TypeOK, UpdateOrderFill
<1>13. ASSUME NEW w \in Workers, Respond(w) PROVE TypeOK'
    <2>1. pc' \in [Workers -> Places] /\ job' \in [Workers -> Job] /\ seen' \in [Workers -> Row]
        BY <1>0, <1>13 DEF TypeOK, Respond, Goto, Places
    <2>2. pending' \subseteq 1 .. Len(reports')
        BY <1>13 DEF TypeOK, Respond
    <2> QED
        BY <1>13, <2>1, <2>2 DEF TypeOK, Respond
<1>14. CASE UNCHANGED vars
    BY <1>14 DEF TypeOK, vars
<1> QED
    BY <1>1, <1>2, <1>3, <1>4, <1>5, <1>6, <1>7, <1>8, <1>9, <1>10, <1>11, <1>12, <1>13, <1>14
       DEF Next, Work

\* Every reachable state is well typed: no report, event, stored row or amount ever leaves its range.
THEOREM TypeCorrect == Spec => []TypeOK
BY InitTypeOK, NextTypeOK, PTL DEF Spec

-----------------------------------------------------------------------------
(* The row before it is confirmed. *)

\* A row without a broker id has nothing filled.
StatusInv == row.status = "PENDING" => row.filled = 0

\* StatusInv is inductive: ConfirmOrder changes a status only while nothing is filled.
LEMMA StatusInvariant == Spec => []StatusInv
<1>1. Init => StatusInv
    BY DEF Init, StatusInv, UnrecordedRow
<1>2. TypeOK /\ StatusInv /\ [Next]_vars => StatusInv'
    <2> SUFFICES ASSUME TypeOK, StatusInv, [Next]_vars PROVE StatusInv'
        OBVIOUS
    <2>1. ASSUME UNCHANGED row PROVE StatusInv'
        BY <2>1 DEF StatusInv
    <2>2. CASE ConfirmOrder \/ ConfirmAndProcess
        <3>1. row' = [row EXCEPT !.status = row'.status] /\ row.status = "PENDING"
            BY <2>2 DEF ConfirmOrder, ConfirmAndProcess, TypeOK, Row
        <3>2. row'.filled = 0
            BY <3>1 DEF StatusInv, TypeOK, Row
        <3> QED
            BY <3>2 DEF StatusInv
    <2>3. ASSUME NEW w \in Workers, UpdateOrderFill(w) PROVE StatusInv'
        BY <2>3 DEF UpdateOrderFill, newStatus, StatusInv
    <2> QED
        BY <2>1, <2>2, <2>3
           DEF Next, Work, vars, BrokerFills, BrokerCancels, BrokerNotes, Emit, Deliver, Dismiss, Fail,
               Lookup, GetOrCreateBrokerAccount, Settle, Respond
<1> QED
    BY <1>1, <1>2, TypeCorrect, PTL DEF Spec

-----------------------------------------------------------------------------
(* What the broker reports. *)

Fills == {n \in 1 .. Len(reports) : IsFill(reports[n])}

\* The cumulative quantity before a fill.
Before(n) == reports[n].z - reports[n].l

\* A report that is processed is a fill with a quantity and a price; it continues the fills before
\* it, and says FILLED exactly when it completes what was sent.
IsFillOf(rep) ==
    /\ rep.l \in Nat \ {0} /\ rep.L \in Nat \ {0} /\ rep.z \in Nat
    /\ rep.l <= rep.z /\ rep.z <= broker.qty
    /\ rep.X = "FILLED" <=> rep.z = total

BrokerInv ==
    /\ \E stepSize \in Steps : total = TruncateToStepSize(Target, stepSize)
    /\ broker.qty <= total
    /\ \A n \in Fills : IsFillOf(reports[n])
    /\ \A n, m \in Fills : n < m => reports[n].z <= Before(m)
    /\ \A m \in Fills : Before(m) = 0 \/ \E k \in Fills : k < m /\ reports[k].z = Before(m)
    /\ broker.qty = 0 \/ \E k \in Fills : reports[k].z = broker.qty

\* A new report joins the fills when it is one.
LEMMA EmitFills ==
    ASSUME TypeOK, NEW rep \in Report, Emit(rep)
    PROVE  /\ IsFill(rep) => Fills' = Fills \cup {Len(reports) + 1}
           /\ ~IsFill(rep) => Fills' = Fills
           /\ \A n \in Fills : n \in Nat /\ n < Len(reports) + 1 /\ reports'[n] = reports[n]
<1>1. /\ Len(reports') = Len(reports) + 1 /\ Len(reports) \in Nat
      /\ \A n \in 1 .. Len(reports) : reports'[n] = reports[n]
      /\ reports'[Len(reports) + 1] = rep
    BY EmitType
<1>2. 1 .. Len(reports') = (1 .. Len(reports)) \cup {Len(reports) + 1}
    BY <1>1
<1>3. Fills' = {n \in 1 .. Len(reports') : IsFill(reports'[n])}
    BY DEF Fills, IsFill, Ignored, Malformed, lastQty, Missing
<1>4. \A n \in Fills : n \in Nat /\ n < Len(reports) + 1 /\ reports'[n] = reports[n]
    BY <1>1 DEF Fills
<1>5. ASSUME NEW n PROVE n \in Fills' <=> n \in Fills \/ (n = Len(reports) + 1 /\ IsFill(rep))
    BY <1>1, <1>2, <1>3 DEF Fills
<1> QED
    BY <1>4, <1>5

\* The reports of BrokerCancels and BrokerNotes are not fills, the reports of BrokerFills are.
LEMMA WhatIsFill ==
    ASSUME TypeOK
    PROVE  /\ \A rep \in Noise : ~IsFill(rep)
           /\ ~IsFill([x |-> "CANCELED", X |-> "CANCELED", l |-> 0, z |-> broker.qty, L |-> 0,
                       Z |-> broker.value])
           /\ \A qty \in Nat \ {0} : \A qty2, price, value2, status :
                 IsFill([x |-> "TRADE", X |-> status, l |-> qty, z |-> qty2, L |-> price, Z |-> value2])
<1>1. \A rep \in Noise : ~IsFill(rep)
    BY NoiseAssumption DEF IsFill
<1>2. ~IsFill([x |-> "CANCELED", X |-> "CANCELED", l |-> 0, z |-> broker.qty, L |-> 0,
               Z |-> broker.value])
    BY DEF IsFill, Ignored
<1>3. ASSUME NEW qty \in Nat \ {0}, NEW qty2, NEW price, NEW value2, NEW status
      PROVE  IsFill([x |-> "TRADE", X |-> status, l |-> qty, z |-> qty2, L |-> price, Z |-> value2])
    BY DEF IsFill, Ignored, Malformed, lastQty, Missing, Unparsable
<1> QED
    BY <1>1, <1>2, <1>3

\* BrokerInv is inductive: the fills form a chain of cumulative quantities.
LEMMA BrokerInvariant == Spec => []BrokerInv
<1>1. Init => BrokerInv
    <2> SUFFICES ASSUME Init PROVE BrokerInv
        OBVIOUS
    <2>1. Fills = {} /\ broker.qty = 0
        BY DEF Init, Fills
    <2>2. total \in Nat
        BY InitTypeOK DEF TypeOK
    <2>3. \E stepSize \in Steps : total = TruncateToStepSize(Target, stepSize)
        BY DEF Init
    <2> QED
        BY <2>1, <2>2, <2>3 DEF BrokerInv
<1>2. TypeOK /\ BrokerInv /\ [Next]_vars => BrokerInv'
    <2> SUFFICES ASSUME TypeOK, BrokerInv, [Next]_vars PROVE BrokerInv'
        OBVIOUS
    <2>1. ASSUME UNCHANGED <<total, broker, reports>> PROVE BrokerInv'
        <3>1. Fills' = Fills
            BY <2>1 DEF Fills, IsFill, Ignored, Malformed, lastQty, Missing
        <3> QED
            BY <2>1, <3>1 DEF BrokerInv, IsFillOf, Before
    <2>2. ASSUME NEW rep \in Report, Emit(rep), ~IsFill(rep), broker'.qty = broker.qty PROVE BrokerInv'
        <3>1. Fills' = Fills /\ total' = total /\ \A n \in Fills : reports'[n] = reports[n]
            BY <2>2, EmitFills DEF Emit
        <3> QED
            BY <2>2, <3>1 DEF BrokerInv, IsFillOf, Before
    <2>3. ASSUME NEW qty \in 1 .. Target, NEW price \in Prices, BrokerFills(qty, price) PROVE BrokerInv'
        <3>n. PICK new \in Nat : new = Len(reports) + 1
            BY DEF TypeOK
        <3> DEFINE qty2 == broker.qty + qty
                   rep == [x |-> "TRADE", X |-> IF qty2 = total THEN "FILLED" ELSE "PARTIALLY_FILLED",
                           l |-> qty, z |-> qty2, L |-> price, Z |-> broker.value + qty * price]
        <3>1. /\ qty \in Nat \ {0} /\ price \in Nat \ {0} /\ qty2 \in Nat
              /\ broker.qty \in Nat /\ total \in Nat
            BY TargetAssumption, PricesAssumption DEF TypeOK
        <3>2. rep \in Report /\ Emit(rep) /\ qty2 <= total /\ broker'.qty = qty2
            BY <2>3, BrokerReportType DEF BrokerFills, TypeOK
        <3>3. IsFill(rep)
            BY <3>1, WhatIsFill
        <3>4. rep.l = qty /\ rep.z = qty2 /\ rep.L = price /\ (rep.X = "FILLED" <=> qty2 = total)
            OBVIOUS
        <3> HIDE DEF rep, qty2
        <3>5. Fills' = Fills \cup {new} /\ \A n \in Fills : n \in Nat /\ n < new /\ reports'[n] = reports[n]
            BY <3>2, <3>3, <3>n, EmitFills
        <3>6. reports'[new] = rep /\ total' = total
            BY <3>2, <3>n, EmitType DEF Emit
        <3>q. broker.qty < qty2 /\ qty2 - qty = broker.qty
            BY <3>1 DEF qty2
        <3>7. ASSUME NEW n \in Fills' PROVE IsFillOf(reports[n])'
            <4>1. CASE n = new
                BY <3>1, <3>2, <3>4, <3>6, <3>q, <4>1 DEF IsFillOf, qty2
            <4>2. CASE n \in Fills
                BY <3>1, <3>2, <3>5, <3>6, <3>q, <4>2 DEF IsFillOf, BrokerInv
            <4> QED
                BY <3>5, <4>1, <4>2
        <3>8. Before(new)' = broker.qty /\ \A n \in Fills : Before(n)' = Before(n)
            BY <3>4, <3>5, <3>6, <3>q DEF Before
        <3>9. ASSUME NEW n \in Fills', NEW m \in Fills', n < m PROVE reports'[n].z <= Before(m)'
            <4>1. n \in Fills
                BY <3>5, <3>6, <3>9
            <4>2. CASE m = new
                BY <3>5, <3>8, <4>1, <4>2 DEF BrokerInv, IsFillOf
            <4>3. CASE m \in Fills
                BY <3>5, <3>8, <3>9, <4>1, <4>3 DEF BrokerInv
            <4> QED
                BY <3>5, <4>2, <4>3
        <3>10. ASSUME NEW m \in Fills'
               PROVE  Before(m)' = 0 \/ \E k \in Fills' : k < m /\ reports'[k].z = Before(m)'
            <4>1. CASE m = new
                BY <3>5, <3>8, <4>1 DEF BrokerInv
            <4>2. CASE m \in Fills
                BY <3>5, <3>8, <4>2 DEF BrokerInv
            <4> QED
                BY <3>5, <4>1, <4>2
        <3>11. \E k \in Fills' : reports'[k].z = broker'.qty
            BY <3>2, <3>4, <3>5, <3>6
        <3>12. broker'.qty <= total' /\ \E stepSize \in Steps : total' = TruncateToStepSize(Target, stepSize)
            BY <3>2, <3>6 DEF BrokerInv
        <3> QED
            BY <3>7, <3>9, <3>10, <3>11, <3>12 DEF BrokerInv
    <2>4. CASE BrokerCancels
        <3> DEFINE rep == [x |-> "CANCELED", X |-> "CANCELED", l |-> 0, z |-> broker.qty, L |-> 0,
                           Z |-> broker.value]
        <3>1. rep \in Report /\ ~IsFill(rep) /\ Emit(rep) /\ broker'.qty = broker.qty
            BY <2>4, BrokerReportType, WhatIsFill DEF BrokerCancels, TypeOK
        <3> HIDE DEF rep
        <3> QED
            BY <2>2, <3>1
    <2>5. ASSUME NEW rep \in Noise, BrokerNotes(rep) PROVE BrokerInv'
        <3>1. rep \in Report /\ ~IsFill(rep) /\ Emit(rep) /\ broker'.qty = broker.qty
            BY <2>5, BrokerReportType, WhatIsFill DEF BrokerNotes
        <3> QED
            BY <2>2, <3>1
    <2> QED
        BY <2>1, <2>3, <2>4, <2>5
           DEF Next, Work, vars, Deliver, Dismiss, ConfirmOrder, ConfirmAndProcess, Fail, Lookup,
               GetOrCreateBrokerAccount, Settle, UpdateOrderFill, Respond
<1> QED
    BY <1>1, <1>2, TypeCorrect, PTL DEF Spec

-----------------------------------------------------------------------------
(* Who is at work, with what. *)

\* Between the row that was read and the row that is written.
Inside == {"account", "settle", "update"}

OneHandler == \A v, w \in Handlers : pc[v] # "idle" /\ pc[w] # "idle" => v = w

\* A handler at work has the event of a fill the sender keeps, and of the oldest one unless the
\* webhooks are shuffled.
Carries(w) ==
    /\ job[w].report \in pending /\ job[w].report \in Fills
    /\ job[w].qty = reports[job[w].report].l
    /\ job[w].price = reports[job[w].report].L
    /\ job[w].status = reports[job[w].report].X
    /\ channel # "shuffled" => \A m \in pending : job[w].report <= m

HandlersCarry == \A w \in Handlers : pc[w] # "idle" => Carries(w)

SyncInv ==
    /\ job[Sync].report = 0
    /\ pc[Sync] # "idle" => channel \in Replies /\ row.status # "PENDING"

NobodyInside == row.status = "PENDING" => \A w \in Workers : pc[w] \in {"idle", "lookup"}

\* The row a handler read is the row it is about to replace.
SeenIsRow == channel \notin Replies => \A w \in Handlers : pc[w] \in Inside => seen[w] = row

RouteInv == \A w \in Workers : /\ pc[w] = "account" => route = "capture"
                               /\ pc[w] = "settle" => route # "none"

TurnInv == OneHandler /\ HandlersCarry /\ SyncInv /\ NobodyInside /\ SeenIsRow /\ RouteInv

\* What every step of a worker leaves alone: the other workers, and the report it works on.
LEMMA WorkFrame ==
    ASSUME TypeOK, NEW w \in Workers, Work(w)
    PROVE  /\ pc[w] # "idle"
           /\ \A v \in Workers : v # w => pc'[v] = pc[v] /\ job'[v] = job[v] /\ seen'[v] = seen[v]
           /\ pc'[w] # "idle" => job'[w] = job[w]
           /\ pc'[w] = "idle" => job'[w] = NoJob
           /\ UNCHANGED <<total, route, channel, broker, reports>>
           /\ Respond(w) \/ UNCHANGED pending
           /\ pending' \in {pending, pending \ {job[w].report}}
<1>1. CASE Fail(w)
    BY <1>1 DEF Fail, Goto, TypeOK
<1>2. CASE Lookup(w)
    BY <1>2 DEF Lookup, Goto, TypeOK
<1>3. CASE GetOrCreateBrokerAccount(w)
    BY <1>3 DEF GetOrCreateBrokerAccount, Goto, TypeOK
<1>4. CASE Settle(w)
    BY <1>4 DEF Settle, Goto, TypeOK
<1>5. CASE UpdateOrderFill(w)
    BY <1>5 DEF UpdateOrderFill, Goto, TypeOK
<1>6. CASE Respond(w)
    BY <1>6 DEF Respond, Goto, TypeOK
<1> QED
    BY <1>1, <1>2, <1>3, <1>4, <1>5, <1>6 DEF Work

\* handler.go: for a fill the broker reports, the event is its last quantity, price and status.
LEMMA EventOfFill ==
    ASSUME TypeOK, BrokerInv, NEW n \in Fills
    PROVE  /\ FillEvent(reports[n]).qty = reports[n].l
           /\ FillEvent(reports[n]).price = reports[n].L
           /\ FillEvent(reports[n]).status = reports[n].X
<1>1. reports[n].l \in Nat \ {0} /\ reports[n].L \in Nat \ {0}
    BY DEF BrokerInv, IsFillOf
<1> QED
    BY <1>1 DEF FillEvent, lastQty, lastPrice, Missing, Unparsable

\* A report keeps what it says, and the handler at work keeps the oldest one, when another is appended.
LEMMA EmitTurn ==
    ASSUME TypeOK, TurnInv, NEW rep \in Report, Emit(rep)
    PROVE  TurnInv'
<1>1. /\ Fills \subseteq Fills' /\ \A n \in Fills : reports'[n] = reports[n] /\ n < Len(reports) + 1 /\ n \in Nat
    BY EmitFills
<1>2. pending' \in {pending, pending \cup {Len(reports) + 1}} /\ UNCHANGED <<channel, route, row, pc, job, seen>>
    BY DEF Emit
<1>3. ASSUME NEW w \in Handlers, pc[w] # "idle" PROVE Carries(w)'
    <2>1. Carries(w)
        BY <1>3 DEF TurnInv, HandlersCarry
    <2>2. channel' # "shuffled" => \A m \in pending' : job'[w].report <= m
        BY <1>1, <1>2, <2>1 DEF Carries
    <2> QED
        BY <1>1, <1>2, <2>1, <2>2 DEF Carries
<1>4. HandlersCarry'
    BY <1>2, <1>3 DEF HandlersCarry
<1> QED
    BY <1>2, <1>4 DEF TurnInv, OneHandler, SyncInv, NobodyInside, SeenIsRow, RouteInv, Replies

\* TurnInv is inductive when webhooks are sent one after the other.
LEMMA TurnStep ==
    ASSUME ~Unordered, TypeOK, BrokerInv, TurnInv, [Next]_vars
    PROVE  TurnInv'
<1>0. Handlers \subseteq Workers /\ Sync \in Workers /\ Sync \notin Handlers /\ 0 \notin pending
    BY SyncAssumption DEF Workers, TypeOK
<1>1. ASSUME NEW qty \in 1 .. Target, NEW price \in Prices, BrokerFills(qty, price) PROVE TurnInv'
    BY <1>1, EmitTurn, BrokerReportType DEF BrokerFills
<1>2. CASE BrokerCancels
    BY <1>2, EmitTurn, BrokerReportType DEF BrokerCancels
<1>3. ASSUME NEW rep \in Noise, BrokerNotes(rep) PROVE TurnInv'
    BY <1>3, EmitTurn, BrokerReportType DEF BrokerNotes
<1>4. ASSUME NEW w \in Handlers, NEW n \in pending, Deliver(w, n) PROVE TurnInv'
    <2>1. /\ \A v \in Handlers : pc[v] = "idle"
          /\ channel # "shuffled" => \A m \in pending : n <= m
        BY <1>4 DEF Deliver, InTurn
    <2>2. n \in Fills
        BY <1>4 DEF Deliver, Fills, IsFill, TypeOK
    <2>3. /\ pc' = [pc EXCEPT ![w] = "lookup"] /\ job'[Sync] = job[Sync] /\ pc'[Sync] = pc[Sync]
          /\ job'[w] = [report |-> n, status |-> FillEvent(reports[n]).status,
                        qty |-> FillEvent(reports[n]).qty, price |-> FillEvent(reports[n]).price]
          /\ UNCHANGED <<route, channel, reports, pending, row, seen>>
        BY <1>0, <1>4 DEF Deliver, Goto, TypeOK
    <2>4. Fills' = Fills
        BY <2>3 DEF Fills, IsFill, Ignored, Malformed, lastQty, Missing
    <2>5. Carries(w)'
        BY <2>1, <2>2, <2>3, <2>4, EventOfFill DEF Carries
    <2>6. \A v \in Workers : pc'[v] = IF v = w THEN "lookup" ELSE pc[v]
        BY <1>0, <2>3 DEF TypeOK
    <2>7. OneHandler' /\ HandlersCarry'
        BY <1>0, <2>1, <2>5, <2>6 DEF OneHandler, HandlersCarry
    <2>8. SyncInv' /\ NobodyInside'
        BY <2>3, <2>6 DEF TurnInv, SyncInv, NobodyInside, Replies
    <2>9. SeenIsRow' /\ RouteInv'
        BY <1>0, <2>3, <2>6 DEF TurnInv, SeenIsRow, RouteInv, Inside, Replies
    <2> QED
        BY <2>7, <2>8, <2>9 DEF TurnInv
<1>5. ASSUME NEW n \in pending, Dismiss(n) PROVE TurnInv'
    <2>1. \A v \in Handlers : pc[v] = "idle"
        BY <1>5 DEF Dismiss, InTurn
    <2> QED
        BY <1>5, <2>1 DEF Dismiss, TurnInv, OneHandler, HandlersCarry, SyncInv, NobodyInside, SeenIsRow,
                          RouteInv, Inside, Replies
<1>6. CASE ConfirmOrder
    <2>1. row.status = "PENDING" /\ UNCHANGED <<total, route, channel, broker, reports, pending, pc, job, seen>>
        BY <1>6 DEF ConfirmOrder
    <2>2. row'.status # "PENDING"
        BY <1>6 DEF ConfirmOrder, replyStatus, TypeOK, Row
    <2>3. \A w \in Handlers : pc[w] \notin Inside
        BY <1>0, <2>1 DEF TurnInv, NobodyInside, Inside
    <2>4. HandlersCarry'
        BY <2>1 DEF TurnInv, HandlersCarry, Carries, Fills, IsFill, Ignored, Malformed, lastQty, Missing
    <2> QED
        BY <2>1, <2>2, <2>3, <2>4 DEF TurnInv, OneHandler, SyncInv, NobodyInside, SeenIsRow, RouteInv, Replies
<1>7. CASE ConfirmAndProcess
    <2>1. /\ row.status = "PENDING" /\ channel \in Replies
          /\ UNCHANGED <<total, route, channel, broker, reports, pending, seen>>
        BY <1>7 DEF ConfirmAndProcess
    <2>2. row'.status # "PENDING"
        BY <1>7 DEF ConfirmAndProcess, replyStatus, TypeOK, Row
    <2>3. /\ \A v \in Workers : pc'[v] = IF v = Sync THEN "lookup" ELSE pc[v]
          /\ \A v \in Workers : v # Sync => job'[v] = job[v]
          /\ job'[Sync].report = 0
        BY <1>0, <1>7 DEF ConfirmAndProcess, Goto, TypeOK
    <2>4. \A v \in Handlers : pc'[v] = pc[v] /\ job'[v] = job[v]
        BY <1>0, <2>3
    <2>5. HandlersCarry'
        BY <2>1, <2>4 DEF TurnInv, HandlersCarry, Carries, Fills, IsFill, Ignored, Malformed, lastQty, Missing
    <2>6. OneHandler' /\ SyncInv' /\ NobodyInside' /\ SeenIsRow' /\ RouteInv'
        BY <2>1, <2>2, <2>3, <2>4 DEF TurnInv, OneHandler, SyncInv, NobodyInside, SeenIsRow, RouteInv, Replies
    <2> QED
        BY <2>5, <2>6 DEF TurnInv
<1>8. ASSUME NEW w \in Workers, Work(w) PROVE TurnInv'
    <2>1. /\ pc[w] # "idle"
          /\ \A v \in Workers : v # w => pc'[v] = pc[v] /\ job'[v] = job[v] /\ seen'[v] = seen[v]
          /\ pc'[w] # "idle" => job'[w] = job[w]
          /\ pc'[w] = "idle" => job'[w] = NoJob
          /\ UNCHANGED <<total, route, channel, broker, reports>>
        BY <1>8, WorkFrame
    <2>2. OneHandler'
        BY <1>0, <2>1 DEF TurnInv, OneHandler
    <2>3. SyncInv'
        <3>1. job'[Sync].report = 0
            BY <1>0, <2>1 DEF TurnInv, SyncInv, NoJob
        <3>2. pc'[Sync] # "idle" => pc[Sync] # "idle"
            BY <1>0, <2>1
        <3>3. row.status # "PENDING" => row'.status # "PENDING"
            BY <1>8, NewRowType
               DEF Work, Fail, Lookup, GetOrCreateBrokerAccount, Settle, UpdateOrderFill, Respond
        <3> QED
            BY <2>1, <3>1, <3>2, <3>3 DEF TurnInv, SyncInv, Replies
    <2>4. ASSUME NEW v \in Handlers, pc'[v] # "idle" PROVE Carries(v)'
        <3>1. pc[v] # "idle" /\ job'[v] = job[v] /\ Carries(v)
            BY <1>0, <2>1, <2>4 DEF TurnInv, HandlersCarry
        <3>2. pending' \subseteq pending /\ job[v].report \in pending'
            <4>1. CASE UNCHANGED pending
                BY <3>1, <4>1 DEF Carries
            <4>2. CASE Respond(w)
                <5>1. pc'[w] = "idle" /\ pending' \in {pending, pending \ {job[w].report}}
                    BY <4>2 DEF Respond, Goto, TypeOK
                <5>2. w = Sync
                    BY <2>1, <2>4, <3>1, <5>1 DEF TurnInv, OneHandler, Workers
                <5> QED
                    BY <1>0, <3>1, <5>1, <5>2 DEF TurnInv, SyncInv, Carries
            <4> QED
                BY <1>8, <4>1, <4>2, WorkFrame
        <3>3. Fills' = Fills
            BY <2>1 DEF Fills, IsFill, Ignored, Malformed, lastQty, Missing
        <3> QED
            BY <2>1, <3>1, <3>2, <3>3 DEF Carries
    <2>5. HandlersCarry'
        BY <2>4 DEF HandlersCarry
    <2>6. NobodyInside' /\ SeenIsRow' /\ RouteInv'
        <3>1. CASE Fail(w) \/ Respond(w)
            <4>1. pc'[w] = "idle" /\ row' = row
                BY <3>1 DEF Fail, Respond, Goto, TypeOK
            <4> QED
                BY <1>0, <2>1, <4>1 DEF TurnInv, NobodyInside, SeenIsRow, RouteInv, Inside, Replies
        <3>2. CASE Lookup(w)
            <4>1. /\ row' = row /\ row.status # "PENDING" /\ seen'[w] = row
                  /\ pc'[w] = CASE route = "capture" -> "account" [] route = "none" -> "update" [] OTHER -> "settle"
                BY <3>2 DEF Lookup, Goto, TypeOK
            <4>2. (pc'[w] = "account" => route = "capture") /\ (pc'[w] = "settle" => route # "none")
                BY <4>1
            <4>3. NobodyInside' /\ SeenIsRow'
                BY <1>0, <2>1, <4>1 DEF TurnInv, NobodyInside, SeenIsRow, Inside, Replies
            <4> QED
                BY <2>1, <4>2, <4>3 DEF TurnInv, RouteInv
        <3>3. CASE GetOrCreateBrokerAccount(w)
            <4>1. pc[w] = "account" /\ pc'[w] = "settle" /\ row' = row /\ seen' = seen
                BY <3>3 DEF GetOrCreateBrokerAccount, Goto, TypeOK
            <4> QED
                BY <1>0, <2>1, <4>1 DEF TurnInv, NobodyInside, SeenIsRow, RouteInv, Inside, Replies
        <3>4. CASE Settle(w)
            <4>1. pc[w] = "settle" /\ row' = row /\ (pc'[w] = "idle" \/ (pc'[w] = "update" /\ seen' = seen))
                BY <3>4 DEF Settle, Goto, TypeOK
            <4> QED
                BY <1>0, <2>1, <4>1 DEF TurnInv, NobodyInside, SeenIsRow, RouteInv, Inside, Replies
        <3>5. CASE UpdateOrderFill(w)
            <4>1. pc[w] = "update" /\ pc'[w] = "respond" /\ seen' = seen /\ row'.status # "PENDING"
                BY <3>5, NewRowType DEF UpdateOrderFill, Goto, TypeOK
            <4>2. ASSUME channel \notin Replies, NEW v \in Handlers PROVE pc'[v] \notin Inside
                <5>1. w \in Handlers
                    BY <2>1, <4>2 DEF TurnInv, SyncInv, Workers
                <5> QED
                    BY <1>0, <2>1, <4>1, <5>1 DEF TurnInv, OneHandler, Inside
            <4> QED
                BY <2>1, <4>1, <4>2 DEF TurnInv, NobodyInside, SeenIsRow, RouteInv, Replies
        <3> QED
            BY <1>8, <3>1, <3>2, <3>3, <3>4, <3>5 DEF Work
    <2> QED
        BY <2>2, <2>3, <2>5, <2>6 DEF TurnInv
<1>9. CASE UNCHANGED vars
    BY <1>9 DEF vars, TurnInv, OneHandler, HandlersCarry, Carries, SyncInv, NobodyInside, SeenIsRow, RouteInv,
                Replies, Fills, IsFill, Ignored, Malformed, lastQty, Missing
<1> QED
    BY <1>1, <1>2, <1>3, <1>4, <1>5, <1>6, <1>7, <1>8, <1>9 DEF Next

\* When webhooks are sent one after the other, at most one handler is at work, it carries the report
\* that is next, and outside the replies nobody overtakes it.
LEMMA TurnInvariant == ASSUME ~Unordered PROVE Spec => []TurnInv
<1>1. Init => TurnInv
    <2> SUFFICES ASSUME Init PROVE TurnInv
        OBVIOUS
    <2>1. \A w \in Workers : pc[w] = "idle" /\ job[w] = NoJob
        BY DEF Init
    <2>2. Handlers \subseteq Workers /\ Sync \in Workers
        BY DEF Workers
    <2> QED
        BY <2>1, <2>2 DEF TurnInv, OneHandler, HandlersCarry, SyncInv, NobodyInside, SeenIsRow, RouteInv, Inside, NoJob
<1>2. TypeOK /\ BrokerInv /\ TurnInv /\ [Next]_vars => TurnInv'
    BY TurnStep
<1> QED
    BY <1>1, <1>2, TypeCorrect, BrokerInvariant, PTL DEF Spec

-----------------------------------------------------------------------------
(* The outstanding fills and their sums. *)

QtyOf == [n \in DOMAIN reports |-> reports[n].l]
ValueOf == [n \in DOMAIN reports |-> reports[n].l * reports[n].L]

OpenQty == SumFunctionOnSet(QtyOf, Outstanding)
OpenValue == SumFunctionOnSet(ValueOf, Outstanding)
OpenCount == Cardinality(Outstanding)

\* The properties speak of the same sums.
LEMMA OpenSums == OpenQty = Qty(Outstanding) /\ OpenValue = Value(Outstanding)
BY DEF OpenQty, OpenValue, Qty, Value, QtyOf, ValueOf

\* The outstanding fills are finitely many reports, each with a quantity and a value.
LEMMA OutstandingType ==
    ASSUME TypeOK, BrokerInv
    PROVE  /\ Outstanding \subseteq Fills /\ Fills \subseteq DOMAIN reports
           /\ IsFiniteSet(Outstanding) /\ OpenCount \in Nat
           /\ DOMAIN reports = 1 .. Len(reports) /\ Len(reports) \in Nat
           /\ QtyOf \in [DOMAIN reports -> Int] /\ ValueOf \in [DOMAIN reports -> Int]
           /\ OpenCount <= Len(reports)
<1>1. reports \in Seq(Report) /\ DOMAIN reports = 1 .. Len(reports) /\ Len(reports) \in Nat
    BY DEF TypeOK
<1>2. Outstanding \subseteq Fills /\ Fills \subseteq 1 .. Len(reports)
    BY DEF Outstanding, Fills, TypeOK
<1>3. IsFiniteSet(1 .. Len(reports)) /\ Cardinality(1 .. Len(reports)) = Len(reports)
    BY <1>1, FS_Interval
<1>4. IsFiniteSet(Outstanding) /\ Cardinality(Outstanding) <= Len(reports)
    <2>1. Outstanding \in SUBSET (1 .. Len(reports))
        BY <1>2
    <2> QED
        BY <1>3, <2>1, FS_Subset
<1>5. Cardinality(Outstanding) \in Nat
    BY <1>4, FS_CardinalityType
<1>6. ASSUME NEW n \in DOMAIN reports PROVE reports[n].l \in Int /\ reports[n].l * reports[n].L \in Int
    <2>1. reports[n] \in Report
        BY <1>1
    <2>2. Field \subseteq Int
        BY DEF Field, Unparsable
    <2>3. reports[n].l \in Int /\ reports[n].L \in Int
        BY <2>1, <2>2 DEF Report
    <2> QED
        BY <2>3
<1>7. QtyOf \in [DOMAIN reports -> Int] /\ ValueOf \in [DOMAIN reports -> Int]
    BY <1>6 DEF QtyOf, ValueOf
<1> QED
    BY <1>1, <1>2, <1>4, <1>5, <1>7 DEF OpenCount

\* No sum of outstanding fills is negative.
LEMMA OpenType ==
    ASSUME TypeOK, BrokerInv
    PROVE  OpenQty \in Nat /\ OpenValue \in Nat
<1>1. Outstanding \subseteq Fills /\ Fills \subseteq DOMAIN reports /\ IsFiniteSet(Outstanding)
    BY OutstandingType
<1> DEFINE q == [n \in Outstanding |-> reports[n].l]
           v == [n \in Outstanding |-> reports[n].l * reports[n].L]
<1>2. ASSUME NEW n \in Outstanding PROVE reports[n].l \in Nat /\ reports[n].l * reports[n].L \in Nat
    <2>1. reports[n].l \in Nat /\ reports[n].L \in Nat
        BY <1>1 DEF BrokerInv, IsFillOf
    <2> QED
        BY <2>1
<1>3. q \in [Outstanding -> Nat] /\ v \in [Outstanding -> Nat]
    BY <1>2
<1>4. \A n \in Outstanding : q[n] = QtyOf[n] /\ v[n] = ValueOf[n]
    BY <1>1 DEF QtyOf, ValueOf
<1> HIDE DEF q, v
<1>5. SumFunctionOnSet(q, Outstanding) \in Nat /\ SumFunctionOnSet(v, Outstanding) \in Nat
    BY <1>1, <1>3, SumNat
<1>6. SumFunctionOnSet(q, Outstanding) = OpenQty /\ SumFunctionOnSet(v, Outstanding) = OpenValue
    BY <1>1, <1>4, SumSame DEF OpenQty, OpenValue
<1> QED
    BY <1>5, <1>6

\* Nothing is summed anew when the outstanding fills stay.
LEMMA OpenSame ==
    ASSUME TypeOK, BrokerInv, Outstanding' = Outstanding,
           \A n \in Fills : n \in DOMAIN reports' /\ reports'[n] = reports[n]
    PROVE  OpenQty' = OpenQty /\ OpenValue' = OpenValue /\ OpenCount' = OpenCount
<1>1. Outstanding \subseteq Fills /\ Fills \subseteq DOMAIN reports /\ IsFiniteSet(Outstanding)
    BY OutstandingType
<1>2. \A n \in Outstanding : QtyOf'[n] = QtyOf[n] /\ ValueOf'[n] = ValueOf[n]
    BY <1>1 DEF QtyOf, ValueOf
<1>3. /\ SumFunctionOnSet(QtyOf', Outstanding) = SumFunctionOnSet(QtyOf, Outstanding)
      /\ SumFunctionOnSet(ValueOf', Outstanding) = SumFunctionOnSet(ValueOf, Outstanding)
    BY <1>1, <1>2, SumSame
<1>4. /\ OpenQty' = SumFunctionOnSet(QtyOf', Outstanding')
      /\ OpenValue' = SumFunctionOnSet(ValueOf', Outstanding')
    BY DEF OpenQty, OpenValue
<1> QED
    BY <1>3, <1>4 DEF OpenQty, OpenValue, OpenCount

\* A fill that joins adds its quantity and its value.
LEMMA OpenMore ==
    ASSUME TypeOK, BrokerInv, (TypeOK /\ BrokerInv)', NEW new \in Fills', new \notin Outstanding,
           Outstanding' = Outstanding \cup {new},
           \A n \in Fills : n \in DOMAIN reports' /\ reports'[n] = reports[n]
    PROVE  /\ OpenQty' = OpenQty + reports'[new].l
           /\ OpenValue' = OpenValue + reports'[new].l * reports'[new].L
           /\ OpenCount' = OpenCount + 1
<1>1. Outstanding \subseteq Fills /\ Fills \subseteq DOMAIN reports /\ IsFiniteSet(Outstanding)
    BY OutstandingType
<1>2. /\ QtyOf' \in [DOMAIN reports' -> Int] /\ ValueOf' \in [DOMAIN reports' -> Int]
      /\ new \in DOMAIN reports' /\ Outstanding \in SUBSET DOMAIN reports'
    <2>1. (Fills \subseteq DOMAIN reports /\ QtyOf \in [DOMAIN reports -> Int] /\ ValueOf \in [DOMAIN reports -> Int])'
        BY OutstandingType, PTL
    <2> QED
        BY <1>1, <2>1
<1>3. \A n \in Outstanding : QtyOf'[n] = QtyOf[n] /\ ValueOf'[n] = ValueOf[n]
    BY <1>1 DEF QtyOf, ValueOf
<1>4. /\ SumFunctionOnSet(QtyOf', Outstanding) = OpenQty
      /\ SumFunctionOnSet(ValueOf', Outstanding) = OpenValue
    BY <1>1, <1>3, SumSame DEF OpenQty, OpenValue
<1>5. /\ SumFunctionOnSet(QtyOf', Outstanding \cup {new}) = SumFunctionOnSet(QtyOf', Outstanding) + QtyOf'[new]
      /\ SumFunctionOnSet(ValueOf', Outstanding \cup {new}) = SumFunctionOnSet(ValueOf', Outstanding) + ValueOf'[new]
    BY <1>1, <1>2, SumAdd
<1>6. QtyOf'[new] = reports'[new].l /\ ValueOf'[new] = reports'[new].l * reports'[new].L
    BY <1>2 DEF QtyOf, ValueOf
<1>7. /\ OpenQty' = SumFunctionOnSet(QtyOf', Outstanding')
      /\ OpenValue' = SumFunctionOnSet(ValueOf', Outstanding')
    BY DEF OpenQty, OpenValue
<1>8. OpenCount' = OpenCount + 1
    BY <1>1, FS_AddElement DEF OpenCount
<1> QED
    BY <1>4, <1>5, <1>6, <1>7, <1>8

\* A fill that leaves takes its quantity and its value with it.
LEMMA OpenLess ==
    ASSUME TypeOK, BrokerInv, NEW n \in Outstanding, Outstanding' = Outstanding \ {n}, reports' = reports
    PROVE  /\ OpenQty' = OpenQty - reports[n].l
           /\ OpenValue' = OpenValue - reports[n].l * reports[n].L
           /\ OpenCount' = OpenCount - 1
<1>1. Outstanding \subseteq Fills /\ Fills \subseteq DOMAIN reports /\ IsFiniteSet(Outstanding)
    BY OutstandingType
<1>2. QtyOf \in [DOMAIN reports -> Int] /\ ValueOf \in [DOMAIN reports -> Int]
    BY OutstandingType
<1>3. QtyOf' = QtyOf /\ ValueOf' = ValueOf
    BY DEF QtyOf, ValueOf
<1>4. /\ SumFunctionOnSet(QtyOf, Outstanding \ {n}) = SumFunctionOnSet(QtyOf, Outstanding) - QtyOf[n]
      /\ SumFunctionOnSet(ValueOf, Outstanding \ {n}) = SumFunctionOnSet(ValueOf, Outstanding) - ValueOf[n]
    BY <1>1, <1>2, SumRemove
<1>5. QtyOf[n] = reports[n].l /\ ValueOf[n] = reports[n].l * reports[n].L
    BY <1>1 DEF QtyOf, ValueOf
<1>6. /\ OpenQty' = SumFunctionOnSet(QtyOf', Outstanding')
      /\ OpenValue' = SumFunctionOnSet(ValueOf', Outstanding')
    BY DEF OpenQty, OpenValue
<1>7. OpenCount' = OpenCount - 1
    BY <1>1, FS_RemoveElement DEF OpenCount
<1> QED
    BY <1>3, <1>4, <1>5, <1>6, <1>7 DEF OpenQty, OpenValue

\* A fill is outstanding while the sender keeps it and nobody is about to answer it.
Answering(n) == \E w \in Workers : pc[w] = "respond" /\ job[w].report = n

\* Outstanding, in these words.
LEMMA OutstandingIs ==
    /\ TypeOK => Outstanding = {n \in pending : n \in Fills /\ ~Answering(n)}
    /\ TypeOK' => Outstanding' = {n \in pending' : n \in Fills' /\ ~Answering(n)'}
<1>1. TypeOK => Outstanding = {n \in pending : n \in Fills /\ ~Answering(n)}
    BY DEF Outstanding, TypeOK, Fills, Answering
<1>2. (TypeOK => Outstanding = {n \in pending : n \in Fills /\ ~Answering(n)})'
    BY <1>1, PTL
<1> QED
    BY <1>1, <1>2

\* Emit: a new fill is outstanding unless only the reply will tell of it.
LEMMA EmitOutstanding ==
    ASSUME TypeOK, TypeOK', TurnInv, NEW rep \in Report, Emit(rep), NEW new \in Nat, new = Len(reports) + 1
    PROVE  /\ new \notin Outstanding
           /\ \A n \in Fills : n \in DOMAIN reports' /\ reports'[n] = reports[n]
           /\ ~IsFill(rep) => Outstanding' = Outstanding
           /\ IsFill(rep) =>
                 /\ new \in Fills' /\ reports'[new] = rep
                 /\ Outstanding' = IF channel = "reply" /\ row.status = "PENDING" THEN Outstanding
                                   ELSE Outstanding \cup {new}
<1>1. /\ reports' \in Seq(Report) /\ Len(reports') = Len(reports) + 1 /\ Len(reports) \in Nat
      /\ \A n \in 1 .. Len(reports) : reports'[n] = reports[n]
      /\ reports'[new] = rep
    BY EmitType
<1>2. pending \subseteq 1 .. Len(reports) /\ new \notin pending
    BY <1>1 DEF TypeOK
<1>3. new \notin Outstanding
    BY <1>2 DEF Outstanding
<1>4. \A n \in Fills : n \in DOMAIN reports' /\ reports'[n] = reports[n]
    BY <1>1 DEF Fills
<1>5. \A n : Answering(n)' <=> Answering(n)
    BY DEF Answering, Emit
<1>6. ~Answering(new)
    <2> SUFFICES ASSUME NEW w \in Workers, pc[w] = "respond", job[w].report = new PROVE FALSE
        BY DEF Answering
    <2>1. w = Sync => FALSE
        BY <1>1 DEF TurnInv, SyncInv
    <2>2. w \in Handlers => FALSE
        BY <1>2 DEF TurnInv, HandlersCarry, Carries
    <2> QED
        BY <2>1, <2>2 DEF Workers
<1>7. /\ Outstanding = {n \in pending : n \in Fills /\ ~Answering(n)}
      /\ Outstanding' = {n \in pending' : n \in Fills' /\ ~Answering(n)'}
    BY OutstandingIs
<1>8. ASSUME ~IsFill(rep) PROVE Outstanding' = Outstanding
    <2>1. Fills' = Fills /\ new \notin Fills /\ pending' \in {pending, pending \cup {new}}
        BY <1>1, <1>8, EmitFills DEF Emit, Fills
    <2> QED
        BY <1>5, <1>7, <2>1
<1>9. ASSUME IsFill(rep)
      PROVE  /\ new \in Fills'
             /\ Outstanding' = IF channel = "reply" /\ row.status = "PENDING" THEN Outstanding
                               ELSE Outstanding \cup {new}
    <2>1. Fills' = Fills \cup {new}
        BY <1>9, EmitFills
    <2>2. pending' = IF channel = "reply" /\ row.status = "PENDING" THEN pending ELSE pending \cup {new}
        BY DEF Emit
    <2> QED
        BY <1>2, <1>5, <1>6, <1>7, <2>1, <2>2
<1> QED
    BY <1>1, <1>3, <1>4, <1>8, <1>9

\* What neither reports nor writes nor answers leaves the outstanding fills alone.
LEMMA QuietOutstanding ==
    ASSUME TypeOK, TypeOK', NEW w \in Workers,
           \/ \E n \in pending : Deliver(w, n) \/ Dismiss(n)
           \/ ConfirmOrder \/ ConfirmAndProcess
           \/ Fail(w) \/ Lookup(w) \/ GetOrCreateBrokerAccount(w) \/ Settle(w)
           \/ UNCHANGED vars,
           row.status = "PENDING" => pc[Sync] # "respond"
    PROVE  Outstanding' = Outstanding /\ UNCHANGED <<total, route, channel, broker, reports>>
<1>1. /\ Outstanding = {n \in pending : n \in Fills /\ ~Answering(n)}
      /\ Outstanding' = {n \in pending' : n \in Fills' /\ ~Answering(n)'}
    BY OutstandingIs
<1>2. UNCHANGED <<total, route, channel, broker, reports>>
    BY DEF Deliver, Dismiss, ConfirmOrder, ConfirmAndProcess, Fail, Lookup, GetOrCreateBrokerAccount, Settle, vars
<1>3. Fills' = Fills
    BY <1>2 DEF Fills, IsFill, Ignored, Malformed, lastQty, Missing
<1>4. ASSUME NEW v \in Workers,
             pc[v] # "respond", pc'[v] # "respond",
             \A u \in Workers : u # v => pc'[u] = pc[u] /\ job'[u] = job[u]
      PROVE  \A n : Answering(n)' <=> Answering(n)
    BY <1>4 DEF Answering
<1>5. CASE \E n \in pending : Dismiss(n)
    <2>1. PICK k \in pending : Dismiss(k)
        BY <1>5
    <2>2. pending' = pending \ {k} /\ k \notin Fills
        BY <2>1 DEF Dismiss, Fills, IsFill, TypeOK
    <2>3. \A n : Answering(n)' <=> Answering(n)
        BY <2>1 DEF Dismiss, Answering
    <2> QED
        BY <1>1, <1>2, <1>3, <2>2, <2>3
<1>6. CASE ConfirmAndProcess
    <2>1. pending' = pending
        BY <1>6 DEF ConfirmAndProcess
    <2>2. /\ Sync \in Workers /\ pc[Sync] # "respond" /\ pc'[Sync] # "respond"
          /\ \A u \in Workers : u # Sync => pc'[u] = pc[u] /\ job'[u] = job[u]
        BY <1>6 DEF ConfirmAndProcess, Goto, TypeOK, Workers
    <2> QED
        BY <1>1, <1>2, <1>3, <1>4, <2>1, <2>2
<1>7. CASE \E n \in pending : Deliver(w, n)
    <2>1. pending' = pending
        BY <1>7 DEF Deliver
    <2>2. /\ pc[w] # "respond" /\ pc'[w] # "respond"
          /\ \A u \in Workers : u # w => pc'[u] = pc[u] /\ job'[u] = job[u]
        BY <1>7 DEF Deliver, Goto, TypeOK
    <2> QED
        BY <1>1, <1>2, <1>3, <1>4, <2>1, <2>2
<1>8. CASE Fail(w) \/ Lookup(w) \/ GetOrCreateBrokerAccount(w) \/ Settle(w)
    <2>1. pending' = pending
        BY <1>8 DEF Fail, Lookup, GetOrCreateBrokerAccount, Settle
    <2>2. /\ pc[w] # "respond" /\ pc'[w] # "respond"
          /\ \A u \in Workers : u # w => pc'[u] = pc[u] /\ job'[u] = job[u]
        BY <1>8 DEF Fail, Lookup, GetOrCreateBrokerAccount, Settle, Goto, TypeOK
    <2> QED
        BY <1>1, <1>2, <1>3, <1>4, <2>1, <2>2
<1>9. CASE ConfirmOrder \/ UNCHANGED vars
    <2>1. pending' = pending /\ pc' = pc /\ job' = job
        BY <1>9 DEF ConfirmOrder, vars
    <2>2. \A n : Answering(n)' <=> Answering(n)
        BY <2>1 DEF Answering
    <2> QED
        BY <1>1, <1>2, <1>3, <2>1, <2>2
<1> QED
    BY <1>5, <1>6, <1>7, <1>8, <1>9

\* UpdateOrderFill: the fill is written; its answer will follow.
LEMMA UpdateOutstanding ==
    ASSUME TypeOK, TypeOK', NEW w \in Workers, UpdateOrderFill(w)
    PROVE  /\ Outstanding' = Outstanding \ {job[w].report}
           /\ UNCHANGED <<total, route, channel, broker, reports>>
<1>1. /\ Outstanding = {n \in pending : n \in Fills /\ ~Answering(n)}
      /\ Outstanding' = {n \in pending' : n \in Fills' /\ ~Answering(n)'}
    BY OutstandingIs
<1>2. UNCHANGED <<total, route, channel, broker, reports, pending>>
    BY DEF UpdateOrderFill
<1>3. Fills' = Fills
    BY <1>2 DEF Fills, IsFill, Ignored, Malformed, lastQty, Missing
<1>4. /\ pc[w] # "respond" /\ pc'[w] = "respond" /\ job' = job
      /\ \A u \in Workers : u # w => pc'[u] = pc[u]
    BY DEF UpdateOrderFill, Goto, TypeOK
<1>5. \A n : Answering(n)' <=> Answering(n) \/ n = job[w].report
    BY <1>4 DEF Answering
<1> QED
    BY <1>1, <1>2, <1>3, <1>5

\* Respond: an answered fill was not outstanding any more, but one sent again is.
LEMMA RespondOutstanding ==
    ASSUME TypeOK, TypeOK', NEW w \in Workers, Respond(w)
    PROVE  /\ Outstanding \subseteq Outstanding'
           /\ Outstanding' \subseteq Outstanding \cup {job[w].report}
           /\ channel # "repeat" => Outstanding' = Outstanding
           /\ UNCHANGED <<total, route, channel, broker, reports>>
<1>1. /\ Outstanding = {n \in pending : n \in Fills /\ ~Answering(n)}
      /\ Outstanding' = {n \in pending' : n \in Fills' /\ ~Answering(n)'}
    BY OutstandingIs
<1>2. /\ UNCHANGED <<total, route, channel, broker, reports>>
      /\ pending' = pending \ {job[w].report} \/ (channel = "repeat" /\ pending' = pending)
    BY DEF Respond
<1>3. Fills' = Fills
    BY <1>2 DEF Fills, IsFill, Ignored, Malformed, lastQty, Missing
<1>4. /\ pc[w] = "respond" /\ pc'[w] # "respond"
      /\ \A u \in Workers : u # w => pc'[u] = pc[u] /\ job'[u] = job[u]
    BY DEF Respond, Goto, TypeOK
<1>5. Answering(job[w].report) /\ \A n : (Answering(n)' => Answering(n))
                               /\ (Answering(n) => Answering(n)' \/ n = job[w].report)
    BY <1>4 DEF Answering
<1> QED
    BY <1>1, <1>2, <1>3, <1>5

\* A worker between reading and writing, outside the replies: it is a handler with an outstanding
\* fill, and it read the row as it still is.
LEMMA AtWork ==
    ASSUME TypeOK, BrokerInv, TurnInv, channel \notin Replies, NEW w \in Workers, pc[w] \in Inside
    PROVE  /\ w \in Handlers /\ job[w].report \in Outstanding /\ job[w].report \in Fills
           /\ job[w].qty = reports[job[w].report].l
           /\ job[w].price = reports[job[w].report].L
           /\ job[w].status = reports[job[w].report].X
           /\ seen[w] = row
           /\ newFilledQty(w) = row.filled + reports[job[w].report].l
           /\ channel # "shuffled" => \A m \in pending : job[w].report <= m
<1>1. pc[w] # "idle" /\ pc[w] # "respond"
    BY DEF Inside
<1>2. w \in Handlers
    BY <1>1 DEF TurnInv, SyncInv, Workers
<1>3. Carries(w) /\ seen[w] = row
    BY <1>1, <1>2 DEF TurnInv, HandlersCarry, SeenIsRow
<1>4. ~Answering(job[w].report)
    <2> SUFFICES ASSUME NEW v \in Workers, pc[v] = "respond", job[v].report = job[w].report PROVE FALSE
        BY DEF Answering
    <2>1. v # Sync
        BY DEF TurnInv, SyncInv
    <2>2. v \in Handlers
        BY <2>1 DEF Workers
    <2> QED
        BY <1>1, <1>2, <2>2 DEF TurnInv, OneHandler
<1>5. job[w].report \in Outstanding
    BY <1>3, <1>4, OutstandingIs DEF Carries
<1> QED
    BY <1>2, <1>3, <1>5 DEF Carries, newFilledQty

\* The broker reports a fill: it is outstanding, unless only the reply will tell of it.
FillReported(new, qty, price) ==
    /\ new = Len(reports) + 1 /\ Len(reports') = Len(reports) + 1
    /\ Fills' = Fills \cup {new} /\ new \notin Fills
    /\ \A n \in Fills : n < new /\ reports'[n] = reports[n]
    /\ reports'[new].l = qty /\ reports'[new].L = price /\ reports'[new].z = broker.qty + qty
    /\ broker'.qty = broker.qty + qty /\ broker'.value = broker.value + qty * price
    /\ UNCHANGED <<total, route, channel, row, pc, job, seen, ledger>>

Counted(new, qty, price) ==
    /\ Outstanding' = Outstanding \cup {new}
    /\ pending' = pending \cup {new}
    /\ OpenQty' = OpenQty + qty /\ OpenValue' = OpenValue + qty * price /\ OpenCount' = OpenCount + 1

Uncounted ==
    /\ Outstanding' = Outstanding
    /\ OpenQty' = OpenQty /\ OpenValue' = OpenValue /\ OpenCount' = OpenCount

\* The broker reports something else.
OtherReported(new) ==
    /\ new = Len(reports) + 1 /\ Len(reports') = Len(reports) + 1
    /\ Fills' = Fills /\ new \notin Fills
    /\ \A n \in Fills : n < new /\ reports'[n] = reports[n]
    /\ broker'.qty = broker.qty /\ broker'.value = broker.value
    /\ pending' \in {pending, pending \cup {new}}
    /\ Uncounted
    /\ UNCHANGED <<total, route, channel, row, pc, job, seen, ledger>>

\* No report, no settlement, no row written, no answer given.
Quiet ==
    /\ Uncounted
    /\ UNCHANGED <<total, route, channel, broker, reports, ledger>>
    /\ pending' \subseteq pending /\ Fills' = Fills

\* BrokerFills, as the invariants see it.
LEMMA BrokerFillsKind ==
    ASSUME TypeOK, BrokerInv, TurnInv, (TypeOK /\ BrokerInv)',
           NEW qty \in 1 .. Target, NEW price \in Prices, BrokerFills(qty, price)
    PROVE  \E new \in Nat :
              /\ FillReported(new, qty, price)
              /\ IF channel = "reply" /\ row.status = "PENDING" THEN Uncounted /\ pending' = pending
                                                                ELSE Counted(new, qty, price)
<1> DEFINE qty2 == broker.qty + qty
           rep == [x |-> "TRADE", X |-> IF qty2 = total THEN "FILLED" ELSE "PARTIALLY_FILLED",
                   l |-> qty, z |-> qty2, L |-> price, Z |-> broker.value + qty * price]
<1>1. /\ rep \in Report /\ Emit(rep)
      /\ broker'.qty = broker.qty + qty /\ broker'.value = broker.value + qty * price
    BY BrokerReportType DEF BrokerFills, TypeOK
<1>2. rep.z = broker.qty + qty /\ rep.l = qty /\ rep.L = price
    OBVIOUS
<1>3. IsFill(rep)
    BY WhatIsFill, TargetAssumption
<1> HIDE DEF rep
<1>4. PICK new \in Nat : new = Len(reports) + 1
    BY DEF TypeOK
<1>5. /\ new \notin Outstanding /\ new \in Fills' /\ reports'[new] = rep
      /\ \A n \in Fills : n \in DOMAIN reports' /\ reports'[n] = reports[n]
      /\ Outstanding' = IF channel = "reply" /\ row.status = "PENDING" THEN Outstanding
                        ELSE Outstanding \cup {new}
    BY <1>1, <1>3, <1>4, EmitOutstanding
<1>6. /\ Fills' = Fills \cup {new} /\ new \notin Fills /\ \A n \in Fills : n < new
      /\ Len(reports') = Len(reports) + 1
    BY <1>1, <1>3, <1>4, EmitFills, EmitType DEF Fills
<1>7. /\ UNCHANGED <<total, route, channel, row, pc, job, seen, ledger>>
      /\ pending' = IF channel = "reply" /\ row.status = "PENDING" THEN pending ELSE pending \cup {new}
    BY <1>1, <1>4 DEF Emit
<1>8. FillReported(new, qty, price)
    BY <1>1, <1>2, <1>4, <1>5, <1>6, <1>7 DEF FillReported
<1>9. CASE channel = "reply" /\ row.status = "PENDING"
    <2>1. OpenQty' = OpenQty /\ OpenValue' = OpenValue /\ OpenCount' = OpenCount
        BY <1>5, <1>9, OpenSame
    <2> QED
        BY <1>5, <1>7, <1>8, <1>9, <2>1 DEF Uncounted
<1>10. CASE ~(channel = "reply" /\ row.status = "PENDING")
    <2>1. Outstanding' = Outstanding \cup {new} /\ pending' = pending \cup {new}
        BY <1>5, <1>7, <1>10
    <2>2. /\ OpenQty' = OpenQty + reports'[new].l /\ OpenCount' = OpenCount + 1
          /\ OpenValue' = OpenValue + reports'[new].l * reports'[new].L
        BY <1>5, <2>1, OpenMore
    <2> QED
        BY <1>2, <1>5, <1>8, <1>10, <2>1, <2>2 DEF Counted
<1> QED
    BY <1>9, <1>10

\* Every step is of one of six kinds.
LEMMA NextKinds ==
    ASSUME TypeOK, BrokerInv, TurnInv, (TypeOK /\ BrokerInv)', [Next]_vars
    PROVE  \/ \E qty \in 1 .. Target, price \in Prices : BrokerFills(qty, price)
           \/ \E new \in Nat : OtherReported(new)
           \/ Quiet /\ UNCHANGED row
           \/ Quiet /\ (ConfirmOrder \/ ConfirmAndProcess)
           \/ \E w \in Workers : Settle(w) \/ UpdateOrderFill(w) \/ Respond(w)
<1>0. row.status = "PENDING" => pc[Sync] # "respond"
    BY DEF TurnInv, SyncInv
<1>1. ASSUME NEW rep \in Report, ~IsFill(rep), Emit(rep), broker'.qty = broker.qty, broker'.value = broker.value
      PROVE  \E new \in Nat : OtherReported(new)
    <2>1. PICK new \in Nat : new = Len(reports) + 1
        BY DEF TypeOK
    <2>2. /\ Outstanding' = Outstanding /\ Fills' = Fills
          /\ \A n \in Fills : n \in DOMAIN reports' /\ reports'[n] = reports[n]
        BY <1>1, <2>1, EmitOutstanding, EmitFills
    <2>3. new \notin Fills /\ (\A n \in Fills : n < new) /\ Len(reports') = Len(reports) + 1
        BY <1>1, <2>1, EmitFills, EmitType DEF Fills
    <2>4. UNCHANGED <<total, route, channel, row, pc, job, seen, ledger>> /\ pending' \in {pending, pending \cup {new}}
        BY <1>1, <2>1 DEF Emit
    <2>5. Uncounted
        BY <2>2, OpenSame DEF Uncounted
    <2> QED
        BY <1>1, <2>1, <2>2, <2>3, <2>4, <2>5 DEF OtherReported
<1>2. ASSUME BrokerCancels PROVE \E new \in Nat : OtherReported(new)
    <2> DEFINE rep == [x |-> "CANCELED", X |-> "CANCELED", l |-> 0, z |-> broker.qty, L |-> 0,
                       Z |-> broker.value]
    <2>1. rep \in Report /\ ~IsFill(rep) /\ Emit(rep) /\ broker'.qty = broker.qty /\ broker'.value = broker.value
        BY <1>2, BrokerReportType, WhatIsFill DEF BrokerCancels, TypeOK
    <2> HIDE DEF rep
    <2> QED
        BY <1>1, <2>1
<1>3. ASSUME NEW rep \in Noise, BrokerNotes(rep) PROVE \E new \in Nat : OtherReported(new)
    <2>1. rep \in Report /\ ~IsFill(rep) /\ Emit(rep) /\ broker'.qty = broker.qty /\ broker'.value = broker.value
        BY <1>3, BrokerReportType, WhatIsFill DEF BrokerNotes
    <2> QED
        BY <1>1, <2>1
<1>4. ASSUME NEW w \in Workers,
             \/ \E n \in pending : Deliver(w, n) \/ Dismiss(n)
             \/ ConfirmOrder \/ ConfirmAndProcess
             \/ Fail(w) \/ Lookup(w) \/ GetOrCreateBrokerAccount(w)
             \/ UNCHANGED vars
      PROVE  Quiet
    <2>1. Outstanding' = Outstanding /\ UNCHANGED <<total, route, channel, broker, reports>>
        BY <1>0, <1>4, QuietOutstanding
    <2>2. UNCHANGED ledger /\ pending' \subseteq pending
        BY <1>4 DEF Deliver, Dismiss, ConfirmOrder, ConfirmAndProcess, Fail, Lookup, GetOrCreateBrokerAccount, vars
    <2>3. Fills' = Fills
        BY <2>1 DEF Fills, IsFill, Ignored, Malformed, lastQty, Missing
    <2>4. \A n \in Fills : n \in DOMAIN reports' /\ reports'[n] = reports[n]
        BY <2>1, OutstandingType
    <2>5. Uncounted
        BY <2>1, <2>4, OpenSame DEF Uncounted
    <2> QED
        BY <2>1, <2>2, <2>3, <2>5 DEF Quiet
<1>5. ASSUME NEW w \in Workers,
             \/ \E n \in pending : Deliver(w, n) \/ Dismiss(n)
             \/ Fail(w) \/ Lookup(w) \/ GetOrCreateBrokerAccount(w)
             \/ UNCHANGED vars
      PROVE  Quiet /\ UNCHANGED row
    <2>1. UNCHANGED row
        BY <1>5 DEF Deliver, Dismiss, Fail, Lookup, GetOrCreateBrokerAccount, vars
    <2> QED
        BY <1>4, <1>5, <2>1
<1>6. Handlers \subseteq Workers /\ Sync \in Workers
    BY DEF Workers
<1>7. ASSUME ConfirmOrder \/ ConfirmAndProcess PROVE Quiet
    BY <1>4, <1>6, <1>7
<1>8. CASE UNCHANGED vars
    BY <1>5, <1>6, <1>8
<1>9. CASE Next
    BY <1>2, <1>3, <1>5, <1>6, <1>7, <1>9 DEF Next, Work
<1> QED
    BY <1>8, <1>9

\* Settle leaves the row, the reports and the outstanding fills alone.
LEMMA SettleFrame ==
    ASSUME TypeOK, BrokerInv, TurnInv, (TypeOK /\ BrokerInv)', NEW w \in Workers, Settle(w)
    PROVE  /\ Uncounted /\ Fills' = Fills /\ pc[w] \in Inside
           /\ UNCHANGED <<total, route, channel, broker, reports, pending, row>>
<1>1. row.status = "PENDING" => pc[Sync] # "respond"
    BY DEF TurnInv, SyncInv
<1>2. Outstanding' = Outstanding
    BY <1>1, QuietOutstanding
<1>3. UNCHANGED <<total, route, channel, broker, reports, pending, row>> /\ pc[w] \in Inside
    BY DEF Settle, Inside
<1>4. Fills' = Fills
    BY <1>3 DEF Fills, IsFill, Ignored, Malformed, lastQty, Missing
<1>5. \A n \in Fills : n \in DOMAIN reports' /\ reports'[n] = reports[n]
    BY <1>3, OutstandingType
<1> QED
    BY <1>2, <1>3, <1>4, <1>5, OpenSame DEF Uncounted

\* An answer, unless it is lost, changes no sum.
LEMMA RespondFrame ==
    ASSUME TypeOK, BrokerInv, (TypeOK /\ BrokerInv)', NEW w \in Workers, Respond(w)
    PROVE  /\ channel # "repeat" => Uncounted
           /\ Outstanding \subseteq Outstanding' /\ Outstanding' \subseteq Outstanding \cup {job[w].report}
           /\ Fills' = Fills /\ pending' \subseteq pending
           /\ UNCHANGED <<total, route, channel, broker, reports, row, ledger>>
<1>1. UNCHANGED <<total, route, channel, broker, reports, row, ledger>> /\ pending' \subseteq pending
    BY DEF Respond
<1>2. Fills' = Fills
    BY <1>1 DEF Fills, IsFill, Ignored, Malformed, lastQty, Missing
<1>3. \A n \in Fills : n \in DOMAIN reports' /\ reports'[n] = reports[n]
    BY <1>1, OutstandingType
<1>4. /\ channel # "repeat" => Outstanding' = Outstanding
      /\ Outstanding \subseteq Outstanding' /\ Outstanding' \subseteq Outstanding \cup {job[w].report}
    BY RespondOutstanding
<1>5. channel # "repeat" => Uncounted
    BY <1>3, <1>4, OpenSame DEF Uncounted
<1> QED
    BY <1>1, <1>2, <1>4, <1>5

\* A handler that writes the row takes its fill out of the sums.
LEMMA UpdateFrame ==
    ASSUME TypeOK, BrokerInv, TurnInv, (TypeOK /\ BrokerInv)', NEW w \in Workers, UpdateOrderFill(w)
    PROVE  /\ Outstanding' = Outstanding \ {job[w].report}
           /\ pc[w] \in Inside /\ Fills' = Fills
           /\ row' = [status |-> newStatus(w), filled |-> newFilledQty(w), avg |-> newAvgPrice(w)]
           /\ job[w].report \in Outstanding =>
                 /\ OpenQty' = OpenQty - reports[job[w].report].l
                 /\ OpenValue' = OpenValue - reports[job[w].report].l * reports[job[w].report].L
                 /\ OpenCount' = OpenCount - 1
           /\ job[w].report \notin Outstanding => Uncounted
           /\ UNCHANGED <<total, route, channel, broker, reports, pending, ledger, job, seen>>
<1>0. PICK n : n = job[w].report
    OBVIOUS
<1>1. /\ UNCHANGED <<total, route, channel, broker, reports, pending, ledger, job, seen>> /\ pc[w] \in Inside
      /\ row' = [status |-> newStatus(w), filled |-> newFilledQty(w), avg |-> newAvgPrice(w)]
    BY DEF UpdateOrderFill, Inside
<1>2. Fills' = Fills
    BY <1>1 DEF Fills, IsFill, Ignored, Malformed, lastQty, Missing
<1>3. Outstanding' = Outstanding \ {n}
    BY <1>0, UpdateOutstanding
<1>4. ASSUME n \in Outstanding
      PROVE  /\ OpenQty' = OpenQty - reports[n].l /\ OpenCount' = OpenCount - 1
             /\ OpenValue' = OpenValue - reports[n].l * reports[n].L
    BY <1>1, <1>3, <1>4, OpenLess
<1>5. ASSUME n \notin Outstanding PROVE Uncounted
    <2>1. Outstanding' = Outstanding /\ \A k \in Fills : k \in DOMAIN reports' /\ reports'[k] = reports[k]
        BY <1>1, <1>3, <1>5, OutstandingType
    <2> QED
        BY <2>1, OpenSame DEF Uncounted
<1> QED
    BY <1>0, <1>1, <1>2, <1>3, <1>4, <1>5

-----------------------------------------------------------------------------
(* Webhooks that come in order. *)

\* The fills up to filled_quantity are answered, the ones after it are outstanding.
OrderInv == channel = "webhook" =>
    /\ row.filled <= broker.qty
    /\ \A n \in Fills : n \in Outstanding => row.filled <= Before(n)
    /\ \A n \in Fills : n \notin Outstanding => reports[n].z <= row.filled
    /\ row.status = "FILLED" => row.filled = total

\* The quantity sent is the target cut to a step.
LEMMA TotalIsTruncated ==
    ASSUME BrokerInv
    PROVE  /\ total \in Nat /\ total <= Target
           /\ \E stepSize \in Steps : total % stepSize = 0 /\ Target - total < stepSize
<1>1. PICK stepSize \in Steps : total = TruncateToStepSize(Target, stepSize)
    BY DEF BrokerInv
<1>2. stepSize \in 1 .. 2 * Scale - 1 /\ Target \in Nat
    BY StepsAssumption, TargetAssumption
<1>3. total \in Nat /\ total <= Target /\ Target - total < stepSize /\ total % stepSize = 0
    BY <1>1, <1>2, TruncateIsFloor
<1> QED
    BY <1>3

\* The numbers of a fill.
LEMMA FillNumbers ==
    ASSUME TypeOK, BrokerInv, NEW n \in Fills
    PROVE  /\ reports[n].l \in Nat \ {0} /\ reports[n].L \in Nat \ {0} /\ reports[n].z \in Nat
           /\ Before(n) \in Nat /\ Before(n) < reports[n].z /\ Before(n) + reports[n].l = reports[n].z
           /\ reports[n].z <= broker.qty /\ reports[n].z <= total /\ n \in Nat
           /\ reports[n].X = "FILLED" <=> reports[n].z = total
<1>1. IsFillOf(reports[n]) /\ n \in Nat /\ broker.qty <= total /\ broker.qty \in Nat /\ total \in Nat
    BY DEF BrokerInv, Fills, TypeOK
<1> QED
    BY <1>1 DEF IsFillOf, Before

\* fill_processor.go: the sum of the row that was read and the event's quantity is the cumulative
\* quantity of the report, and FILLED is computed only from the last one.
LEMMA NextInLine ==
    ASSUME TypeOK, BrokerInv, TurnInv, OrderInv, channel = "webhook", NEW w \in Workers, pc[w] \in Inside
    PROVE  /\ newFilledQty(w) = reports[job[w].report].z
           /\ row.filled = Before(job[w].report)
           /\ row.filled < newFilledQty(w) /\ newFilledQty(w) <= broker.qty /\ newFilledQty(w) <= total
           /\ newStatus(w) = "FILLED" <=> newFilledQty(w) = total
<1>0. PICK n : n = job[w].report
    OBVIOUS
<1>1. /\ n \in Outstanding /\ n \in Fills /\ job[w].status = reports[n].X
      /\ newFilledQty(w) = row.filled + reports[n].l
      /\ \A m \in pending : n <= m
    BY <1>0, AtWork DEF Replies
<1>2. row.filled <= Before(n) /\ row.filled \in Nat
    BY <1>1 DEF OrderInv, TypeOK, Row
<1>3. Before(n) <= row.filled
    <2>1. CASE Before(n) = 0
        BY <1>2, <2>1
    <2>2. ASSUME NEW k \in Fills, k < n, reports[k].z = Before(n) PROVE Before(n) <= row.filled
        <3>1. k \in Nat /\ n \in Nat
            BY <1>1, FillNumbers
        <3>2. k \notin pending
            BY <1>1, <2>2, <3>1
        <3>3. k \notin Outstanding
            BY <3>2 DEF Outstanding
        <3> QED
            BY <2>2, <3>3 DEF OrderInv
    <2> QED
        BY <1>1, <2>1, <2>2 DEF BrokerInv
<1>4. row.filled = Before(n)
    BY <1>1, <1>2, <1>3, FillNumbers
<1>5. newFilledQty(w) = reports[n].z
    BY <1>1, <1>4, FillNumbers
<1>6. row.filled < newFilledQty(w) /\ newFilledQty(w) <= broker.qty /\ newFilledQty(w) <= total
    BY <1>1, <1>4, <1>5, FillNumbers
<1>7. newStatus(w) = "FILLED" <=> newFilledQty(w) = total
    <2>1. job[w].status = "FILLED" <=> newFilledQty(w) = total
        BY <1>1, <1>5, FillNumbers
    <2>2. newFilledQty(w) >= Target => newFilledQty(w) = total
        <3>1. newFilledQty(w) \in Nat /\ total \in Nat /\ total <= Target /\ Target \in Nat
            BY NewRowType, TotalIsTruncated, TargetAssumption
        <3> QED
            BY <1>6, <3>1
    <2> QED
        BY <2>1, <2>2 DEF newStatus
<1> QED
    BY <1>0, <1>4, <1>5, <1>6, <1>7

\* OrderInv is inductive.
LEMMA OrderStep ==
    ASSUME ~Unordered, TypeOK, BrokerInv, TurnInv, OrderInv, (TypeOK /\ BrokerInv)', [Next]_vars
    PROVE  OrderInv'
<1>0. row.filled \in Nat /\ broker.qty \in Nat
    BY DEF TypeOK, Row
<1>1. ASSUME NEW qty \in 1 .. Target, NEW price \in Prices, BrokerFills(qty, price) PROVE OrderInv'
    <2> SUFFICES ASSUME channel' = "webhook" PROVE OrderInv'
        BY DEF OrderInv
    <2>1. PICK new \in Nat : /\ FillReported(new, qty, price)
                             /\ channel # "reply" => Counted(new, qty, price)
        BY <1>1, BrokerFillsKind
    <2>2. /\ channel = "webhook" /\ row' = row /\ total' = total /\ qty \in Nat \ {0}
          /\ Fills' = Fills \cup {new} /\ new \notin Fills /\ Outstanding' = Outstanding \cup {new}
          /\ \A n \in Fills : reports'[n] = reports[n]
          /\ reports'[new].z = broker.qty + qty /\ reports'[new].l = qty /\ broker'.qty = broker.qty + qty
        BY <2>1, TargetAssumption DEF FillReported, Counted
    <2>3. Before(new)' = broker.qty /\ \A n \in Fills : Before(n)' = Before(n)
        BY <1>0, <2>2 DEF Before
    <2>4. row'.filled <= broker'.qty /\ (row'.status = "FILLED" => row'.filled = total')
        BY <1>0, <2>2 DEF OrderInv
    <2>5. ASSUME NEW n \in Fills', n \in Outstanding' PROVE row'.filled <= Before(n)'
        BY <1>0, <2>2, <2>3, <2>5 DEF OrderInv
    <2>6. ASSUME NEW n \in Fills', n \notin Outstanding' PROVE reports'[n].z <= row'.filled
        BY <2>2, <2>6 DEF OrderInv
    <2> QED
        BY <2>4, <2>5, <2>6 DEF OrderInv
<1>2. ASSUME NEW new \in Nat, OtherReported(new) PROVE OrderInv'
    <2>1. /\ Fills' = Fills /\ Outstanding' = Outstanding /\ UNCHANGED <<total, channel, row>>
          /\ broker'.qty = broker.qty /\ \A n \in Fills : reports'[n] = reports[n] /\ Before(n)' = Before(n)
        BY <1>2 DEF OtherReported, Uncounted, Before
    <2> QED
        BY <2>1 DEF OrderInv
<1>3. ASSUME Fills' = Fills, Outstanding' = Outstanding, UNCHANGED <<total, channel, broker, reports>>,
             row'.filled = row.filled, channel = "webhook" => row'.status \in {row.status, "SUBMITTED"}
      PROVE  OrderInv'
    <2>1. \A n : Before(n)' = Before(n)
        BY <1>3 DEF Before
    <2> QED
        BY <1>3, <2>1 DEF OrderInv
<1>4. CASE Quiet /\ UNCHANGED row
    BY <1>3, <1>4 DEF Quiet, Uncounted
<1>5. CASE Quiet /\ (ConfirmOrder \/ ConfirmAndProcess)
    <2>1. row'.filled = row.filled /\ (channel = "webhook" => row'.status = "SUBMITTED")
        BY <1>5 DEF ConfirmOrder, ConfirmAndProcess, Replies, TypeOK, Row
    <2> QED
        BY <1>3, <1>5, <2>1 DEF Quiet, Uncounted
<1>6. ASSUME NEW w \in Workers, Settle(w) PROVE OrderInv'
    BY <1>3, <1>6, SettleFrame DEF Uncounted
<1>7. ASSUME NEW w \in Workers, UpdateOrderFill(w) PROVE OrderInv'
    <2> SUFFICES ASSUME channel' = "webhook" PROVE OrderInv'
        BY DEF OrderInv
    <2>1. PICK k : k = job[w].report
        OBVIOUS
    <2>2. /\ pc[w] \in Inside /\ row'.filled = newFilledQty(w) /\ row'.status = newStatus(w)
          /\ Outstanding' = Outstanding \ {k} /\ Fills' = Fills /\ UNCHANGED <<total, channel, broker, reports>>
        BY <1>7, <2>1, UpdateFrame
    <2>3. \A n : Before(n)' = Before(n)
        BY <2>2 DEF Before
    <2>4. /\ newFilledQty(w) = reports[k].z /\ row.filled < newFilledQty(w) /\ newFilledQty(w) <= broker.qty
          /\ newStatus(w) = "FILLED" => newFilledQty(w) = total
        BY <2>1, <2>2, NextInLine
    <2>5. k \in Outstanding /\ k \in Fills /\ \A m \in pending : k <= m
        BY <2>1, <2>2, AtWork DEF Replies
    <2>6. ASSUME NEW n \in Fills, n \in Outstanding, n # k PROVE row'.filled <= Before(n)
        <3>1. n \in pending /\ n \in Nat /\ k \in Nat
            BY <2>5, <2>6, FillNumbers DEF Outstanding
        <3>2. k < n
            BY <2>5, <2>6, <3>1
        <3> QED
            BY <2>2, <2>4, <2>5, <3>2 DEF BrokerInv
    <2>7. ASSUME NEW n \in Fills, n \notin Outstanding \ {k} PROVE reports[n].z <= row'.filled
        <3>1. CASE n = k
            BY <2>2, <2>4, <2>5, <3>1, FillNumbers
        <3>2. CASE n \notin Outstanding
            <4>1. reports[n].z <= row.filled /\ reports[n].z \in Nat /\ newFilledQty(w) \in Nat
                BY <2>2, <3>2, FillNumbers, NewRowType DEF OrderInv
            <4> QED
                BY <1>0, <2>2, <2>4, <4>1
        <3> QED
            BY <2>7, <3>1, <3>2
    <2> QED
        BY <2>2, <2>3, <2>4, <2>6, <2>7 DEF OrderInv
<1>8. ASSUME NEW w \in Workers, Respond(w) PROVE OrderInv'
    <2>1. channel = "repeat" => OrderInv'
        BY <1>8 DEF OrderInv, Respond
    <2> QED
        BY <1>3, <1>8, <2>1, RespondFrame DEF Uncounted
<1> QED
    BY <1>1, <1>2, <1>4, <1>5, <1>6, <1>7, <1>8, NextKinds

\* When the webhooks come in order, the row always stands exactly between the fills that are answered
\* and the ones that are not, and says FILLED only at the end.
LEMMA OrderInvariant == ASSUME ~Unordered PROVE Spec => []OrderInv
<1>1. Init => OrderInv
    BY DEF Init, OrderInv, Fills, UnrecordedRow
<1>2. TypeOK /\ BrokerInv /\ TurnInv /\ OrderInv /\ (TypeOK /\ BrokerInv)' /\ [Next]_vars => OrderInv'
    BY OrderStep
<1> QED
    BY <1>1, <1>2, TypeCorrect, BrokerInvariant, TurnInvariant, PTL DEF Spec

\* binance/client.go, TruncateToStepSize: the broker never executes more than was asked for, and a
\* row that webhooks in order made FILLED falls short of it by less than a step, for every target and every step size.
THEOREM OrdersAreTruncated == ASSUME ~Unordered PROVE Spec => []OrderIsTruncated
<1>1. ASSUME TypeOK, BrokerInv, OrderInv PROVE OrderIsTruncated
    <2>1. broker.qty <= Target
        BY <1>1, TotalIsTruncated, TargetAssumption DEF BrokerInv, TypeOK
    <2>2. ASSUME channel = "webhook", row.status = "FILLED"
          PROVE  \E stepSize \in Steps : total % stepSize = 0 /\ Target - row.filled < stepSize
        BY <1>1, <2>2, TotalIsTruncated DEF OrderInv
    <2> QED
        BY <2>1, <2>2 DEF OrderIsTruncated
<1> QED
    BY <1>1, TypeCorrect, BrokerInvariant, OrderInvariant, PTL

-----------------------------------------------------------------------------
(* What was settled. *)

\* The oldest fill the sender keeps, not yet written.
First(n) == n \in Outstanding /\ \A m \in pending : m \in Fills => n <= m

\* Ledger and row agree, and no key names a quantity still to come.
Even == ledger.qty = row.filled /\ \A k \in ledger.keys : k <= row.filled

\* The ledger has the oldest outstanding fill as well, under the key its next attempt will use.
Ahead(n) ==
    /\ First(n)
    /\ ledger.qty = row.filled + reports[n].l
    /\ row.filled + reports[n].l \in ledger.keys
    /\ \A k \in ledger.keys : k <= row.filled \/ k = row.filled + reports[n].l

LedgerInv == channel \in {"webhook", "repeat"} /\ route # "none" =>
    /\ Even \/ \E n \in Outstanding : Ahead(n)
    /\ \A w \in Handlers : pc[w] = "update" => Ahead(job[w].report)

\* A handler is about to write only after it settled.
LEMMA UpdatePlace ==
    ASSUME TypeOK, [Next]_vars, route # "none", NEW v \in Handlers, pc'[v] = "update"
    PROVE  (pc[v] = "update" /\ job'[v] = job[v]) \/ Settle(v)
<1>0. v \in Workers /\ v # Sync
    BY SyncAssumption DEF Workers
<1>1. ASSUME NEW w \in Workers, Work(w) PROVE (pc[v] = "update" /\ job'[v] = job[v]) \/ Settle(v)
    <2>1. CASE v # w
        BY <1>0, <1>1, <2>1, WorkFrame
    <2>2. CASE v = w
        <3>1. CASE Lookup(w)
            <4>1. pc'[w] = CASE route = "capture" -> "account" [] route = "none" -> "update" [] OTHER -> "settle"
                BY <3>1 DEF Lookup, Goto, TypeOK
            <4> QED
                BY <2>2, <4>1
        <3>2. CASE Fail(w) \/ GetOrCreateBrokerAccount(w) \/ UpdateOrderFill(w) \/ Respond(w)
            BY <2>2, <3>2 DEF Fail, GetOrCreateBrokerAccount, UpdateOrderFill, Respond, Goto, TypeOK
        <3> QED
            BY <1>1, <2>2, <3>1, <3>2 DEF Work
    <2> QED
        BY <2>1, <2>2
<1>2. ASSUME NEW w \in Handlers, NEW n \in pending, Deliver(w, n) PROVE pc[v] = "update" /\ job'[v] = job[v]
    BY <1>0, <1>2 DEF Deliver, Goto, TypeOK, Workers
<1>3. ASSUME ConfirmAndProcess PROVE pc[v] = "update" /\ job'[v] = job[v]
    BY <1>0, <1>3 DEF ConfirmAndProcess, Goto, TypeOK, Workers
<1> QED
    BY <1>1, <1>2, <1>3 DEF Next, vars, BrokerFills, BrokerCancels, BrokerNotes, Emit, Dismiss, ConfirmOrder

\* The fill a handler works on, in order, is the first.
LEMMA WorksOnFirst ==
    ASSUME TypeOK, BrokerInv, TurnInv, channel \in {"webhook", "repeat"}, NEW w \in Workers, pc[w] \in Inside
    PROVE  /\ First(job[w].report)
           /\ \A n \in Outstanding : First(n) => n = job[w].report
<1>0. PICK k : k = job[w].report
    OBVIOUS
<1>1. k \in Outstanding /\ k \in Fills /\ \A m \in pending : k <= m
    BY <1>0, AtWork DEF Replies
<1>2. ASSUME NEW n \in Outstanding, First(n) PROVE n = k
    <2>1. n \in pending /\ n \in Nat /\ k \in pending /\ k \in Nat
        BY <1>1, OutstandingType DEF Outstanding, TypeOK
    <2> QED
        BY <1>1, <1>2, <2>1 DEF First
<1> QED
    BY <1>0, <1>1, <1>2 DEF First

\* Settle, in order: the key is new exactly when the fill is not settled yet.
LEMMA SettleInOrder ==
    ASSUME TypeOK, BrokerInv, TurnInv, LedgerInv, channel \in {"webhook", "repeat"}, NEW w \in Workers, Settle(w)
    PROVE  LET n == job[w].report
           IN  /\ route # "none" /\ First(n) /\ n \in Fills
               /\ newFilledQty(w) = row.filled + reports[n].l
               /\ \/ /\ Even /\ newFilledQty(w) \notin ledger.keys
                     /\ ledger' = [keys     |-> ledger.keys \cup {newFilledQty(w)},
                                   qty      |-> ledger.qty + job[w].qty,
                                   value    |-> ledger.value + Amount(w),
                                   released |-> ledger.released \/ (route = "capture" /\ newStatus(w) = "FILLED")]
                  \/ Ahead(n) /\ ledger' = ledger
<1>0. PICK n : n = job[w].report
    OBVIOUS
<1>1. pc[w] \in Inside /\ pc[w] = "settle" /\ ledger' = Applied(w) /\ route # "none"
    BY DEF Settle, Inside, TurnInv, RouteInv
<1>2. First(n) /\ n \in Fills /\ newFilledQty(w) = row.filled + reports[n].l
    BY <1>0, <1>1, AtWork, WorksOnFirst DEF Replies
<1>3. reports[n].l \in Nat \ {0} /\ row.filled \in Nat
    BY <1>2, FillNumbers DEF TypeOK, Row
<1>4. CASE Even
    <2>1. newFilledQty(w) \notin ledger.keys
        BY <1>2, <1>3, <1>4 DEF Even
    <2> QED
        BY <1>0, <1>1, <1>2, <1>4, <2>1 DEF Applied
<1>5. CASE \E m \in Outstanding : Ahead(m)
    <2>1. PICK m \in Outstanding : Ahead(m)
        BY <1>5
    <2>2. m = n
        BY <1>0, <1>1, <2>1, WorksOnFirst DEF Ahead
    <2>3. newFilledQty(w) \in ledger.keys
        BY <1>2, <2>1, <2>2 DEF Ahead
    <2> QED
        BY <1>0, <1>1, <1>2, <2>1, <2>2, <2>3 DEF Applied
<1> QED
    BY <1>1, <1>4, <1>5 DEF LedgerInv

\* While a webhook in order is being answered, ledger and row agree.
LEMMA EvenWhenAnswering ==
    ASSUME TypeOK, BrokerInv, TurnInv, LedgerInv, channel \in {"webhook", "repeat"}, route # "none",
           NEW w \in Workers, pc[w] = "respond"
    PROVE  Even
<1>0. PICK k : k = job[w].report
    OBVIOUS
<1>1. w \in Handlers
    BY DEF TurnInv, SyncInv, Workers, Replies
<1>2. k \in pending /\ k \in Fills /\ \A m \in pending : k <= m
    BY <1>0, <1>1 DEF TurnInv, HandlersCarry, Carries
<1>3. k \notin Outstanding
    BY <1>0 DEF Outstanding
<1>4. ASSUME NEW n \in Outstanding, Ahead(n) PROVE FALSE
    <2>1. n \in pending /\ n \in Nat /\ k \in Nat
        BY <1>2 DEF Outstanding, TypeOK
    <2>2. n <= k /\ k <= n
        BY <1>2, <1>4, <2>1 DEF Ahead, First
    <2> QED
        BY <1>3, <2>1, <2>2
<1> QED
    BY <1>4 DEF LedgerInv

\* LedgerInv is inductive.
LEMMA LedgerStep ==
    ASSUME ~Unordered, TypeOK, BrokerInv, TurnInv, LedgerInv, (TypeOK /\ BrokerInv)', [Next]_vars
    PROVE  LedgerInv'
<1> SUFFICES ASSUME channel' \in {"webhook", "repeat"}, route' # "none" PROVE LedgerInv'
    BY DEF LedgerInv
<1>0. channel = channel' /\ route = route' /\ row.filled \in Nat
    BY DEF Next, Work, vars, BrokerFills, BrokerCancels, BrokerNotes, Emit, Deliver, Dismiss, ConfirmOrder,
           ConfirmAndProcess, Fail, Lookup, GetOrCreateBrokerAccount, Settle, UpdateOrderFill, Respond, TypeOK, Row
<1>1. Even \/ \E n \in Outstanding : Ahead(n)
    BY <1>0 DEF LedgerInv
\* The ledger and the row do not change, and a first fill stays the first.
<1>2. ASSUME ledger' = ledger, row'.filled = row.filled,
             \A n \in Outstanding : First(n) => First(n)' /\ reports'[n] = reports[n],
             \A w \in Handlers : pc'[w] = "update" => pc[w] = "update" /\ job'[w] = job[w]
      PROVE  LedgerInv'
    <2>1. Even => Even'
        BY <1>2 DEF Even
    <2>2. ASSUME NEW n, Ahead(n) PROVE Ahead(n)' /\ n \in Outstanding'
        BY <1>2, <2>2 DEF Ahead, First
    <2>3. ASSUME NEW w \in Handlers, pc'[w] = "update" PROVE Ahead(job[w].report)'
        <3>1. PICK k : k = job[w].report
            OBVIOUS
        <3>2. Ahead(k) /\ k = job'[w].report
            BY <1>0, <1>2, <2>3, <3>1 DEF LedgerInv
        <3>3. Ahead(k)'
            BY <2>2, <3>2
        <3> QED
            BY <3>2, <3>3 DEF Ahead, First
    <2> QED
        BY <1>1, <2>1, <2>2, <2>3 DEF LedgerInv
<1>3. ASSUME NEW w \in Handlers, pc'[w] = "update", ~Settle(w) PROVE pc[w] = "update" /\ job'[w] = job[w]
    BY <1>0, <1>3, UpdatePlace
<1>4. ASSUME \A w \in Workers : ~Settle(w)
      PROVE  \A w \in Handlers : pc'[w] = "update" => pc[w] = "update" /\ job'[w] = job[w]
    BY <1>3, <1>4 DEF Workers
<1>5. ASSUME NEW qty \in 1 .. Target, NEW price \in Prices, BrokerFills(qty, price) PROVE LedgerInv'
    <2>1. PICK new \in Nat : FillReported(new, qty, price) /\ Counted(new, qty, price)
        BY <1>0, <1>5, BrokerFillsKind
    <2>2. ASSUME NEW n \in Outstanding, First(n) PROVE First(n)' /\ reports'[n] = reports[n]
        <3>1. n \in Fills /\ n < new /\ n \in Nat /\ reports'[n] = reports[n]
            BY <2>1, OutstandingType DEF FillReported, Fills
        <3>2. ASSUME NEW m \in pending', m \in Fills' PROVE n <= m
            <4>1. CASE m = new
                BY <3>1, <4>1
            <4>2. CASE m # new
                BY <2>1, <2>2, <3>2, <4>2 DEF FillReported, Counted, First
            <4> QED
                BY <4>1, <4>2
        <3> QED
            BY <2>1, <3>1, <3>2 DEF First, Counted
    <2>3. ledger' = ledger /\ row' = row /\ pc' = pc /\ job' = job
        BY <2>1 DEF FillReported
    <2> QED
        BY <1>2, <2>2, <2>3
<1>6. ASSUME NEW new \in Nat, OtherReported(new) PROVE LedgerInv'
    <2>1. /\ Fills' = Fills /\ new \notin Fills /\ Outstanding' = Outstanding /\ \A n \in Fills : reports'[n] = reports[n]
          /\ pending' \in {pending, pending \cup {new}} /\ UNCHANGED <<row, pc, job, ledger>>
        BY <1>6 DEF OtherReported, Uncounted
    <2>2. \A n \in Outstanding : First(n) => First(n)' /\ reports'[n] = reports[n]
        BY <2>1, OutstandingType DEF First
    <2> QED
        BY <1>2, <2>1, <2>2
<1>7. ASSUME Quiet, row'.filled = row.filled, \A w \in Workers : ~Settle(w) PROVE LedgerInv'
    <2>1. \A n \in Outstanding : First(n) => First(n)' /\ reports'[n] = reports[n]
        BY <1>7 DEF Quiet, Uncounted, First
    <2> QED
        BY <1>2, <1>4, <1>7, <2>1 DEF Quiet
<1>8. ASSUME Quiet /\ (ConfirmOrder \/ ConfirmAndProcess), \A w \in Workers : ~Settle(w) PROVE LedgerInv'
    <2>1. row'.filled = row.filled
        BY <1>8 DEF ConfirmOrder, ConfirmAndProcess, TypeOK, Row
    <2> QED
        BY <1>7, <1>8, <2>1
<1>9. ASSUME NEW w \in Workers, Settle(w) PROVE LedgerInv'
    <2>1. PICK n : n = job[w].report
        OBVIOUS
    <2>2. /\ First(n) /\ n \in Fills /\ newFilledQty(w) = row.filled + reports[n].l
          /\ \/ /\ Even /\ newFilledQty(w) \notin ledger.keys
                /\ ledger'.keys = ledger.keys \cup {newFilledQty(w)} /\ ledger'.qty = ledger.qty + job[w].qty
             \/ Ahead(n) /\ ledger' = ledger
        BY <1>0, <1>9, <2>1, SettleInOrder
    <2>3. /\ UNCHANGED <<reports, pending, row>> /\ Fills' = Fills /\ Outstanding' = Outstanding
          /\ pc[w] \in Inside
        BY <1>9, SettleFrame DEF Uncounted
    <2>4. job[w].qty = reports[n].l /\ w \in Handlers
        BY <1>0, <2>1, <2>3, AtWork DEF Replies
    <2>5. First(n)'
        BY <2>2, <2>3 DEF First
    <2>6. Ahead(n)'
        BY <2>2, <2>3, <2>4, <2>5 DEF Ahead, Even
    <2>7. ASSUME NEW v \in Handlers, pc'[v] = "update" PROVE job'[v].report = n
        <3>1. v \in Workers
            BY DEF Workers
        <3>2. v = w
            <4> SUFFICES ASSUME v # w PROVE FALSE
                OBVIOUS
            <4>1. pc'[v] = pc[v]
                BY <1>9, <3>1, WorkFrame DEF Work
            <4> QED
                BY <2>3, <2>4, <2>7, <4>1 DEF TurnInv, OneHandler, Inside
        <3>3. job'[w] = job[w]
            BY <1>9, <2>7, <3>2, WorkFrame DEF Work
        <3> QED
            BY <2>1, <3>2, <3>3
    <2>8. ASSUME NEW v \in Handlers, pc'[v] = "update" PROVE Ahead(job[v].report)'
        BY <2>6, <2>7, <2>8 DEF Ahead, First
    <2> QED
        BY <2>5, <2>6, <2>8 DEF LedgerInv, First
<1>10. ASSUME NEW w \in Workers, UpdateOrderFill(w) PROVE LedgerInv'
    <2>1. PICK n : n = job[w].report
        OBVIOUS
    <2>2. pc[w] \in Inside /\ pc[w] = "update" /\ row'.filled = newFilledQty(w) /\ ledger' = ledger
        BY <1>10 DEF UpdateOrderFill, Inside
    <2>3. w \in Handlers /\ newFilledQty(w) = row.filled + reports[n].l /\ n \in Fills
        BY <1>0, <2>1, <2>2, AtWork DEF Replies
    <2>4. Ahead(n) /\ reports[n].l \in Nat \ {0}
        BY <1>0, <2>1, <2>2, <2>3, FillNumbers DEF LedgerInv
    <2>5. ledger.keys \in SUBSET Nat
        BY DEF TypeOK, Ledger
    <2>6. Even'
        BY <1>0, <2>2, <2>3, <2>4, <2>5 DEF Even, Ahead
    <2>7. ASSUME NEW v \in Handlers PROVE pc'[v] # "update"
        <3>1. CASE v = w
            BY <1>10, <3>1 DEF UpdateOrderFill, Goto, TypeOK
        <3>2. CASE v # w
            <4>1. pc'[v] = pc[v] /\ pc[v] = "idle"
                BY <1>10, <2>2, <2>3, <3>2, WorkFrame DEF Work, TurnInv, OneHandler, Workers
            <4> QED
                BY <4>1
        <3> QED
            BY <3>1, <3>2
    <2> QED
        BY <2>6, <2>7 DEF LedgerInv
<1>11. ASSUME NEW w \in Workers, Respond(w) PROVE LedgerInv'
    <2>1. pc[w] = "respond" /\ pc'[w] = "idle" /\ ledger' = ledger /\ row' = row
        BY <1>11 DEF Respond, Goto, TypeOK
    <2>2. Even'
        <3>1. Even
            BY <1>0, <2>1, EvenWhenAnswering
        <3> QED
            BY <2>1, <3>1 DEF Even
    <2>3. w \in Handlers
        BY <1>0, <2>1 DEF TurnInv, SyncInv, Workers, Replies
    <2>4. ASSUME NEW v \in Handlers PROVE pc'[v] # "update"
        <3>1. CASE v = w
            BY <2>1, <3>1
        <3>2. CASE v # w
            <4>1. pc'[v] = pc[v] /\ pc[v] = "idle"
                BY <1>11, <2>1, <2>3, <3>2, WorkFrame DEF Work, TurnInv, OneHandler, Workers
            <4> QED
                BY <4>1
        <3> QED
            BY <3>1, <3>2
    <2> QED
        BY <2>2, <2>4 DEF LedgerInv
<1>12. CASE \E w \in Workers : Settle(w)
    BY <1>9, <1>12
<1>13. CASE \A w \in Workers : ~Settle(w)
    BY <1>5, <1>6, <1>7, <1>8, <1>10, <1>11, <1>13, NextKinds
<1> QED
    BY <1>12, <1>13

\* When webhooks are sent in order, ledger and row agree, or the ledger has exactly the oldest
\* outstanding fill more.
LEMMA LedgerInvariant == ASSUME ~Unordered PROVE Spec => []LedgerInv
<1>1. Init => LedgerInv
    <2> SUFFICES ASSUME Init PROVE LedgerInv
        OBVIOUS
    <2>1. Even /\ \A w \in Handlers : pc[w] = "idle"
        BY DEF Init, Even, UnrecordedRow, Workers
    <2> QED
        BY <2>1 DEF LedgerInv
<1>2. TypeOK /\ BrokerInv /\ TurnInv /\ LedgerInv /\ (TypeOK /\ BrokerInv)' /\ [Next]_vars => LedgerInv'
    BY LedgerStep
<1> QED
    BY <1>1, <1>2, TypeCorrect, BrokerInvariant, TurnInvariant, PTL DEF Spec

\* fill_processor.go, ProcessFill: what was settled is what the row shows, or one outstanding fill
\* more, although ProcessFill holds no lock and opens no transaction, and although a settlement, the
\* write or the answer may fail or be lost at any point and any number of times.
THEOREM SettlementFollowsRow == ASSUME ~Unordered PROVE Spec => []SettlementMatchesRow
<1>1. ASSUME LedgerInv PROVE SettlementMatchesRow
    BY <1>1 DEF LedgerInv, SettlementMatchesRow, Even, Ahead
<1> QED
    BY <1>1, LedgerInvariant, PTL

\* Only a capture of a completed order releases the rest of the hold.
ReleaseInv ==
    ledger.released => /\ route = "capture"
                       /\ channel = "webhook" => broker.qty = total /\ ledger.qty = total

\* ReleaseInv is inductive.
LEMMA ReleaseStep ==
    ASSUME ~Unordered, TypeOK, BrokerInv, TurnInv, OrderInv, LedgerInv, ReleaseInv, (TypeOK /\ BrokerInv)', [Next]_vars
    PROVE  ReleaseInv'
<1>1. ASSUME ledger' = ledger, UNCHANGED <<total, route, channel>>, broker'.qty = broker.qty PROVE ReleaseInv'
    BY <1>1 DEF ReleaseInv
<1>2. ASSUME NEW qty \in 1 .. Target, NEW price \in Prices, BrokerFills(qty, price) PROVE ReleaseInv'
    <2>1. ledger' = ledger /\ UNCHANGED <<total, route, channel>>
        BY <1>2 DEF BrokerFills, Emit
    <2>2. broker.qty # total
        BY <1>2, TargetAssumption DEF BrokerFills, TypeOK
    <2> QED
        BY <2>1, <2>2 DEF ReleaseInv
<1>3. ASSUME NEW new \in Nat, OtherReported(new) PROVE ReleaseInv'
    BY <1>1, <1>3 DEF OtherReported
<1>4. ASSUME Quiet PROVE ReleaseInv'
    BY <1>1, <1>4 DEF Quiet
<1>5. ASSUME NEW w \in Workers, Settle(w) PROVE ReleaseInv'
    <2>0. UNCHANGED <<total, route, channel, broker>> /\ pc[w] \in Inside /\ ledger' = Applied(w)
        BY <1>5 DEF Settle, Inside
    <2>1. ledger'.released => route' = "capture"
        BY <2>0 DEF Applied, ReleaseInv
    <2>2. ASSUME channel = "webhook", ledger'.released PROVE broker.qty = total /\ ledger'.qty = total
        <3>1. PICK n : n = job[w].report
            OBVIOUS
        <3>2. CASE ledger' = ledger
            BY <2>2, <3>2 DEF ReleaseInv
        <3>3. CASE ledger' # ledger
            <4>0. /\ Even
                  /\ ledger' = [keys     |-> ledger.keys \cup {newFilledQty(w)},
                                qty      |-> ledger.qty + job[w].qty,
                                value    |-> ledger.value + Amount(w),
                                released |-> ledger.released \/ (route = "capture" /\ newStatus(w) = "FILLED")]
                BY <1>5, <2>2, <3>3, SettleInOrder
            <4>1. /\ Even /\ ledger'.qty = ledger.qty + job[w].qty
                  /\ ledger.released \/ newStatus(w) = "FILLED"
                BY <2>2, <4>0
            <4>2. /\ row.filled < newFilledQty(w) /\ newFilledQty(w) <= broker.qty /\ newFilledQty(w) <= total
                  /\ newStatus(w) = "FILLED" => newFilledQty(w) = total
                BY <2>0, <2>2, NextInLine
            <4>3. job[w].qty = reports[n].l /\ newFilledQty(w) = row.filled + reports[n].l
                BY <2>0, <2>2, <3>1, AtWork DEF Replies
            <4>4. broker.qty \in Nat /\ total \in Nat /\ row.filled \in Nat /\ newFilledQty(w) \in Nat /\ broker.qty <= total
                BY NewRowType DEF TypeOK, Row, BrokerInv
            <4>5. ~ledger.released
                <5> SUFFICES ASSUME ledger.released PROVE FALSE
                    OBVIOUS
                <5>1. row.filled = total
                    BY <2>2, <4>1 DEF ReleaseInv, Even
                <5> QED
                    BY <4>2, <4>4, <5>1
            <4>6. newFilledQty(w) = total
                BY <2>2, <4>1, <4>2, <4>5
            <4> QED
                BY <4>1, <4>2, <4>3, <4>4, <4>6 DEF Even
        <3> QED
            BY <3>2, <3>3
    <2> QED
        BY <2>0, <2>1, <2>2 DEF ReleaseInv
<1>6. ASSUME NEW w \in Workers, UpdateOrderFill(w) \/ Respond(w) PROVE ReleaseInv'
    BY <1>1, <1>6 DEF UpdateOrderFill, Respond
<1> QED
    BY <1>2, <1>3, <1>4, <1>5, <1>6, NextKinds

\* The hold of an order whose fills come in order is released at its end.
LEMMA ReleaseInvariant == ASSUME ~Unordered PROVE Spec => []ReleaseInv
<1>1. Init => ReleaseInv
    BY DEF Init, ReleaseInv
<1>2. TypeOK /\ BrokerInv /\ TurnInv /\ OrderInv /\ LedgerInv /\ ReleaseInv /\ (TypeOK /\ BrokerInv)' /\ [Next]_vars
         => ReleaseInv'
    BY ReleaseStep
<1> QED
    BY <1>1, <1>2, TypeCorrect, BrokerInvariant, TurnInvariant, OrderInvariant, LedgerInvariant, PTL DEF Spec

\* fill_processor.go and livro CaptureHold: the rest of a hold is released only with the capture that
\* completes the order.
THEOREM ReleaseCompletes == ASSUME ~Unordered PROVE Spec => []ReleasedWhenComplete
<1>1. ReleaseInv => ReleasedWhenComplete
    BY DEF ReleaseInv, ReleasedWhenComplete
<1> QED
    BY <1>1, ReleaseInvariant, PTL

-----------------------------------------------------------------------------
(* What the settled fills are worth. *)

Booked == broker.value - OpenValue

Near(value) ==
    /\ 2 * (ledger.value - value) <= Rounding * Cardinality(ledger.keys)
    /\ 2 * (value - ledger.value) <= Rounding * Cardinality(ledger.keys)

\* The cash that moved is near what the settled fills are worth, the one the ledger is ahead by included.
ValueInv == channel = "webhook" /\ route # "none" =>
    /\ IsFiniteSet(ledger.keys)
    /\ \/ Even /\ Near(Booked)
       \/ \E n \in Outstanding : Ahead(n) /\ Near(Booked + reports[n].l * reports[n].L)

\* The oldest outstanding fill stays the oldest until it is written.
LEMMA FirstStays ==
    ASSUME TypeOK, BrokerInv, TurnInv, (TypeOK /\ BrokerInv)', [Next]_vars, channel = "webhook",
           NEW n \in Outstanding, First(n), \A w \in Workers : ~UpdateOrderFill(w)
    PROVE  First(n)' /\ reports'[n] = reports[n]
<1>0. n \in Fills /\ n \in Nat
    BY OutstandingType, FillNumbers
<1>1. ASSUME NEW qty \in 1 .. Target, NEW price \in Prices, BrokerFills(qty, price)
      PROVE  First(n)' /\ reports'[n] = reports[n]
    <2>1. PICK new \in Nat : FillReported(new, qty, price) /\ Counted(new, qty, price)
        BY <1>1, BrokerFillsKind
    <2>2. n < new /\ reports'[n] = reports[n] /\ n \in Outstanding'
        BY <1>0, <2>1 DEF FillReported, Counted
    <2>3. ASSUME NEW m \in pending', m \in Fills' PROVE n <= m
        <3>1. m = new \/ (m \in pending /\ m \in Fills)
            BY <2>1, <2>3 DEF FillReported, Counted
        <3> QED
            BY <1>0, <2>2, <3>1 DEF First
    <2> QED
        BY <2>2, <2>3 DEF First
<1>2. ASSUME NEW new \in Nat, OtherReported(new) PROVE First(n)' /\ reports'[n] = reports[n]
    BY <1>0, <1>2 DEF OtherReported, Uncounted, First
<1>3. ASSUME Outstanding' = Outstanding, Fills' = Fills, reports' = reports, pending' \subseteq pending
      PROVE  First(n)' /\ reports'[n] = reports[n]
    BY <1>3 DEF First
<1>4. ASSUME Quiet PROVE First(n)' /\ reports'[n] = reports[n]
    BY <1>3, <1>4 DEF Quiet, Uncounted
<1>5. ASSUME NEW w \in Workers, Settle(w) PROVE First(n)' /\ reports'[n] = reports[n]
    BY <1>3, <1>5, SettleFrame DEF Uncounted
<1>6. ASSUME NEW w \in Workers, Respond(w) PROVE First(n)' /\ reports'[n] = reports[n]
    BY <1>3, <1>6, RespondFrame DEF Uncounted
<1> QED
    BY <1>1, <1>2, <1>4, <1>5, <1>6, NextKinds

\* An amount sent to Livro is within half of 0.0001 of the value of the fill, one sent to Ativos is exact.
LEMMA AmountIsNear ==
    ASSUME TypeOK, NEW w \in Workers
    PROVE  /\ job[w].qty * job[w].price \in Nat /\ Amount(w) \in Nat
           /\ 2 * (Amount(w) - job[w].qty * job[w].price) <= Rounding
           /\ 2 * (job[w].qty * job[w].price - Amount(w)) <= Rounding
<1>1. job[w].qty \in Nat /\ job[w].price \in Nat
    BY DEF TypeOK, Job
<1>2. job[w].qty * job[w].price \in Nat
    BY <1>1
<1>3. CASE route = "ativos"
    BY <1>2, <1>3 DEF Amount, Rounding
<1>4. CASE route # "ativos"
    BY <1>2, <1>4, StringFixedError DEF Amount, Rounding
<1> QED
    BY <1>2, <1>3, <1>4

\* ValueInv is inductive: each new key allows for one more rounding.
LEMMA ValueStep ==
    ASSUME ~Unordered, TypeOK, BrokerInv, TurnInv, LedgerInv, ValueInv, (TypeOK /\ BrokerInv)', [Next]_vars
    PROVE  ValueInv'
<1> SUFFICES ASSUME channel' = "webhook", route' # "none" PROVE ValueInv'
    BY DEF ValueInv
<1>0. channel = channel' /\ route = route' /\ Rounding' = Rounding
    BY DEF Next, Work, vars, BrokerFills, BrokerCancels, BrokerNotes, Emit, Deliver, Dismiss, ConfirmOrder,
           ConfirmAndProcess, Fail, Lookup, GetOrCreateBrokerAccount, Settle, UpdateOrderFill, Respond, Rounding
<1>1. /\ IsFiniteSet(ledger.keys)
      /\ \/ Even /\ Near(Booked)
         \/ \E n \in Outstanding : Ahead(n) /\ Near(Booked + reports[n].l * reports[n].L)
    BY <1>0 DEF ValueInv
<1>2. /\ broker.value \in Nat /\ OpenValue \in Nat /\ Booked \in Int /\ ledger.value \in Nat /\ ledger.qty \in Nat
      /\ row.filled \in Nat /\ ledger.keys \in SUBSET Nat /\ Rounding \in Nat
    <2>1. broker.value \in Nat /\ OpenValue \in Nat /\ Rounding \in Nat
        BY OpenType, UnitAssumption DEF TypeOK, Rounding
    <2>2. ledger.value \in Nat /\ ledger.qty \in Nat /\ row.filled \in Nat /\ ledger.keys \in SUBSET Nat
        BY DEF TypeOK, Ledger, Row
    <2>3. Booked \in Int
        BY <2>1 DEF Booked
    <2> QED
        BY <2>1, <2>2, <2>3
<1>3. ASSUME ledger' = ledger, row'.filled = row.filled, Booked' = Booked, \A w \in Workers : ~UpdateOrderFill(w)
      PROVE  ValueInv'
    <2>1. ASSUME Even, Near(Booked) PROVE Even' /\ Near(Booked)'
        BY <1>0, <1>3, <2>1 DEF Even, Near
    <2>2. ASSUME NEW n \in Outstanding, Ahead(n), Near(Booked + reports[n].l * reports[n].L)
          PROVE  n \in Outstanding' /\ Ahead(n)' /\ Near(Booked + reports[n].l * reports[n].L)'
        <3>1. First(n)' /\ reports'[n] = reports[n]
            BY <1>0, <1>3, <2>2, FirstStays DEF Ahead
        <3> QED
            BY <1>0, <1>3, <2>2, <3>1 DEF Ahead, Near, First
    <2> QED
        BY <1>1, <1>3, <2>1, <2>2 DEF ValueInv
<1>4. ASSUME NEW qty \in 1 .. Target, NEW price \in Prices, BrokerFills(qty, price),
             \A w \in Workers : ~UpdateOrderFill(w)
      PROVE  ValueInv'
    <2>1. PICK new \in Nat : FillReported(new, qty, price) /\ Counted(new, qty, price)
        BY <1>0, <1>4, BrokerFillsKind
    <2>2. ledger' = ledger /\ row' = row
        BY <2>1 DEF FillReported
    <2> DEFINE v == qty * price
    <2>3. v \in Int /\ broker'.value = broker.value + v /\ OpenValue' = OpenValue + v
        BY <2>1, PricesAssumption DEF FillReported, Counted
    <2> HIDE DEF v
    <2>4. Booked' = Booked
        BY <1>2, <2>3 DEF Booked
    <2> QED
        BY <1>3, <1>4, <2>2, <2>4
<1>5. ASSUME NEW new \in Nat, OtherReported(new), \A w \in Workers : ~UpdateOrderFill(w) PROVE ValueInv'
    BY <1>3, <1>5 DEF OtherReported, Uncounted, Booked
<1>6. ASSUME Quiet, row'.filled = row.filled, \A w \in Workers : ~UpdateOrderFill(w) PROVE ValueInv'
    BY <1>3, <1>6 DEF Quiet, Uncounted, Booked
<1>7. ASSUME Quiet /\ (ConfirmOrder \/ ConfirmAndProcess), \A w \in Workers : ~UpdateOrderFill(w) PROVE ValueInv'
    <2>1. row'.filled = row.filled
        BY <1>7 DEF ConfirmOrder, ConfirmAndProcess, TypeOK, Row
    <2> QED
        BY <1>6, <1>7, <2>1
<1>8. ASSUME NEW w \in Workers, Settle(w), \A u \in Workers : ~UpdateOrderFill(u) PROVE ValueInv'
    <2>0. PICK n : n = job[w].report
        OBVIOUS
    <2>1. /\ Uncounted /\ UNCHANGED <<broker, reports, row>> /\ pc[w] \in Inside
        BY <1>8, SettleFrame
    <2>2. Booked' = Booked /\ row' = row /\ reports' = reports
        BY <2>1 DEF Booked, Uncounted
    <2>3. CASE ledger' = ledger
        BY <1>3, <1>8, <2>2, <2>3
    <2>4. CASE ledger' # ledger
        <3>1. /\ Even /\ First(n) /\ newFilledQty(w) = row.filled + reports[n].l
              /\ newFilledQty(w) \notin ledger.keys
              /\ ledger'.keys = ledger.keys \cup {newFilledQty(w)}
              /\ ledger'.qty = ledger.qty + job[w].qty
              /\ ledger'.value = ledger.value + Amount(w)
            BY <1>0, <1>8, <2>0, <2>4, SettleInOrder
        <3>2. n \in Fills /\ job[w].qty = reports[n].l /\ job[w].price = reports[n].L
            BY <1>0, <2>0, <2>1, AtWork DEF Replies
        <3>3. n \in Outstanding /\ reports[n].l \in Nat \ {0}
            BY <3>1, <3>2, FillNumbers DEF First
        <3>4. Near(Booked)
            <4> SUFFICES ASSUME NEW m \in Outstanding, Ahead(m) PROVE FALSE
                BY <1>1
            <4>1. m \in Fills
                BY OutstandingType
            <4>2. reports[m].l \in Nat \ {0}
                BY <4>1, FillNumbers
            <4> QED
                BY <1>2, <3>1, <4>2 DEF Even, Ahead
        <3>5. First(n)'
            BY <1>0, <1>8, <3>1, <3>3, FirstStays
        <3>6. Ahead(n)'
            BY <1>2, <2>2, <3>1, <3>2, <3>3, <3>5 DEF Ahead, Even
        <3>7. IsFiniteSet(ledger'.keys) /\ Cardinality(ledger'.keys) = Cardinality(ledger.keys) + 1
              /\ Cardinality(ledger.keys) \in Nat
            BY <1>1, <3>1, FS_AddElement, FS_CardinalityType
        <3> DEFINE v == reports[n].l * reports[n].L
                   A == Amount(w)
                   c == Cardinality(ledger.keys)
                   uc == Rounding * c
        <3>8. v \in Nat /\ A \in Nat /\ 2 * (A - v) <= Rounding /\ 2 * (v - A) <= Rounding
            BY <3>2, AmountIsNear
        <3>9. uc \in Int /\ Rounding * Cardinality(ledger'.keys) = uc + Rounding
            BY <1>2, <3>7
        <3>10. 2 * (ledger.value - Booked) <= uc /\ 2 * (Booked - ledger.value) <= uc
            BY <3>4 DEF Near
        <3> HIDE DEF v, A, uc
        <3>11. /\ 2 * ((ledger.value + A) - (Booked + v)) <= uc + Rounding
               /\ 2 * ((Booked + v) - (ledger.value + A)) <= uc + Rounding
            BY <1>2, <3>8, <3>9, <3>10
        <3>12. Near(Booked + reports[n].l * reports[n].L)'
            BY <1>0, <2>2, <3>1, <3>9, <3>11 DEF Near, v, A
        <3> QED
            BY <3>5, <3>6, <3>7, <3>12 DEF ValueInv, First
    <2> QED
        BY <2>3, <2>4
<1>9. ASSUME NEW w \in Workers, UpdateOrderFill(w) PROVE ValueInv'
    <2>0. PICK n : n = job[w].report
        OBVIOUS
    <2>1. /\ pc[w] \in Inside /\ pc[w] = "update" /\ row'.filled = newFilledQty(w)
          /\ UNCHANGED <<broker, ledger>>
          /\ n \in Outstanding => OpenValue' = OpenValue - reports[n].l * reports[n].L
        BY <1>9, <2>0, UpdateFrame DEF UpdateOrderFill
    <2>2. w \in Handlers /\ n \in Outstanding /\ n \in Fills /\ newFilledQty(w) = row.filled + reports[n].l
        BY <1>0, <2>0, <2>1, AtWork DEF Replies
    <2>3. Ahead(n) /\ reports[n].l \in Nat \ {0} /\ reports[n].L \in Nat
        BY <1>0, <2>0, <2>1, <2>2, FillNumbers DEF LedgerInv
    <2>4. Near(Booked + reports[n].l * reports[n].L)
        <3>1. ~Even
            BY <1>2, <2>3 DEF Even, Ahead
        <3>2. PICK m \in Outstanding : Ahead(m) /\ Near(Booked + reports[m].l * reports[m].L)
            BY <1>1, <3>1
        <3>3. m = n
            BY <1>0, <2>0, <2>1, <3>2, WorksOnFirst DEF Ahead
        <3> QED
            BY <3>2, <3>3
    <2> DEFINE v == reports[n].l * reports[n].L
    <2>5. v \in Int /\ OpenValue' = OpenValue - v
        BY <2>1, <2>2, <2>3
    <2> HIDE DEF v
    <2>6. Booked' = Booked + v
        BY <1>2, <2>1, <2>5 DEF Booked
    <2>7. Near(Booked)'
        BY <1>0, <2>1, <2>4, <2>6 DEF Near, v
    <2>8. Even'
        BY <1>2, <2>1, <2>2, <2>3 DEF Even, Ahead
    <2> QED
        BY <1>1, <2>1, <2>7, <2>8 DEF ValueInv
<1>10. ASSUME NEW w \in Workers, Respond(w), \A u \in Workers : ~UpdateOrderFill(u) PROVE ValueInv'
    <2>1. Uncounted /\ UNCHANGED <<broker, row, ledger>>
        BY <1>0, <1>10, RespondFrame
    <2> QED
        BY <1>3, <1>10, <2>1 DEF Uncounted, Booked
<1>11. CASE \E w \in Workers : UpdateOrderFill(w)
    BY <1>9, <1>11
<1>12. CASE \A w \in Workers : ~UpdateOrderFill(w)
    BY <1>4, <1>5, <1>6, <1>7, <1>8, <1>10, <1>12, NextKinds
<1> QED
    BY <1>11, <1>12

\* The value of one report.
LEMMA ValueOfOne ==
    ASSUME TypeOK, BrokerInv, NEW n \in Fills
    PROVE  Value({n}) = reports[n].l * reports[n].L
<1>1. ValueOf \in [DOMAIN reports -> Int] /\ n \in DOMAIN reports
    BY OutstandingType
<1>2. SumFunctionOnSet(ValueOf, {} \cup {n}) = SumFunctionOnSet(ValueOf, {}) + ValueOf[n]
    <2>1. {} \in SUBSET DOMAIN reports /\ IsFiniteSet({}) /\ n \notin {}
        BY FS_EmptySet
    <2> QED
        BY <1>1, <2>1, SumAdd
<1>3. SumFunctionOnSet(ValueOf, {}) = 0 /\ {} \cup {n} = {n} /\ ValueOf[n] \in Int
    BY <1>1, SumEmpty
<1>4. SumFunctionOnSet(ValueOf, {n}) = ValueOf[n]
    BY <1>2, <1>3
<1>5. ValueOf[n] = reports[n].l * reports[n].L
    BY <1>1 DEF ValueOf
<1> QED
    BY <1>4, <1>5 DEF Value, ValueOf

\* livro/client.go, CaptureHold and Credit: for every price and any number of fills the cash moved is
\* within half of 0.0001 per settlement of what the settled fills are worth, and exact with Ativos.
THEOREM SettledCashIsExact == ASSUME ~Unordered PROVE Spec => []SettledValueIsExact
<1>1. Init => ValueInv
    <2> SUFFICES ASSUME Init PROVE ValueInv
        OBVIOUS
    <2>1. Outstanding = {} /\ ledger.value = 0 /\ broker.value = 0 /\ ledger.keys = {} /\ Even
        BY DEF Init, Outstanding, Even, UnrecordedRow
    <2>2. OpenValue = 0
        BY <2>1, SumEmpty DEF OpenValue
    <2>3. Booked = 0 /\ Cardinality(ledger.keys) = 0 /\ IsFiniteSet(ledger.keys)
        BY <2>1, <2>2, FS_EmptySet DEF Booked
    <2>4. Near(Booked)
        BY <2>1, <2>3, UnitAssumption DEF Near, Rounding
    <2> QED
        BY <2>1, <2>3, <2>4 DEF ValueInv
<1>2. TypeOK /\ BrokerInv /\ TurnInv /\ LedgerInv /\ ValueInv /\ (TypeOK /\ BrokerInv)' /\ [Next]_vars => ValueInv'
    BY ValueStep
<1>3. ASSUME TypeOK, BrokerInv, ValueInv PROVE SettledValueIsExact
    <2> SUFFICES ASSUME channel = "webhook", route # "none"
                 PROVE  IF ledger.qty = row.filled THEN Near(Booked)
                        ELSE \E n \in Outstanding : Near(Booked + Value({n}))
        BY OpenSums DEF SettledValueIsExact, Near, Booked, Rounding
    <2>1. CASE Even /\ Near(Booked)
        BY <2>1 DEF Even
    <2>2. ASSUME NEW n \in Outstanding, Ahead(n), Near(Booked + reports[n].l * reports[n].L)
          PROVE  ledger.qty # row.filled /\ Near(Booked + Value({n}))
        <3>1. n \in Fills
            BY <1>3, OutstandingType
        <3>2. reports[n].l \in Nat \ {0} /\ row.filled \in Nat
            BY <1>3, <3>1, FillNumbers DEF TypeOK, Row
        <3>3. ledger.qty # row.filled
            BY <2>2, <3>2 DEF Ahead
        <3>4. Value({n}) = reports[n].l * reports[n].L
            BY <1>3, <3>1, ValueOfOne
        <3> QED
            BY <2>2, <3>3, <3>4
    <2> QED
        BY <1>3, <2>1, <2>2 DEF ValueInv
<1> QED
    BY <1>1, <1>2, <1>3, TypeCorrect, BrokerInvariant, TurnInvariant, LedgerInvariant, PTL DEF Spec

-----------------------------------------------------------------------------
(* What the row shows. *)

\* filled_quantity and the outstanding fills make up what was executed.
AnsweredInv == OneByOne => row.filled = broker.qty - OpenQty

Gap == row.filled * row.avg - Booked

\* The stored average is off by at most half of the two last digits for each report that is not outstanding.
AverageInv == OneByOne =>
    IF row.filled = 0 THEN Booked = 0
    ELSE LET slack == row.filled * ((Digit + 1) * (Len(reports) - OpenCount))
         IN  2 * Gap <= slack /\ -2 * Gap <= slack

RowInv == AnsweredInv /\ AverageInv

\* UpdateOrderFill, one by one: the row grows by the quantity of the fill, and the average is
\* computed from the row as it is.
LEMMA UpdateOneByOne ==
    ASSUME TypeOK, BrokerInv, TurnInv, OneByOne, (TypeOK /\ BrokerInv)', NEW w \in Workers, UpdateOrderFill(w)
    PROVE  \E n \in Fills :
              /\ row'.filled = row.filled + reports[n].l
              /\ row'.avg = Stored(IF row.filled = 0 THEN reports[n].L
                                   ELSE RoundedDiv(row.filled * row.avg + reports[n].l * reports[n].L,
                                                   row.filled + reports[n].l))
              /\ OpenQty' = OpenQty - reports[n].l
              /\ OpenValue' = OpenValue - reports[n].l * reports[n].L
              /\ OpenCount' = OpenCount - 1
              /\ UNCHANGED <<channel, broker, reports>>
<1>0. PICK n : n = job[w].report
    OBVIOUS
<1>1. /\ pc[w] \in Inside
      /\ row' = [status |-> newStatus(w), filled |-> newFilledQty(w), avg |-> newAvgPrice(w)]
      /\ n \in Outstanding => /\ OpenQty' = OpenQty - reports[n].l
                              /\ OpenValue' = OpenValue - reports[n].l * reports[n].L
                              /\ OpenCount' = OpenCount - 1
      /\ UNCHANGED <<channel, broker, reports>>
    BY <1>0, UpdateFrame
<1>2. /\ n \in Outstanding /\ n \in Fills /\ seen[w] = row /\ newFilledQty(w) = row.filled + reports[n].l
      /\ job[w].qty = reports[n].l /\ job[w].price = reports[n].L
    BY <1>0, <1>1, AtWork DEF OneByOne, Replies
<1>3. row'.filled = row.filled + reports[n].l
    BY <1>1, <1>2
<1>4. row'.avg = Stored(IF row.filled = 0 THEN reports[n].L
                        ELSE RoundedDiv(row.filled * row.avg + reports[n].l * reports[n].L, row.filled + reports[n].l))
    BY <1>1, <1>2 DEF newAvgPrice
<1> QED
    BY <1>1, <1>2, <1>3, <1>4

\* RowInv is inductive.
LEMMA RowStep ==
    ASSUME ~Unordered, TypeOK, BrokerInv, TurnInv, RowInv, (TypeOK /\ BrokerInv)', [Next]_vars
    PROVE  RowInv'
<1> SUFFICES ASSUME OneByOne' PROVE RowInv'
    BY DEF RowInv, AnsweredInv, AverageInv
<1>0. OneByOne /\ channel \notin Replies
    BY DEF Next, Work, vars, BrokerFills, BrokerCancels, BrokerNotes, Emit, Deliver, Dismiss, ConfirmOrder,
           ConfirmAndProcess, Fail, Lookup, GetOrCreateBrokerAccount, Settle, UpdateOrderFill, Respond, OneByOne, Replies
<1>1. /\ row.filled \in Nat /\ row.avg \in Nat /\ broker.qty \in Nat /\ broker.value \in Nat
      /\ OpenQty \in Nat /\ OpenValue \in Nat /\ OpenCount \in Nat /\ Len(reports) \in Nat /\ OpenCount <= Len(reports)
    BY OpenType, OutstandingType DEF TypeOK, Row
<1>2. Booked \in Int
    BY <1>1 DEF Booked
<1> DEFINE k == (Digit + 1) * (Len(reports) - OpenCount)
<1>3. k \in Nat /\ Digit \in Nat \ {0}
    BY <1>1, DigitAssumption
<1>4. row.filled = broker.qty - OpenQty
    BY <1>0 DEF RowInv, AnsweredInv
<1>5. IF row.filled = 0 THEN Booked = 0
      ELSE 2 * (row.filled * row.avg - Booked) <= row.filled * k /\ -2 * (row.filled * row.avg - Booked) <= row.filled * k
    BY <1>0 DEF RowInv, AverageInv, Gap
\* The row does not change, nor what is booked.
<1>6. ASSUME row'.filled = row.filled, row'.avg = row.avg, Booked' = Booked,
             broker'.qty - OpenQty' = broker.qty - OpenQty,
             Len(reports') - OpenCount' \in {Len(reports) - OpenCount, Len(reports) - OpenCount + 1}
      PROVE  RowInv'
    <2>1. AnsweredInv'
        BY <1>4, <1>6 DEF AnsweredInv
    <2> DEFINE l == (Digit + 1) * (Len(reports') - OpenCount')
    <2>0. l \in Nat /\ k <= l
        <3>0. Len(reports) - OpenCount \in Nat
            BY <1>1
        <3>1. PICK m \in Nat, o \in Nat : m = Len(reports) - OpenCount /\ o = Len(reports') - OpenCount' /\ m <= o
            <4>1. PICK m \in Nat : m = Len(reports) - OpenCount
                BY <3>0
            <4>2. PICK o \in Nat : o = Len(reports') - OpenCount' /\ m <= o
                BY <1>6, <4>1
            <4> QED
                BY <4>1, <4>2
        <3>2. (Digit + 1) * m <= (Digit + 1) * o /\ (Digit + 1) * o \in Nat
            BY <1>3, <3>1
        <3> QED
            BY <3>1, <3>2
    <2> DEFINE G == row.filled * row.avg - Booked
               S == row.filled * k
               T == row.filled * l
    <2>2. S <= T
        <3> HIDE DEF k, l
        <3> QED
            BY <1>1, <1>3, <2>0
    <2>3. G \in Int /\ S \in Int /\ T \in Int
        <3> HIDE DEF k, l
        <3> QED
            BY <1>1, <1>2, <1>3, <2>0
    <2>4. S <= T /\ (row.filled # 0 => 2 * G <= S /\ -2 * G <= S) /\ (row.filled = 0 => Booked = 0)
        BY <1>5, <2>2
    <2>5. Gap' = G /\ row'.filled * ((Digit + 1) * (Len(reports') - OpenCount')) = T
        BY <1>6 DEF Gap
    <2> HIDE DEF G, S, T
    <2>6. row.filled # 0 => 2 * G <= T /\ -2 * G <= T
        BY <2>3, <2>4
    <2>7. AverageInv'
        BY <1>6, <2>4, <2>5, <2>6 DEF AverageInv
    <2> QED
        BY <2>1, <2>7 DEF RowInv
<1>7. ASSUME NEW qty \in 1 .. Target, NEW price \in Prices, BrokerFills(qty, price) PROVE RowInv'
    <2>1. PICK new \in Nat : FillReported(new, qty, price) /\ Counted(new, qty, price)
        BY <1>0, <1>7, BrokerFillsKind DEF Replies
    <2> DEFINE v == qty * price
    <2>2. /\ v \in Int /\ qty \in Int /\ broker'.value = broker.value + v /\ OpenValue' = OpenValue + v
          /\ broker'.qty = broker.qty + qty /\ OpenQty' = OpenQty + qty
          /\ OpenCount' = OpenCount + 1 /\ Len(reports') = Len(reports) + 1 /\ row' = row
        BY <2>1, PricesAssumption DEF FillReported, Counted
    <2> HIDE DEF v
    <2>3. /\ Booked' = Booked /\ broker'.qty - OpenQty' = broker.qty - OpenQty
          /\ Len(reports') - OpenCount' = Len(reports) - OpenCount
        BY <1>1, <2>2 DEF Booked
    <2> QED
        BY <1>6, <2>2, <2>3
<1>8. ASSUME NEW new \in Nat, OtherReported(new) PROVE RowInv'
    <2>1. /\ Len(reports') = Len(reports) + 1 /\ row' = row /\ broker'.qty = broker.qty /\ broker'.value = broker.value
          /\ OpenQty' = OpenQty /\ OpenValue' = OpenValue /\ OpenCount' = OpenCount
        BY <1>8 DEF OtherReported, Uncounted
    <2>2. Booked' = Booked /\ Len(reports') - OpenCount' = Len(reports) - OpenCount + 1
        BY <1>1, <2>1 DEF Booked
    <2> QED
        BY <1>6, <2>1, <2>2
<1>9. ASSUME Uncounted, UNCHANGED <<broker, reports>>, row'.filled = row.filled, row'.avg = row.avg PROVE RowInv'
    BY <1>6, <1>9 DEF Uncounted, Booked
<1>10. ASSUME Quiet, UNCHANGED row PROVE RowInv'
    BY <1>9, <1>10 DEF Quiet
<1>11. ASSUME Quiet, ConfirmOrder \/ ConfirmAndProcess PROVE RowInv'
    <2>1. row'.filled = row.filled /\ row'.avg = row.avg
        BY <1>11 DEF ConfirmOrder, ConfirmAndProcess, TypeOK, Row
    <2> QED
        BY <1>9, <1>11, <2>1 DEF Quiet
<1>12. ASSUME NEW w \in Workers, Settle(w) PROVE RowInv'
    BY <1>9, <1>12, SettleFrame
<1>13. ASSUME NEW w \in Workers, Respond(w) PROVE RowInv'
    <2>1. channel # "repeat"
        BY <1>0 DEF OneByOne
    <2> QED
        BY <1>9, <1>13, <2>1, RespondFrame
<1>14. ASSUME NEW w \in Workers, UpdateOrderFill(w) PROVE RowInv'
    <2>1. PICK n \in Fills :
              /\ row'.filled = row.filled + reports[n].l
              /\ row'.avg = Stored(IF row.filled = 0 THEN reports[n].L
                                   ELSE RoundedDiv(row.filled * row.avg + reports[n].l * reports[n].L,
                                                   row.filled + reports[n].l))
              /\ OpenQty' = OpenQty - reports[n].l
              /\ OpenValue' = OpenValue - reports[n].l * reports[n].L
              /\ OpenCount' = OpenCount - 1
              /\ UNCHANGED <<channel, broker, reports>>
        BY <1>0, <1>14, UpdateOneByOne
    <2>2. PICK f \in Nat, a \in Nat, q \in Nat \ {0}, p \in Nat :
              f = row.filled /\ a = row.avg /\ q = reports[n].l /\ p = reports[n].L
        BY <1>1, FillNumbers
    <2>3. AnsweredInv'
        <3>1. row'.filled = f + q /\ OpenQty' = OpenQty - q /\ broker' = broker /\ f = broker.qty - OpenQty
            BY <1>4, <2>1, <2>2
        <3>2. row'.filled = broker'.qty - OpenQty'
            BY <1>1, <3>1
        <3> QED
            BY <3>2 DEF AnsweredInv
    <2>4. q * p \in Nat
        OBVIOUS
    <2>5. Booked' = Booked + q * p
        <3> DEFINE v == q * p
        <3>1. v \in Nat /\ OpenValue' = OpenValue - v /\ broker' = broker
            BY <2>1, <2>2, <2>4
        <3> HIDE DEF v
        <3>2. Booked' = Booked + v
            BY <1>1, <3>1 DEF Booked
        <3> QED
            BY <3>2 DEF v
    <2>6. (Digit + 1) * (Len(reports') - OpenCount') = k + Digit + 1
        <3>1. PICK m \in Nat : m = Len(reports) - OpenCount /\ Len(reports') - OpenCount' = m + 1
            <4>1. PICK m \in Nat : m = Len(reports) - OpenCount
                BY <1>1
            <4>2. Len(reports') - OpenCount' = m + 1
                BY <1>1, <2>1, <4>1
            <4> QED
                BY <4>1, <4>2
        <3>2. (Digit + 1) * (m + 1) = (Digit + 1) * m + Digit + 1
            BY <1>3, <3>1
        <3> QED
            BY <3>1, <3>2
    <2>7. row'.filled = f + q /\ row'.filled # 0
        BY <2>1, <2>2
    <2> DEFINE r == row'.avg
               Goal == /\ 2 * ((f + q) * r - (Booked + q * p)) <= (f + q) * (k + Digit + 1)
                       /\ -2 * ((f + q) * r - (Booked + q * p)) <= (f + q) * (k + Digit + 1)
    <2>8. ASSUME f = 0 PROVE Goal
        <3>1. r = Stored(p) /\ Booked = 0
            BY <1>5, <2>1, <2>2, <2>8
        <3>2. r \in Nat /\ 2 * (q * r - q * p) <= q * Digit /\ 2 * (q * p - q * r) <= q * Digit
            BY <1>3, <3>1, MultipleError DEF Stored
        <3> HIDE DEF r, k
        <3>3. q * Digit <= q * (k + Digit + 1)
            BY <1>3
        <3> DEFINE qr == q * r
                   qp == q * p
                   qd == q * Digit
                   S == q * (k + Digit + 1)
        <3>4. qr \in Int /\ qp \in Int /\ qd \in Int /\ S \in Int
            BY <1>3, <3>2
        <3>5. 2 * (qr - qp) <= qd /\ 2 * (qp - qr) <= qd /\ qd <= S
            BY <3>2, <3>3
        <3> HIDE DEF qr, qp, qd, S
        <3>6. 2 * (qr - qp) <= S /\ -2 * (qr - qp) <= S
            BY <3>4, <3>5
        <3>7. f + q = q /\ Booked + q * p = q * p
            BY <2>4, <2>8, <3>1
        <3> QED
            BY <3>6, <3>7 DEF qr, qp, S
    <2>9. ASSUME f # 0 PROVE Goal
        <3> DEFINE u == RoundedDiv(f * a + q * p, f + q)
        <3>1. r = Stored(u)
            BY <2>1, <2>2, <2>9
        <3>2. 2 * (f * a - Booked) <= f * k /\ -2 * (f * a - Booked) <= f * k /\ f \in Nat \ {0}
            BY <1>5, <2>2, <2>9
        <3> HIDE DEF r, k
        <3>3. /\ u \in Nat
              /\ 2 * ((f + q) * u - (Booked + q * p)) <= (f + q) * (k + 1)
              /\ -2 * ((f + q) * u - (Booked + q * p)) <= (f + q) * (k + 1)
            <4>1. k \in Int /\ Booked \in Int
                BY <1>2, <1>3
            <4> QED
                BY <3>2, <4>1, MeanStep
        <3> HIDE DEF u
        <3> DEFINE n2 == f + q
                   nr == n2 * r
                   nu == n2 * u
                   nd == n2 * Digit
                   S == n2 * (k + 1)
                   T == n2 * (k + Digit + 1)
                   W == Booked + q * p
        <3>4. n2 \in Nat
            OBVIOUS
        <3> HIDE DEF n2
        <3>5. r \in Nat /\ 2 * (nr - nu) <= nd /\ 2 * (nu - nr) <= nd
            BY <1>3, <3>1, <3>3, <3>4, MultipleError DEF Stored
        <3>6. 2 * (nu - W) <= S /\ -2 * (nu - W) <= S
            BY <3>3 DEF n2
        <3>7. T = S + nd /\ nr \in Int /\ nu \in Int /\ nd \in Int /\ S \in Int /\ W \in Int
            BY <1>2, <1>3, <2>4, <3>3, <3>4, <3>5
        <3> HIDE DEF nr, nu, nd, S, T, W
        <3>8. 2 * (nr - W) <= T /\ -2 * (nr - W) <= T
            BY <3>5, <3>6, <3>7
        <3> QED
            BY <3>8 DEF nr, n2, T, W
    <2>10. AverageInv'
        <3>1. Goal
            BY <2>8, <2>9
        <3>2. Gap' = (f + q) * r - (Booked + q * p)
            BY <2>5, <2>7 DEF Gap
        <3> HIDE DEF r, k
        <3> QED
            BY <2>6, <2>7, <3>1, <3>2 DEF AverageInv
    <2> QED
        BY <2>3, <2>10 DEF RowInv
<1> QED
    BY <1>7, <1>8, <1>10, <1>11, <1>12, <1>13, <1>14, NextKinds

\* Webhooks one after the other, in any order: the row is exactly the fills that were answered.
LEMMA RowInvariant == ASSUME ~Unordered PROVE Spec => []RowInv
<1>1. Init => RowInv
    <2> SUFFICES ASSUME Init PROVE RowInv
        OBVIOUS
    <2>1. Outstanding = {} /\ broker.qty = 0 /\ broker.value = 0 /\ row.filled = 0
        BY DEF Init, Outstanding, UnrecordedRow
    <2>2. OpenValue = 0 /\ OpenQty = 0
        BY <2>1, SumEmpty DEF OpenValue, OpenQty
    <2> QED
        BY <2>1, <2>2 DEF RowInv, AnsweredInv, AverageInv, Booked
<1>2. TypeOK /\ BrokerInv /\ TurnInv /\ RowInv /\ (TypeOK /\ BrokerInv)' /\ [Next]_vars => RowInv'
    BY RowStep
<1> QED
    BY <1>1, <1>2, TypeCorrect, BrokerInvariant, TurnInvariant, PTL DEF Spec

\* fill_processor.go, ProcessFill: filled_quantity is exactly what the answered webhooks reported, in
\* whatever order they came and however often an attempt failed before its write.
THEOREM FilledQuantityIsAnswered == ASSUME ~Unordered PROVE Spec => []FilledIsAnswered
<1>1. RowInv => FilledIsAnswered
    BY OpenSums DEF RowInv, AnsweredInv, FilledIsAnswered
<1> QED
    BY <1>1, RowInvariant, PTL

\* fill_processor.go, ProcessFill: the running average, rounded by Div and by its column on every
\* write, stays within half of the last digit of each per fill of the volume-weighted average, for
\* prices of any precision that Div keeps and any number of fills.
THEOREM RunningAverageIsVWAP == ASSUME ~Unordered PROVE Spec => []AverageIsVWAP
<1>1. ASSUME TypeOK, BrokerInv, RowInv PROVE AverageIsVWAP
    <2> SUFFICES ASSUME OneByOne
                 PROVE  /\ 2 * Gap <= row.filled * ((Digit + 1) * Len(reports))
                        /\ -2 * Gap <= row.filled * ((Digit + 1) * Len(reports))
        BY OpenSums DEF AverageIsVWAP, Gap, Booked
    <2>1. /\ row.filled \in Nat /\ row.avg \in Nat /\ OpenCount \in Nat /\ Len(reports) \in Nat /\ Booked \in Int
        BY <1>1, OpenType, OutstandingType DEF TypeOK, Row, Booked
    <2> DEFINE k == (Digit + 1) * (Len(reports) - OpenCount)
               l == (Digit + 1) * Len(reports)
               S == row.filled * k
               T == row.filled * l
    <2>0. k \in Int /\ l \in Int /\ k <= l
        BY <2>1, DigitAssumption
    <2>2. S \in Int /\ T \in Int /\ S <= T /\ Gap \in Int
        <3> HIDE DEF k, l
        <3> QED
            BY <2>0, <2>1 DEF Gap
    <2>3. CASE row.filled = 0
        <3>1. Gap = 0 /\ T = 0
            <4> HIDE DEF l
            <4> QED
                BY <1>1, <2>0, <2>1, <2>3 DEF RowInv, AverageInv, Gap
        <3> HIDE DEF T
        <3>2. 2 * Gap <= T /\ -2 * Gap <= T
            BY <3>1
        <3> QED
            BY <3>2 DEF T
    <2>4. CASE row.filled # 0
        <3>1. 2 * Gap <= S /\ -2 * Gap <= S
            BY <1>1, <2>4 DEF RowInv, AverageInv
        <3> HIDE DEF S, T
        <3>2. 2 * Gap <= T /\ -2 * Gap <= T
            BY <2>2, <3>1
        <3> QED
            BY <3>2 DEF T
    <2> QED
        BY <2>3, <2>4
<1> QED
    BY <1>1, TypeCorrect, BrokerInvariant, RowInvariant, PTL
-----------------------------------------------------------------------------
(* Nothing is counted twice. *)

\* While the order is not confirmed, the fills of a "reply" are not sent by webhook.
ReplyInv == channel = "reply" /\ row.status = "PENDING" => pending = {}

\* What ExecuteTrade took from the reply and has not booked.
SyncQty == IF pc[Sync] \in Inside \cup {"lookup"} THEN job[Sync].qty ELSE 0

Unbooked == OpenQty + SyncQty

\* Neither the row nor a row that somebody read, and is about to build on, holds any of what is
\* still to be booked.
CountInv == channel \notin {"repeat", "both"} =>
    /\ row.filled + Unbooked <= broker.qty
    /\ \A w \in Workers : pc[w] \in Inside => seen[w].filled + Unbooked <= broker.qty

\* ReplyInv is inductive: a report made before the confirmation is not sent.
LEMMA ReplyInvariant == Spec => []ReplyInv
<1>1. Init => ReplyInv
    BY DEF Init, ReplyInv
<1>2. ASSUME TypeOK, ReplyInv, [Next]_vars PROVE ReplyInv'
    <2> SUFFICES ASSUME channel' = "reply", row'.status = "PENDING" PROVE pending' = {}
        BY DEF ReplyInv
    <2>0. ASSUME channel = "reply", row.status = "PENDING" PROVE pending = {}
        BY <1>2, <2>0 DEF ReplyInv
    <2>1. ASSUME NEW rep, Emit(rep) PROVE pending' = {}
        BY <2>0, <2>1 DEF Emit
    <2>2. ASSUME NEW w, Work(w) PROVE pending' = {}
        <3>1. ~UpdateOrderFill(w)
            BY DEF UpdateOrderFill, newStatus
        <3>2. channel' = channel /\ row' = row /\ (pending' = pending \/ pending' = pending \ {job[w].report})
            BY <2>2, <3>1 DEF Work, Fail, Lookup, GetOrCreateBrokerAccount, Settle, Respond
        <3> QED
            BY <2>0, <3>2
    <2>3. ~ConfirmOrder /\ ~ConfirmAndProcess
        <3>1. replyStatus # "PENDING"
            BY DEF replyStatus
        <3>2. ASSUME ConfirmOrder \/ ConfirmAndProcess PROVE row'.status # "PENDING"
            BY <1>2, <3>1, <3>2 DEF ConfirmOrder, ConfirmAndProcess, TypeOK, Row
        <3> QED
            BY <3>2
    <2>4. ASSUME NEW w, NEW n, Deliver(w, n) \/ Dismiss(n) \/ UNCHANGED vars PROVE pending' = {}
        BY <2>0, <2>4 DEF Deliver, Dismiss, vars
    <2> QED
        BY <1>2, <2>1, <2>2, <2>3, <2>4 DEF Next, BrokerFills, BrokerCancels, BrokerNotes
<1> QED
    BY <1>1, <1>2, TypeCorrect, PTL DEF Spec

\* A handler between its read and its write has a fill that is outstanding, whoever else is at work.
LEMMA HandlerAtWork ==
    ASSUME TypeOK, TurnInv, NEW w \in Handlers, pc[w] \in Inside
    PROVE  job[w].report \in Outstanding /\ job[w].qty = reports[job[w].report].l
<1>1. pc[w] # "idle" /\ pc[w] # "respond"
    BY DEF Inside
<1>2. Carries(w)
    BY <1>1 DEF TurnInv, HandlersCarry
<1>3. ~Answering(job[w].report)
    <2> SUFFICES ASSUME NEW v \in Workers, pc[v] = "respond", job[v].report = job[w].report PROVE FALSE
        BY DEF Answering
    <2>1. job[w].report # 0
        BY <1>2 DEF Carries, TypeOK
    <2>2. v \in Handlers
        BY <2>1 DEF Workers, TurnInv, SyncInv
    <2> QED
        BY <1>1, <2>2 DEF TurnInv, OneHandler
<1> QED
    BY <1>2, <1>3, OutstandingIs DEF Carries

\* Only ConfirmAndProcess gives ExecuteTrade something to book, and a row somebody builds on was
\* read before or is the present one.
LEMMA ReadFrame ==
    ASSUME TypeOK, TurnInv, [Next]_vars, ~ConfirmAndProcess
    PROVE  /\ SyncQty' \in {SyncQty, 0}
           /\ \A w \in Workers : pc'[w] \in Inside =>
                 (pc[w] \in Inside /\ seen'[w] = seen[w]) \/ seen'[w] = row
<1>0. Sync \in Workers /\ Sync \notin Handlers /\ Handlers \subseteq Workers
    BY SyncAssumption DEF Workers
<1>1. CASE UNCHANGED <<pc, job, seen>>
    BY <1>1 DEF SyncQty, Inside
<1>2. ASSUME NEW w \in Handlers, NEW n, Deliver(w, n)
      PROVE  /\ SyncQty' = SyncQty
             /\ \A v \in Workers : pc'[v] \in Inside => pc[v] \in Inside /\ seen'[v] = seen[v]
    <2>1. pc'[Sync] = pc[Sync] /\ job'[Sync] = job[Sync] /\ seen' = seen
        BY <1>0, <1>2 DEF Deliver, Goto, TypeOK
    <2>2. \A v \in Workers : pc'[v] = IF v = w THEN "lookup" ELSE pc[v]
        BY <1>0, <1>2 DEF Deliver, Goto, TypeOK
    <2> QED
        BY <2>1, <2>2 DEF SyncQty, Inside
<1>3. ASSUME NEW w \in Workers, Work(w)
      PROVE  /\ SyncQty' \in {SyncQty, 0}
             /\ \A v \in Workers : pc'[v] \in Inside =>
                   (pc[v] \in Inside /\ seen'[v] = seen[v]) \/ seen'[v] = row
    <2>1. /\ \A v \in Workers : v # w => pc'[v] = pc[v] /\ job'[v] = job[v] /\ seen'[v] = seen[v]
          /\ pc'[w] # "idle" => job'[w] = job[w]
        BY <1>3, WorkFrame
    <2>2. /\ pc'[w] \in Inside => (pc[w] \in Inside /\ seen'[w] = seen[w]) \/ seen'[w] = row
          /\ pc'[w] \in Inside => pc[w] \in Inside \cup {"lookup"}
          /\ pc'[w] # "lookup"
        <3>1. CASE Fail(w)
            BY <3>1 DEF Fail, Goto, TypeOK, Inside
        <3>2. CASE Lookup(w)
            BY <3>2 DEF Lookup, Goto, TypeOK, Inside
        <3>3. CASE GetOrCreateBrokerAccount(w)
            BY <3>3 DEF GetOrCreateBrokerAccount, Goto, TypeOK, Inside
        <3>4. CASE Settle(w)
            BY <3>4 DEF Settle, Goto, TypeOK, Inside
        <3>5. CASE UpdateOrderFill(w)
            BY <3>5 DEF UpdateOrderFill, Goto, TypeOK, Inside
        <3>6. CASE Respond(w)
            BY <3>6 DEF Respond, Goto, TypeOK, Inside
        <3> QED
            BY <1>3, <3>1, <3>2, <3>3, <3>4, <3>5, <3>6 DEF Work
    <2>3. SyncQty' \in {SyncQty, 0}
        BY <1>0, <2>1, <2>2 DEF SyncQty, Inside
    <2> QED
        BY <2>1, <2>2, <2>3
<1>4. CASE Next
    <2>1. CASE \/ \E qty \in 1 .. Target, price \in Prices : BrokerFills(qty, price)
               \/ BrokerCancels
               \/ \E rep \in Noise : BrokerNotes(rep)
               \/ \E n \in pending : Dismiss(n)
               \/ ConfirmOrder
        <3>1. UNCHANGED <<pc, job, seen>>
            BY <2>1 DEF BrokerFills, BrokerCancels, BrokerNotes, Emit, Dismiss, ConfirmOrder
        <3> QED
            BY <1>1, <3>1
    <2> QED
        BY <1>2, <1>3, <1>4, <2>1 DEF Next
<1> QED
    BY <1>1, <1>4 DEF vars
\* CountInv is inductive.
LEMMA CountStep ==
    ASSUME ~Unordered, TypeOK, StatusInv, BrokerInv, TurnInv, ReplyInv, CountInv, (TypeOK /\ BrokerInv)', [Next]_vars
    PROVE  CountInv'
<1> SUFFICES ASSUME channel' \notin {"repeat", "both"} PROVE CountInv'
    BY DEF CountInv
<1>0. channel \notin {"repeat", "both"} /\ Sync \in Workers /\ Sync \notin Handlers /\ Handlers \subseteq Workers
    BY SyncAssumption
       DEF Next, Work, vars, BrokerFills, BrokerCancels, BrokerNotes, Emit, Deliver, Dismiss, ConfirmOrder,
           ConfirmAndProcess, Fail, Lookup, GetOrCreateBrokerAccount, Settle, UpdateOrderFill, Respond, Workers
<1>1. /\ row.filled \in Nat /\ broker.qty \in Nat /\ broker'.qty \in Nat /\ row'.filled \in Nat
      /\ \A w \in Workers : seen[w].filled \in Nat /\ seen'[w].filled \in Nat
    BY DEF TypeOK, Row
<1>2. OpenQty \in Nat /\ OpenQty' \in Nat
    <2>1. (OpenQty \in Nat /\ OpenValue \in Nat)'
        BY OpenType, PTL
    <2> QED
        BY <2>1, OpenType
<1>3. SyncQty \in Nat /\ SyncQty' \in Nat
    BY <1>0 DEF SyncQty, TypeOK, Job
<1>4. /\ row.filled + OpenQty + SyncQty <= broker.qty
      /\ \A w \in Workers : pc[w] \in Inside => seen[w].filled + OpenQty + SyncQty <= broker.qty
    BY <1>0, <1>1, <1>2, <1>3 DEF CountInv, Unbooked
\* What is left to book does not grow faster than what was executed, and the row does not grow.
<1>5. ASSUME ~ConfirmAndProcess, row'.filled = row.filled, OpenQty' - OpenQty = broker'.qty - broker.qty
      PROVE  CountInv'
    <2>1. /\ SyncQty' <= SyncQty
          /\ \A w \in Workers : pc'[w] \in Inside =>
                (pc[w] \in Inside /\ seen'[w].filled = seen[w].filled) \/ seen'[w].filled = row.filled
        BY <1>3, <1>5, ReadFrame
    <2>2. row'.filled + OpenQty' + SyncQty' <= broker'.qty
        BY <1>1, <1>2, <1>3, <1>4, <1>5, <2>1
    <2>3. ASSUME NEW w \in Workers, pc'[w] \in Inside PROVE seen'[w].filled + OpenQty' + SyncQty' <= broker'.qty
        <3>1. seen'[w].filled + OpenQty + SyncQty <= broker.qty
            BY <1>4, <2>1, <2>3
        <3> QED
            BY <1>1, <1>2, <1>3, <1>5, <2>1, <3>1
    <2> QED
        BY <1>1, <1>2, <1>3, <2>2, <2>3 DEF CountInv, Unbooked
<1>6. ASSUME ~ConfirmAndProcess, row'.filled = row.filled, OpenQty' = OpenQty, broker'.qty = broker.qty PROVE CountInv'
    BY <1>1, <1>2, <1>5, <1>6
<1>7. ASSUME NEW qty \in 1 .. Target, NEW price \in Prices, BrokerFills(qty, price) PROVE CountInv'
    <2>1. PICK new \in Nat :
              /\ FillReported(new, qty, price)
              /\ IF channel = "reply" /\ row.status = "PENDING" THEN Uncounted /\ pending' = pending
                                                                ELSE Counted(new, qty, price)
        BY <1>7, BrokerFillsKind
    <2>2. /\ row' = row /\ pc' = pc /\ job' = job /\ seen' = seen /\ broker'.qty = broker.qty + qty
          /\ OpenQty' = OpenQty \/ OpenQty' = OpenQty + qty
        BY <2>1 DEF FillReported, Counted, Uncounted
    <2>3. SyncQty' = SyncQty
        BY <2>2 DEF SyncQty, Inside
    <2>4. row'.filled + OpenQty' + SyncQty' <= broker'.qty
        BY <1>1, <1>2, <1>3, <1>4, <2>2, <2>3
    <2>5. ASSUME NEW w \in Workers, pc'[w] \in Inside PROVE seen'[w].filled + OpenQty' + SyncQty' <= broker'.qty
        <3>1. seen'[w].filled + OpenQty + SyncQty <= broker.qty
            BY <1>4, <2>2, <2>5
        <3> QED
            BY <1>1, <1>2, <1>3, <2>2, <2>3, <3>1
    <2> QED
        BY <1>1, <1>2, <1>3, <2>4, <2>5 DEF CountInv, Unbooked
<1>8. ASSUME NEW new \in Nat, OtherReported(new) PROVE CountInv'
    <2>1. row' = row /\ job' = job /\ pc' = pc /\ seen' = seen /\ OpenQty' = OpenQty /\ broker'.qty = broker.qty
        BY <1>8 DEF OtherReported, Uncounted
    <2>2. ~ConfirmAndProcess
        <3>1. ASSUME ConfirmAndProcess PROVE reports' = reports
            BY <3>1 DEF ConfirmAndProcess
        <3>2. Len(reports') # Len(reports)
            BY <1>8 DEF OtherReported, TypeOK
        <3> QED
            BY <3>1, <3>2
    <2> QED
        BY <1>6, <2>1, <2>2
<1>9. ASSUME ConfirmAndProcess, Quiet PROVE CountInv'
    <2>1. /\ channel = "reply" /\ row.status = "PENDING" /\ broker' = broker /\ OpenQty' = OpenQty
          /\ Outstanding \subseteq pending /\ row'.filled = row.filled
        BY <1>0, <1>9 DEF ConfirmAndProcess, Replies, Quiet, Uncounted, Outstanding, TypeOK, Row
    <2>2. row.filled = 0 /\ Outstanding = {}
        BY <2>1 DEF StatusInv, ReplyInv
    <2>3. OpenQty = 0
        BY <2>2, SumEmpty DEF OpenQty
    <2>4. SyncQty' = broker.qty
        BY <1>0, <1>9 DEF ConfirmAndProcess, Goto, SyncQty, TypeOK
    <2>5. \A w \in Workers : pc'[w] \notin Inside
        BY <1>0, <1>9, <2>1 DEF ConfirmAndProcess, Goto, TurnInv, NobodyInside, TypeOK, Inside
    <2>6. row'.filled + OpenQty' + SyncQty' <= broker'.qty
        BY <1>1, <2>1, <2>2, <2>3, <2>4
    <2> QED
        BY <1>1, <1>2, <1>3, <2>5, <2>6 DEF CountInv, Unbooked
<1>10. ASSUME NEW w \in Workers, Settle(w) \/ Respond(w) PROVE CountInv'
    <2>1. UNCHANGED <<broker, row>> /\ OpenQty' = OpenQty
        BY <1>0, <1>10, SettleFrame, RespondFrame DEF Uncounted
    <2>2. ~ConfirmAndProcess
        <3>1. ASSUME ConfirmAndProcess PROVE row.status = "PENDING" /\ row'.status # "PENDING"
            BY <3>1 DEF ConfirmAndProcess, replyStatus, TypeOK, Row
        <3> QED
            BY <2>1, <3>1
    <2> QED
        BY <1>6, <2>1, <2>2
<1>11. ASSUME Quiet, UNCHANGED row PROVE CountInv'
    <2>1. ~ConfirmAndProcess
        <3>1. ASSUME ConfirmAndProcess PROVE row.status = "PENDING" /\ row'.status # "PENDING"
            BY <3>1 DEF ConfirmAndProcess, replyStatus, TypeOK, Row
        <3> QED
            BY <1>11, <3>1
    <2> QED
        BY <1>6, <1>11, <2>1 DEF Quiet, Uncounted
<1>12. ASSUME Quiet, ConfirmOrder, ~ConfirmAndProcess PROVE CountInv'
    <2>1. row'.filled = row.filled
        BY <1>12 DEF ConfirmOrder, TypeOK, Row
    <2> QED
        BY <1>6, <1>12, <2>1 DEF Quiet, Uncounted
<1>13. ASSUME NEW w \in Workers, UpdateOrderFill(w) PROVE CountInv'
    <2>0. PICK n : n = job[w].report
        OBVIOUS
    <2>1. /\ pc[w] \in Inside
          /\ row'.filled = newFilledQty(w)
          /\ n \in Outstanding => OpenQty' = OpenQty - reports[n].l
          /\ n \notin Outstanding => OpenQty' = OpenQty
          /\ UNCHANGED <<broker, job, seen>>
        BY <1>13, <2>0, UpdateFrame DEF Uncounted
    <2>2. \A v \in Workers : pc'[v] = IF v = w THEN "respond" ELSE pc[v]
        BY <1>13 DEF UpdateOrderFill, Goto, TypeOK
    <2>3. PICK q \in Nat : q = job[w].qty
        BY DEF TypeOK, Job
    \* What the worker books is no longer to be booked.
    <2>4. OpenQty' + SyncQty' = OpenQty + SyncQty - q
        <3>1. ASSUME w = Sync PROVE OpenQty' = OpenQty /\ SyncQty = q /\ SyncQty' = 0
            <4>1. n = 0 /\ 0 \notin pending /\ Outstanding \subseteq pending
                BY <2>0, <3>1 DEF TurnInv, SyncInv, TypeOK, Outstanding
            <4> QED
                BY <1>0, <2>1, <2>2, <2>3, <3>1, <4>1 DEF SyncQty, Inside
        <3>2. ASSUME w # Sync PROVE OpenQty' = OpenQty - q /\ SyncQty' = SyncQty
            <4>1. n \in Outstanding /\ q = reports[n].l
                BY <2>0, <2>1, <2>3, <3>2, HandlerAtWork DEF Workers
            <4> QED
                BY <1>0, <2>1, <2>2, <3>2, <4>1 DEF SyncQty, Inside
        <3>3. CASE w = Sync
            BY <1>2, <1>3, <3>1, <3>3
        <3>4. CASE w # Sync
            BY <1>2, <1>3, <3>2, <3>4
        <3> QED
            BY <3>3, <3>4
    <2>5. row'.filled + OpenQty' + SyncQty' <= broker'.qty
        <3>1. row'.filled = seen[w].filled + q /\ seen[w].filled + OpenQty + SyncQty <= broker.qty /\ broker' = broker
            BY <1>4, <2>1, <2>3 DEF newFilledQty
        <3> QED
            BY <1>1, <1>2, <1>3, <2>4, <3>1
    <2>6. ASSUME NEW v \in Workers, pc'[v] \in Inside PROVE seen'[v].filled + OpenQty' + SyncQty' <= broker'.qty
        <3>1. seen'[v].filled + OpenQty + SyncQty <= broker.qty /\ broker'.qty = broker.qty
            BY <1>4, <2>1, <2>2, <2>6 DEF Inside
        <3>2. PICK s \in Nat : s = seen'[v].filled
            BY <1>1
        <3> QED
            BY <1>1, <1>2, <1>3, <2>4, <3>1, <3>2
    <2> QED
        BY <1>1, <1>2, <1>3, <2>5, <2>6 DEF CountInv, Unbooked
<1> QED
    BY <1>7, <1>8, <1>9, <1>10, <1>11, <1>12, <1>13, NextKinds

\* Whoever books, and in whatever order: what is still to be booked is in no row.
LEMMA CountInvariant == ASSUME ~Unordered PROVE Spec => []CountInv
<1>1. Init => CountInv
    <2> SUFFICES ASSUME Init PROVE CountInv
        OBVIOUS
    <2>1. Outstanding = {} /\ broker.qty = 0 /\ row.filled = 0 /\ Sync \in Workers
        BY DEF Init, Outstanding, UnrecordedRow, Workers
    <2>2. OpenQty = 0
        BY <2>1, SumEmpty DEF OpenQty
    <2>3. SyncQty = 0 /\ \A w \in Workers : pc[w] \notin Inside
        BY <2>1 DEF Init, SyncQty, Inside
    <2> QED
        BY <2>1, <2>2, <2>3 DEF CountInv, Unbooked
<1>2. TypeOK /\ StatusInv /\ BrokerInv /\ TurnInv /\ ReplyInv /\ CountInv /\ (TypeOK /\ BrokerInv)' /\ [Next]_vars
        => CountInv'
    BY CountStep
<1> QED
    BY <1>1, <1>2, TypeCorrect, StatusInvariant, BrokerInvariant, TurnInvariant, ReplyInvariant, PTL DEF Spec

\* service.go:302, "without double-counting the initial executed quantity": filled_quantity never
\* exceeds what the broker executed, also while ExecuteTrade books the reply and a handler a webhook
\* from rows they both read; provided no fill is reported in the reply and by webhook too.
THEOREM NothingIsCountedTwice == ASSUME ~Unordered, "both" \notin Channels PROVE Spec => []NoDoubleCount
<1>1. ASSUME TypeOK, BrokerInv, CountInv PROVE NoDoubleCount
    <2> SUFFICES ASSUME channel # "repeat" PROVE row.filled <= broker.qty
        BY DEF NoDoubleCount
    <2>1. row.filled \in Nat /\ broker.qty \in Nat /\ OpenQty \in Nat /\ SyncQty \in Nat
        <3>1. Sync \in Workers
            BY DEF Workers
        <3> QED
            BY <1>1, <3>1, OpenType DEF TypeOK, Row, Job, SyncQty
    <2>2. row.filled + (OpenQty + SyncQty) <= broker.qty
        BY <1>1 DEF CountInv, Unbooked, TypeOK
    <2> QED
        BY <2>1, <2>2
<1> QED
    BY <1>1, TypeCorrect, BrokerInvariant, CountInvariant, PTL

\* Something was sent, and what a worker is about to book is something.
PositiveInv == total # 0 /\ \A w \in Workers : pc[w] \in Inside => job[w].qty # 0

\* PositiveInv is inductive: ProcessFill refuses an event without a quantity before it reads the row.
LEMMA PositiveInvariant == Spec => []PositiveInv
<1>1. Init => PositiveInv
    BY DEF Init, PositiveInv, Inside
<1>2. ASSUME TypeOK, PositiveInv, [Next]_vars PROVE PositiveInv'
    <2>0. total' = total
        BY <1>2 DEF Next, Work, vars, BrokerFills, BrokerCancels, BrokerNotes, Emit, Deliver, Dismiss, ConfirmOrder,
           ConfirmAndProcess, Fail, Lookup, GetOrCreateBrokerAccount, Settle, UpdateOrderFill, Respond
    <2>1. ASSUME UNCHANGED <<pc, job>> PROVE PositiveInv'
        BY <1>2, <2>0, <2>1 DEF PositiveInv
    <2>2. ASSUME NEW w \in Workers, NEW v \in Workers, Work(w), pc'[v] \in Inside PROVE job'[v].qty # 0
        <3>1. CASE v # w
            BY <1>2, <2>2, <3>1, WorkFrame DEF PositiveInv
        <3>2. CASE v = w
            <4>1. job'[w] = job[w]
                BY <1>2, <2>2, <3>2, WorkFrame DEF Inside
            <4>2. CASE Lookup(w)
                BY <1>2, <3>2, <4>1, <4>2 DEF Lookup, TypeOK, Job
            <4>3. CASE pc[w] \in Inside
                BY <1>2, <3>2, <4>1, <4>3 DEF PositiveInv
            <4>4. CASE ~Lookup(w) /\ pc[w] \notin Inside
                BY <1>2, <2>2, <3>2, <4>4 DEF Work, Fail, GetOrCreateBrokerAccount, Settle, UpdateOrderFill,
                   Respond, Goto, TypeOK, Inside
            <4> QED
                BY <4>2, <4>3, <4>4
        <3> QED
            BY <3>1, <3>2
    <2>3. ASSUME NEW w \in Handlers, NEW n, Deliver(w, n), NEW v \in Workers, pc'[v] \in Inside PROVE job'[v].qty # 0
        <3>1. pc'[v] = pc[v] /\ job'[v] = job[v]
            BY <1>2, <2>3 DEF Deliver, Goto, TypeOK, Inside, Workers
        <3> QED
            BY <1>2, <2>3, <3>1 DEF PositiveInv
    <2>4. ASSUME ConfirmAndProcess, NEW v \in Workers, pc'[v] \in Inside PROVE job'[v].qty # 0
        <3>1. pc'[v] = pc[v] /\ job'[v] = job[v]
            BY <1>2, <2>4 DEF ConfirmAndProcess, Goto, TypeOK, Inside, Workers
        <3> QED
            BY <1>2, <2>4, <3>1 DEF PositiveInv
    <2>5. PositiveInv => total # 0
        BY DEF PositiveInv
    <2>6. CASE \E w \in Workers : Work(w)
        BY <1>2, <2>0, <2>2, <2>5, <2>6 DEF PositiveInv
    <2>7. CASE \E w \in Handlers, n \in pending : Deliver(w, n)
        BY <1>2, <2>0, <2>3, <2>5, <2>7 DEF PositiveInv
    <2>8. CASE ConfirmAndProcess
        BY <1>2, <2>0, <2>4, <2>5, <2>8 DEF PositiveInv
    <2> QED
        BY <1>2, <2>1, <2>6, <2>7, <2>8
           DEF Next, vars, BrokerFills, BrokerCancels, BrokerNotes, Emit, Dismiss, ConfirmOrder
<1> QED
    BY <1>1, <1>2, TypeCorrect, PTL DEF Spec

\* fill_processor.go, ProcessFill: a row that shows all that was sent to the broker never changes
\* again, because nothing is left to book that it does not show, whoever read what and when.
THEOREM CompleteRowIsFinal == ASSUME ~Unordered, "both" \notin Channels PROVE Spec => CompleteIsFinal
<1>1. ASSUME TypeOK, BrokerInv, StatusInv, TurnInv, PositiveInv, CountInv, (TypeOK /\ BrokerInv)', [Next]_vars
      PROVE  [channel # "repeat" /\ row.filled = total => row' = row]_vars
    <2> SUFFICES ASSUME channel # "repeat", row.filled = total, row' # row PROVE FALSE
        BY <1>1
    <2>0. /\ row.filled \in Nat /\ broker.qty \in Nat /\ total \in Nat /\ broker.qty <= total
          /\ OpenQty \in Nat /\ OpenQty' \in Nat /\ SyncQty \in Nat /\ Sync \in Workers
        <3>1. (OpenQty \in Nat /\ OpenValue \in Nat)'
            BY <1>1, OpenType, PTL
        <3>2. Sync \in Workers
            BY DEF Workers
        <3> QED
            BY <1>1, <3>1, <3>2, OpenType DEF TypeOK, Row, Job, SyncQty, BrokerInv
    <2>1. ~ConfirmOrder /\ ~ConfirmAndProcess
        BY <1>1 DEF ConfirmOrder, ConfirmAndProcess, StatusInv, PositiveInv
    <2>2. PICK w \in Workers : UpdateOrderFill(w)
        BY <1>1, <2>1 DEF Next, Work, vars, BrokerFills, BrokerCancels, BrokerNotes, Emit, Deliver, Dismiss,
           Fail, Lookup, GetOrCreateBrokerAccount, Settle, Respond
    <2>3. pc[w] \in Inside
        BY <2>2 DEF UpdateOrderFill, Inside
    <2>4. OpenQty = 0 /\ SyncQty = 0
        <3>1. row.filled + (OpenQty + SyncQty) <= broker.qty
            BY <1>1 DEF CountInv, Unbooked, TypeOK
        <3> QED
            BY <2>0, <3>1
    <2>5. job[w].qty \in Nat \ {0}
        BY <1>1, <2>3 DEF PositiveInv, TypeOK, Job
    <2>6. CASE w = Sync
        BY <2>3, <2>4, <2>5, <2>6 DEF SyncQty
    <2>7. CASE w # Sync
        <3>0. PICK n : n = job[w].report
            OBVIOUS
        <3>1. n \in Outstanding /\ job[w].qty = reports[n].l
            BY <1>1, <2>3, <2>7, <3>0, HandlerAtWork DEF Workers
        <3>2. n \in Outstanding => OpenQty' = OpenQty - reports[n].l
            BY <1>1, <2>2, <3>0, UpdateFrame
        <3> QED
            BY <2>0, <2>4, <2>5, <3>1, <3>2
    <2> QED
        BY <2>6, <2>7
<1> QED
    BY <1>1, TypeCorrect, BrokerInvariant, StatusInvariant, TurnInvariant, PositiveInvariant, CountInvariant,
       PTL DEF Spec, CompleteIsFinal

-----------------------------------------------------------------------------
(* The fill processor implements Settlement. *)

\* UpdateOrderFill, in order: the row catches up with the ledger.
LEMMA UpdateBooks ==
    ASSUME TypeOK, BrokerInv, TurnInv, OrderInv, LedgerInv, (TypeOK /\ BrokerInv)',
           channel = "webhook", route # "none", NEW w \in Workers, UpdateOrderFill(w)
    PROVE  Promise!Book
<1>0. PICK n : n = job[w].report
    OBVIOUS
<1>1. /\ pc[w] \in Inside /\ pc[w] = "update"
      /\ row'.status = newStatus(w) /\ row'.filled = newFilledQty(w)
      /\ UNCHANGED <<total, route, broker, ledger>>
    BY UpdateFrame DEF UpdateOrderFill
<1>2. w \in Handlers /\ newFilledQty(w) = row.filled + reports[n].l
    BY <1>0, <1>1, AtWork DEF Replies
<1>3. ledger.qty = newFilledQty(w)
    BY <1>0, <1>1, <1>2 DEF LedgerInv, Ahead
<1>4. row.filled < newFilledQty(w) /\ (newStatus(w) = "FILLED" <=> newFilledQty(w) = total)
    BY <1>1, NextInLine
<1> QED
    BY <1>1, <1>3, <1>4 DEF Promise!Book

\* Settle, in order: a repeated key changes nothing, a new one settles the next fill.
LEMMA SettleSettles ==
    ASSUME TypeOK, BrokerInv, TurnInv, OrderInv, LedgerInv, ReleaseInv, (TypeOK /\ BrokerInv)',
           channel = "webhook", NEW w \in Workers, Settle(w)
    PROVE  Promise!SettleNext \/ UNCHANGED Promise!settlementVars
<1>1. /\ UNCHANGED <<total, route, broker, row>> /\ pc[w] \in Inside
    BY SettleFrame
<1>2. CASE ledger' = ledger
    BY <1>1, <1>2 DEF Promise!settlementVars
<1>3. CASE ledger' # ledger
    <2>0. PICK n : n = job[w].report
        OBVIOUS
    <2>1. /\ Even
          /\ ledger' = [keys     |-> ledger.keys \cup {newFilledQty(w)},
                        qty      |-> ledger.qty + job[w].qty,
                        value    |-> ledger.value + Amount(w),
                        released |-> ledger.released \/ (route = "capture" /\ newStatus(w) = "FILLED")]
        BY <1>3, SettleInOrder
    <2>2. /\ row.filled < newFilledQty(w) /\ newFilledQty(w) <= broker.qty /\ newFilledQty(w) <= total
          /\ newStatus(w) = "FILLED" <=> newFilledQty(w) = total
        BY <1>1, NextInLine
    <2>3. job[w].qty = reports[n].l /\ newFilledQty(w) = row.filled + reports[n].l
        BY <1>1, <2>0, AtWork DEF Replies
    <2>4. ledger.qty = row.filled /\ ledger'.qty = newFilledQty(w)
        BY <2>1, <2>3 DEF Even
    <2>5. row.filled \in Nat /\ newFilledQty(w) \in Nat /\ broker.qty \in Nat /\ total \in Nat
        BY NewRowType DEF TypeOK, Row
    <2>6. ~ledger.released
        <3> SUFFICES ASSUME ledger.released PROVE FALSE
            OBVIOUS
        <3>1. ledger.qty = total
            BY DEF ReleaseInv
        <3> QED
            BY <2>2, <2>4, <2>5, <3>1
    <2>7. ledger'.released = (route = "capture" /\ ledger'.qty = total)
        <3>1. ledger'.released = (ledger.released \/ (route = "capture" /\ newStatus(w) = "FILLED"))
            BY <2>1
        <3> QED
            BY <2>2, <2>4, <2>6, <3>1, Zenon
    <2>8. ledger'.qty \in (ledger.qty + 1) .. broker.qty
        BY <2>2, <2>4, <2>5
    <2>9. Promise!SettleNext
        BY <1>1, <2>4, <2>7, <2>8 DEF Promise!SettleNext
    <2> QED
        BY <2>9
<1> QED
    BY <1>2, <1>3

\* Every step of the fill processor is a step of Settlement or leaves its state alone.
LEMMA StepSettles ==
    ASSUME ~Unordered, TypeOK, BrokerInv, TurnInv, OrderInv, LedgerInv, ReleaseInv, (TypeOK /\ BrokerInv)', [Next]_vars,
           channel = "webhook", route # "none"
    PROVE  Promise!SettlementNext \/ UNCHANGED Promise!settlementVars
<1> DEFINE Goal == Promise!SettlementNext \/ UNCHANGED Promise!settlementVars
<1>1. ASSUME UNCHANGED <<total, route, ledger>>, broker'.qty = broker.qty, row'.filled = row.filled,
             (row'.status = "FILLED") = (row.status = "FILLED")
      PROVE  Goal
    BY <1>1 DEF Promise!settlementVars
<1>2. ASSUME NEW qty \in 1 .. Target, NEW price \in Prices, BrokerFills(qty, price) PROVE Goal
    <2>1. /\ UNCHANGED <<total, route, row, ledger>> /\ broker'.qty = broker.qty + qty /\ broker.qty + qty <= total
        BY <1>2 DEF BrokerFills, Emit, TypeOK
    <2>2. broker'.qty \in (broker.qty + 1) .. total
        BY <2>1, TargetAssumption DEF TypeOK
    <2>3. Promise!Execute
        BY <2>1, <2>2 DEF Promise!Execute
    <2> QED
        BY <2>3 DEF Promise!SettlementNext
<1>3. ASSUME NEW new \in Nat, OtherReported(new) PROVE Goal
    BY <1>1, <1>3 DEF OtherReported
<1>4. ASSUME Quiet, UNCHANGED row PROVE Goal
    BY <1>1, <1>4 DEF Quiet
<1>5. ASSUME Quiet, ConfirmOrder \/ ConfirmAndProcess PROVE Goal
    <2>1. row.status = "PENDING" /\ row'.status = "SUBMITTED" /\ row'.filled = row.filled
        BY <1>5 DEF ConfirmOrder, ConfirmAndProcess, Replies, TypeOK, Row
    <2> QED
        BY <1>1, <1>5, <2>1 DEF Quiet
<1>6. ASSUME NEW w \in Workers, Settle(w) PROVE Goal
    BY <1>6, SettleSettles DEF Promise!SettlementNext
<1>7. ASSUME NEW w \in Workers, UpdateOrderFill(w) PROVE Goal
    BY <1>7, UpdateBooks DEF Promise!SettlementNext
<1>8. ASSUME NEW w \in Workers, Respond(w) PROVE Goal
    BY <1>1, <1>8, RespondFrame
<1> QED
    BY <1>2, <1>3, <1>4, <1>5, <1>6, <1>7, <1>8, NextKinds

\* fill_processor.go, ProcessFill: for any order, any fills in order and any failures, the fill
\* processor implements Settlement: executed quantity is settled and booked once, one fill at a time.
THEOREM SettlementRefinement == ASSUME ~Unordered PROVE Spec => ImplementsSettlement
<1>1. Init => Promise!SettlementInit
    <2> SUFFICES ASSUME Init PROVE Promise!SettlementInit
        OBVIOUS
    <2>1. TypeOK
        BY InitTypeOK
    <2> QED
        BY <2>1 DEF Init, TypeOK, UnrecordedRow, Promise!SettlementInit
<1>2. TypeOK /\ BrokerInv /\ TurnInv /\ OrderInv /\ LedgerInv /\ ReleaseInv /\ (TypeOK /\ BrokerInv)' /\ [Next]_vars
        => [channel = "webhook" /\ route # "none" => Promise!SettlementNext]_(Promise!settlementVars)
    BY StepSettles
<1> QED
    BY <1>1, <1>2, TypeCorrect, BrokerInvariant, TurnInvariant, OrderInvariant, LedgerInvariant, ReleaseInvariant, PTL
    DEF Spec, ImplementsSettlement
=============================================================================

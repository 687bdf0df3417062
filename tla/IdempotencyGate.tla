-------------------------- MODULE IdempotencyGate ---------------------------
(***************************************************************************)
(* What the reservation in broker_orders promises to the callers of        *)
(* ExecuteTrade, without the table, the loop and the faults.  A call may   *)
(* take the gate when no conflicting call has it; it gives the gate back,  *)
(* or records an order and then keeps it for good.  A caller is told the   *)
(* call's own order, and then the gate is never given back, or the order   *)
(* that a conflicting call recorded.                                       *)
(***************************************************************************)
CONSTANTS Ids,            \* the calls, and the orders they place
          Calls,          \* what a call may ask for
          Conflict(_, _), \* two requests that must not both be executed
          NoOrder         \* the caller was told of no order

VARIABLES call, gate, told

gateVars == <<call, gate, told>>

GateInit ==
    /\ call \in [Ids -> Calls]
    /\ gate = [r \in Ids |-> "new"]
    /\ told = [r \in Ids |-> NoOrder]

Has(r) == gate[r] \in {"held", "recorded"}

Take(r) ==
    /\ gate[r] = "new"
    /\ \A s \in Ids : Has(s) => ~Conflict(call[s], call[r])
    /\ gate' = [gate EXCEPT ![r] = "held"]
    /\ UNCHANGED <<call, told>>

Record(r) ==
    /\ gate[r] = "held"
    /\ gate' = [gate EXCEPT ![r] = "recorded"]
    /\ UNCHANGED <<call, told>>

GiveBack(r) ==
    /\ gate[r] = "held"
    /\ told[r] = NoOrder
    /\ gate' = [gate EXCEPT ![r] = "over"]
    /\ UNCHANGED <<call, told>>

\* The call ends without ever having the gate.
Leave(r) ==
    /\ gate[r] = "new"
    /\ gate' = [gate EXCEPT ![r] = "over"]
    /\ \/ UNCHANGED told
       \/ \E s \in Ids : /\ gate[s] = "recorded"
                         /\ Conflict(call[s], call[r])
                         /\ told' = [told EXCEPT ![r] = s]
    /\ UNCHANGED call

\* A caller hears of its own order, recorded or (when the write failed) still held.
Tell(r) ==
    /\ Has(r)
    /\ told[r] = NoOrder
    /\ told' = [told EXCEPT ![r] = r]
    /\ UNCHANGED <<call, gate>>

GateNext == \E r \in Ids : Take(r) \/ Record(r) \/ GiveBack(r) \/ Leave(r) \/ Tell(r)

GateSpec == GateInit /\ [][GateNext]_gateVars
=============================================================================

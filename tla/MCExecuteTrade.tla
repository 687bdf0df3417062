--------------------------- MODULE MCExecuteTrade ---------------------------
(* Small instances of ExecuteTrade for TLC. *)
EXTENDS ExecuteTrade

CONSTANTS i1, i2, k1, t1

Ask(i, t, k) == [trade_intent_id |-> i, tenant_id |-> t, idempotency_key |-> k]

\* Two intents that a caller sends under one key: every pair conflicts, some pairs by key alone.
KeyCalls == {Ask(i1, t1, k1), Ask(i2, t1, k1)}

\* The same, and one of them again without its key.
MixedCalls == KeyCalls \cup {Ask(i1, t1, NoKey)}

\* Retries and duplicates of one request.
SameCalls == {Ask(i1, t1, k1)}
=============================================================================

---------------------------- MODULE MCReconcile -----------------------------
(* Small instances of Reconcile for TLC. *)
EXTENDS Reconcile, TLC

Held(usdt, usdc) == [a \in Assets |-> CASE a = "USDT" -> usdt [] a = "USDC" -> usdc [] OTHER -> 0]

\* No cash, and cash in the first and in the last asset.
SomeHoldings == {Held(0, 0), Held(3, 1)}

\* An empty account and one that is even with the broker's first asset.
SomeCash == {0, 3}

Symmetry == Permutations(Calls)
=============================================================================

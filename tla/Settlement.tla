----------------------------- MODULE Settlement ------------------------------
(***************************************************************************)
(* What the fill processor promises of an order whose fills are reported   *)
(* in order, without workers, attempts, keys and answers.  Executed        *)
(* quantity is settled, then booked, each part of it once; nothing is      *)
(* settled while the settlement before is not booked; the settlement that  *)
(* completes the order, and no other, releases the rest of its hold, and   *)
(* the booking that completes it, and no other, makes it filled.           *)
(***************************************************************************)
EXTENDS Naturals

VARIABLES total,     \* the quantity sent to the broker
          hold,      \* the order has a hold to capture from
          executed,  \* the quantity the broker executed
          settled,   \* the quantity settled downstream
          booked,    \* the quantity the order's row shows
          released,  \* the rest of the hold is free
          filled     \* the row says FILLED

settlementVars == <<total, hold, executed, settled, booked, released, filled>>

SettlementInit ==
    /\ total \in Nat \ {0}
    /\ hold \in BOOLEAN
    /\ executed = 0 /\ settled = 0 /\ booked = 0
    /\ released = FALSE /\ filled = FALSE

Execute ==
    /\ executed' \in (executed + 1) .. total
    /\ UNCHANGED <<total, hold, settled, booked, released, filled>>

SettleNext ==
    /\ settled = booked
    /\ settled' \in (settled + 1) .. executed
    /\ released' = (hold /\ settled' = total)
    /\ UNCHANGED <<total, hold, executed, booked, filled>>

Book ==
    /\ booked < settled
    /\ booked' = settled
    /\ filled' = (booked' = total)
    /\ UNCHANGED <<total, hold, executed, settled, released>>

SettlementNext == Execute \/ SettleNext \/ Book

SettlementSpec == SettlementInit /\ [][SettlementNext]_settlementVars
=============================================================================

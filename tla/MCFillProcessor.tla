-------------------------- MODULE MCFillProcessor ---------------------------
(* Small instances of FillProcessor for TLC. *)
EXTENDS FillProcessor

\* A report whose quantities cannot be parsed; a cancellation is one that is ignored.
OtherReports ==
    {[x |-> "TRADE", X |-> "PARTIALLY_FILLED", l |-> Unparsable, z |-> Unparsable, L |-> 1, Z |-> 1]}
=============================================================================

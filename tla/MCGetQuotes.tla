---------------------------- MODULE MCGetQuotes -----------------------------
(* GetQuotes with model values for calls and symbols. *)
EXTENDS GetQuotes, TLC

Symmetry == Permutations(Calls) \cup Permutations(Symbols)
=============================================================================

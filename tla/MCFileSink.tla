----------------------------- MODULE MCFileSink -----------------------------
(***************************************************************************)
(* Instances of FileSink for TLC.                                          *)
(***************************************************************************)
EXTENDS FileSink, TLC

CONSTANTS a, b, all, s, t, u

Both          == BOOLEAN
MinusOne      == -1
Swaps         == Permutations(Channels) \cup Permutations(Stamps)
=============================================================================

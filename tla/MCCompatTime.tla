---------------------------- MODULE MCCompatTime ----------------------------
(***************************************************************************)
(* Instances of CompatTime for TLC.                                        *)
(***************************************************************************)
EXTENDS CompatTime

(* Until the first year the rule of four gets wrong.                         *)
ThisCentury == 1970 .. 2099
=============================================================================

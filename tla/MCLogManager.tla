---------------------------- MODULE MCLogManager ----------------------------
(***************************************************************************)
(* Instances of LogManager for TLC.                                        *)
(***************************************************************************)
EXTENDS LogManager

CONSTANTS t1, t2, w
=============================================================================

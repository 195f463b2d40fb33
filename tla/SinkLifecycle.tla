--------------------------- MODULE SinkLifecycle ---------------------------
(***************************************************************************)
(* The life of a sink with a thread of its own, as its owner may lead it:  *)
(* a thread is joined before another one is started and before the sink is *)
(* destroyed, only a registered sink is started again, and none is         *)
(* destroyed while it is registered, or registered again after that.       *)
(* LogManager implements this module for the CloudWatch sink.              *)
(***************************************************************************)
CONSTANT Forks   \* whether the process may fork

VARIABLES phase,       \* "running", "stopping", "stopped", "orphaned" or "destroyed"
          registered   \* the manager hands logs to it

vars == <<phase, registered>>

Init == phase = "running" /\ registered = FALSE

Register ==
    /\ phase # "destroyed"
    /\ registered' = TRUE /\ UNCHANGED phase

Unregister == registered' = FALSE /\ UNCHANGED phase

(* A stop asks the thread to end, and waits for that.                        *)
Stop   == phase = "running" /\ phase' = "stopping" /\ UNCHANGED registered
Joined == phase = "stopping" /\ phase' = "stopped" /\ UNCHANGED registered

Start ==
    /\ phase = "stopped" /\ registered
    /\ phase' = "running" /\ UNCHANGED registered

Destroy ==
    /\ phase = "stopped" /\ ~registered
    /\ phase' = "destroyed" /\ UNCHANGED registered

(* A child has the sink without its thread, and cannot join it.              *)
Fork ==
    /\ Forks
    /\ phase' = CASE phase = "running" -> "orphaned" [] phase = "stopping" -> "stopped" [] OTHER -> phase
    /\ UNCHANGED registered

Abandon == phase = "orphaned" /\ phase' = "stopped" /\ UNCHANGED registered

Next == Register \/ Unregister \/ Stop \/ Joined \/ Start \/ Destroy \/ Fork \/ Abandon

Spec == Init /\ [][Next]_vars
=============================================================================

---------------------------- MODULE EventDelivery ----------------------------
(***************************************************************************)
(* What a sink with a sending thread promises for the logs it accepts: a   *)
(* log is delivered, or its request fails and that is reported; it is      *)
(* dropped only when the sink was told to discard or when no thread of     *)
(* this process serves it; and an orderly stop leaves no log behind.       *)
(* CloudWatchSink implements this module.                                  *)
(***************************************************************************)
EXTENDS Naturals

CONSTANT Logs

VARIABLES status,       \* what became of every log
          discarding,   \* stop(discard = true) was called last
          served        \* this process has a thread that sends the logs

vars == <<status, discarding, served>>

Status == {"new", "held", "delivered", "failed", "dropped"}
Held == {l \in Logs : status[l] = "held"}

Move(S, to) == status' = [l \in Logs |-> IF l \in S THEN to ELSE status[l]]

Init == /\ status = [l \in Logs |-> "new"]
        /\ discarding = FALSE
        /\ served = TRUE

Accept == /\ \E l \in Logs : status[l] = "new" /\ Move({l}, "held")
          /\ UNCHANGED <<discarding, served>>

(* A log whose request failed may be sent again with a later one.            *)
Deliver == /\ served
           /\ \E S \in SUBSET {l \in Logs : status[l] \in {"held", "failed"}} : Move(S, "delivered")
           /\ UNCHANGED <<discarding, served>>

Reject == /\ served
          /\ \E S \in SUBSET Held : Move(S, "failed")
          /\ UNCHANGED <<discarding, served>>

Drop == /\ discarding \/ ~served
        /\ \E S \in SUBSET Held : Move(S, "dropped")
        /\ UNCHANGED <<discarding, served>>

SetDiscarding == /\ discarding' \in BOOLEAN
                 /\ UNCHANGED <<status, served>>

(* Serving ends, or starts afresh, only with nothing held.                   *)
Stop == Held = {} /\ served' = FALSE /\ UNCHANGED <<status, discarding>>
Start == Held = {} /\ served' = TRUE /\ UNCHANGED <<status, discarding>>

(* The child of a fork loses what the parent's thread had in its hands.      *)
Fork == /\ served' = FALSE
        /\ \E S \in SUBSET Held : Move(S, "dropped")
        /\ UNCHANGED discarding

Next == \/ Accept \/ Deliver \/ Reject \/ Drop
        \/ SetDiscarding \/ Stop \/ Start \/ Fork

Spec == Init /\ [][Next]_vars
=============================================================================

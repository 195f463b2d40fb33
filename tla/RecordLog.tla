----------------------------- MODULE RecordLog -----------------------------
(***************************************************************************)
(* What a sink that keeps its records promises: for every key, a log that  *)
(* only grows at its end, over any number of lives of the sink.  A record  *)
(* is written to the log of one key or lost, and once a key has lost one   *)
(* it is silent for the rest of that life, so that no life leaves a hole   *)
(* in the middle of what it wrote.  FileSink implements this module.       *)
(*                                                                         *)
(* The log of a key is given by the records in it and by the order they    *)
(* are read in: order holds <<r, s>> when r is read before s.  A record    *)
(* that is in the log twice is read before itself.                         *)
(***************************************************************************)
EXTENDS Naturals

CONSTANT Keys

VARIABLES records,  \* the records of every key, pairs <<life, number>>
          order,    \* the order in which the records of every key are read
          life,     \* the lives of the sink so far
          number,   \* the records so far
          silent    \* the keys that write nothing for the rest of this life

vars == <<records, order, life, number, silent>>

Init ==
    /\ records = [k \in Keys |-> {}] /\ order = [k \in Keys |-> {}]
    /\ life = 0 /\ number = 0 /\ silent = {}

(* A record is written, after all the others of its key; it may be the last. *)
Write(k) ==
    /\ k \notin silent
    /\ number' = number + 1
    /\ records' = [records EXCEPT ![k] = @ \cup {<<life, number + 1>>}]
    /\ order' = [order EXCEPT ![k] = @ \cup (records[k] \X {<<life, number + 1>>})]
    /\ silent' \in {silent, silent \cup {k}}
    /\ UNCHANGED life

Lose(k) ==
    /\ number' = number + 1
    /\ silent' = silent \cup {k}
    /\ UNCHANGED <<records, order, life>>

(* A new life may begin with keys that cannot be written.                    *)
Restart ==
    /\ life' = life + 1
    /\ silent' \in SUBSET Keys
    /\ UNCHANGED <<records, order, number>>

(* The end of a life.                                                        *)
End == silent' = {} /\ UNCHANGED <<records, order, life, number>>

Next == Restart \/ End \/ \E k \in Keys : Write(k) \/ Lose(k)

Spec == Init /\ [][Next]_vars
=============================================================================

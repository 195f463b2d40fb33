-------------------------- MODULE MCCloudWatchSink --------------------------
(***************************************************************************)
(* Instances of CloudWatchSink for TLC.                                    *)
(***************************************************************************)
EXTENDS CloudWatchSink, TLC

CONSTANTS l1, l2, l3, s1, s2

(* Two logs share a stream, so that a round can both group and split.        *)
TwoStreams == l1 :> s1 @@ l2 :> s1 @@ l3 :> s2

(* A log of a channel with an empty name is never sent.                      *)
NamelessLog == l1 :> s1 @@ l2 :> s1 @@ l3 :> NoStream
=============================================================================

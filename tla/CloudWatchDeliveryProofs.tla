---------------------- MODULE CloudWatchDeliveryProofs ----------------------
(***************************************************************************)
(* What becomes of the logs CloudWatchSink accepts: the sink implements    *)
(* EventDelivery, and its loop sends no log twice.                         *)
(*                                                                         *)
(* The invariant of CloudWatchSinkProofs says which thread is where.  The  *)
(* one added here follows a log through the queue, the multiset of the     *)
(* worker and the requests:                                                *)
(*   Queued   a log is queued once, and not while the worker has it;       *)
(*   Round    what the worker's variables say about the round it is in;    *)
(*   Unsent   a log nobody has passed to PutLogEvents has no outcome;      *)
(*   Tracked  a log the worker may still send is not a dropped one;        *)
(*   LoopBatch  outside the flush only unsent logs remain to be sent;      *)
(*   Handover   what the caller's position says about queue and thread.    *)
(***************************************************************************)
EXTENDS CloudWatchSinkProofs

Requesting == Batching \ {"drain"}

Settled(l) == deliveries[l] > 0 \/ l \in failed

Distinct(q) == \A i, j \in 1 .. Len(q) : q[i] = q[j] => i = j

Queued ==
    /\ Distinct(queue)
    /\ InQueue \subseteq accepted /\ InQueue \cap batch = {}

Round ==
    /\ fresh \subseteq batch /\ batch \subseteq accepted
    /\ worker \notin Batching /\ caller # "corrupt" => batch = {} /\ pending = {}
    /\ worker = "drain" => pending = {}
    /\ worker \in Sending => cur \in pending
    /\ worker \in Requesting => \A l \in fresh : StreamName(l) \in pending

Unsent == \A l \in Logs : l \in Held \/ l \notin accepted => ~Settled(l)

(* A discarding flush keeps the logs it has dropped in its multiset, and a   *)
(* discarded round of the loop ends without a request.                       *)
Tracked ==
    /\ flushing /\ is_discarding => pending = {}
    /\ worker = "drain" \/ pending # {} \/ flushing
         => (flushing /\ is_discarding) \/ \A l \in batch : l \in fresh \/ Settled(l)

LoopBatch == ~flushing => \A l \in batch : worker = "drain" \/ StreamName(l) \in pending
                                               => l \in fresh

Handover ==
    /\ caller = "reset" /\ handle => queue = <<>>
    /\ caller = "release" => thread_pid # pid
    /\ caller = "restart" => ~handle /\ queue = <<>>

Custody == Queued /\ Round /\ Unsent /\ Tracked /\ LoopBatch /\ Handover

-----------------------------------------------------------------------------
(* Sequences without repetitions.                                            *)

LEMMA AppendDistinct ==
    ASSUME NEW S, NEW q \in Seq(S), NEW x \in S, Distinct(q), x \notin ElementsOf(q)
    PROVE  Distinct(Append(q, x))
<1> DEFINE r == Append(q, x)
<1>1. /\ Len(r) = Len(q) + 1 /\ Len(q) \in Nat
      /\ \A i \in 1 .. Len(q) : r[i] = q[i]
      /\ r[Len(q) + 1] = x
  OBVIOUS
<1> HIDE DEF r
<1>2. ASSUME NEW i \in 1 .. Len(r), NEW j \in 1 .. Len(r), r[i] = r[j] PROVE i = j
  <2>1. /\ i \in 1 .. Len(q) \/ i = Len(q) + 1
        /\ j \in 1 .. Len(q) \/ j = Len(q) + 1
    BY <1>1
  <2>2. \A k \in 1 .. Len(q) : r[k] \in ElementsOf(q)
    BY <1>1 DEF ElementsOf
  <2> QED
    BY <1>1, <1>2, <2>1, <2>2 DEF Distinct
<1> QED
  BY <1>2 DEF Distinct, r

LEMMA TailDistinct ==
    ASSUME NEW S, NEW q \in Seq(S), q # <<>>, Distinct(q)
    PROVE  /\ Distinct(Tail(q)) /\ Head(q) \notin ElementsOf(Tail(q))
           /\ ElementsOf(q) = {Head(q)} \cup ElementsOf(Tail(q))
<1> DEFINE r == Tail(q)
<1>1. /\ Len(q) \in Nat \ {0} /\ Len(r) = Len(q) - 1
      /\ \A i \in 1 .. Len(r) : r[i] = q[i + 1]
      /\ Head(q) = q[1]
  OBVIOUS
<1> HIDE DEF r
<1>2. Distinct(r)
  BY <1>1 DEF Distinct
<1>3. Head(q) \notin ElementsOf(r)
  BY <1>1 DEF Distinct, ElementsOf
<1>4. ElementsOf(q) \subseteq {Head(q)} \cup ElementsOf(r)
  <2> SUFFICES ASSUME NEW i \in 1 .. Len(q) PROVE q[i] \in {Head(q)} \cup ElementsOf(r)
    BY DEF ElementsOf
  <2>1. i = 1 \/ (i - 1 \in 1 .. Len(r) /\ r[i - 1] = q[i])
    BY <1>1
  <2> QED
    BY <1>1, <2>1 DEF ElementsOf
<1>5. {Head(q)} \cup ElementsOf(r) \subseteq ElementsOf(q)
  BY <1>1 DEF ElementsOf
<1> QED
  BY <1>2, <1>3, <1>4, <1>5 DEF r

LEMMA EmptyElements == InQueue = ElementsOf(queue) /\ ElementsOf(<<>>) = {} /\ Distinct(<<>>)
  BY DEF InQueue, ElementsOf, Distinct

-----------------------------------------------------------------------------
(* The queue.                                                                *)

LEMMA PopQueue ==
    IInv /\ Queued /\ Pop => /\ InQueue = InQueue' \cup {Head(queue)}
                             /\ Head(queue) \notin InQueue'
                             /\ Head(queue) \in InQueue /\ Head(queue) \in Logs
                             /\ Distinct(queue')
<1> SUFFICES ASSUME IInv, Queued, Pop PROVE /\ InQueue = InQueue' \cup {Head(queue)}
                                            /\ Head(queue) \notin InQueue'
                                            /\ Head(queue) \in InQueue /\ Head(queue) \in Logs
                                            /\ Distinct(queue')
  OBVIOUS
<1>1. queue \in Seq(Sendable) /\ queue # <<>> /\ Distinct(queue) /\ queue' = Tail(queue)
  BY DEF IInv, Types, QueueType, Pop, Queued
<1>2. InQueue = ElementsOf(queue) /\ InQueue' = ElementsOf(queue')
  BY DEF InQueue, ElementsOf
<1>3. Head(queue) \in Logs
  BY <1>1, TailElements DEF Sendable
<1> QED
  BY <1>1, <1>2, <1>3, TailDistinct

LEMMA PushQueue ==
    IInv /\ Queued /\ PushBack => /\ InQueue' = InQueue \cup {arg} /\ Distinct(queue')
                                  /\ arg \notin accepted /\ arg \in Logs
<1> SUFFICES ASSUME IInv, Queued, PushBack
             PROVE /\ InQueue' = InQueue \cup {arg} /\ Distinct(queue')
                   /\ arg \notin accepted /\ arg \in Logs
  OBVIOUS
<1>1. /\ queue \in Seq(Sendable) /\ arg \in Sendable /\ Distinct(queue)
      /\ queue' = Append(queue, arg) /\ arg \notin accepted
  BY DEF IInv, Types, QueueType, CallTypes, Content, PushedOnce, PushBack, Queued
<1>2. InQueue = ElementsOf(queue) /\ InQueue' = ElementsOf(queue')
  BY DEF InQueue, ElementsOf
<1>3. arg \notin ElementsOf(queue)
  BY <1>1, <1>2 DEF Queued
<1> QED
  BY <1>1, <1>2, <1>3, AppendElements, AppendDistinct DEF Sendable

LEMMA ClearedQueueIsEmpty == queue' = <<>> => InQueue' = {} /\ Distinct(queue')
  BY DEF InQueue, Distinct

LEMMA QueuedKept == IInv /\ Custody /\ [Next]_vars => Queued'
<1> SUFFICES ASSUME IInv, Custody, [Next]_vars PROVE Queued'
  OBVIOUS
<1> USE DEF Custody
<1>1. CASE PushBack
  <2>1. batch' = batch /\ accepted' = accepted \cup {arg}
    BY <1>1 DEF PushBack, thread, round
  <2> QED
    BY <1>1, <2>1, PushQueue DEF Queued, Round
<1>2. CASE Pop
  <2>1. batch' = batch \cup {Head(queue)} /\ accepted' = accepted
    BY <1>2 DEF Pop, process
  <2> QED
    BY <1>2, <2>1, PopQueue DEF Queued
<1>3. CASE queue' = <<>>
  BY <1>3, ClearedQueueIsEmpty DEF Queued
<1>4. CASE batch' \subseteq batch /\ UNCHANGED <<queue, accepted>>
  BY <1>4 DEF Queued, Distinct, InQueue
<1> QED
  BY <1>1, <1>2, <1>3, <1>4 DEF dump, stop, restart_sink, Destroy, StopImpl, Join, Reset,
     LetGo, ForkedRelease, Restart, StartThread, ClearedQueue, assert_and_create_log_group,
     list_existing_log_streams, TakeBatch, LeaveLoop, Flush, send_logs, EndRound,
     send_log_events, DescribeLogStreams, CreateLogStream, StreamCreated,
     StreamAlreadyExists, CreateFailed, PutLogEvents, LockTokens, StoreToken,
     PeerCreatesStream, Fork, RacyQueueAccess, Finished, BatchAfterRound, Next, Caller,
     Call, Thread, Environment, vars, sink, mutexes, call, thread, service, process, round

-----------------------------------------------------------------------------
(* The round.                                                                *)

LEMMA RoundKept == IInv /\ Custody /\ [Next]_vars => Round'
<1> SUFFICES ASSUME IInv, Custody, [Next]_vars PROVE Round'
  OBVIOUS
<1> USE DEF Custody
<1>1. lambda' = lambda
  BY LambdaFixed
<1>2. CASE PushBack
  BY <1>1, <1>2 DEF PushBack, Round, StreamName, thread, round, process
<1>3. CASE Pop
  <2>1. Head(queue) \in accepted
    BY <1>3, PopQueue DEF Queued
  <2> QED
    BY <1>1, <1>3, <2>1 DEF Pop, Round, Sending, Batching, Requesting, StreamName, call, process
<1>4. CASE send_logs
  <2>1. CASE is_discarding
    BY <1>1, <1>4, <2>1 DEF send_logs, Discards, Round, Sending, Batching, Requesting, call,
       process
  <2>2. CASE ~is_discarding
    <3>1. pending' = {StreamName(l) : l \in batch}
      BY <1>4, <2>2 DEF send_logs, Discards
    <3> QED
      BY <1>1, <1>4, <2>2, <3>1 DEF send_logs, Discards, Round, Sending, Batching, Requesting,
         StreamName, call, process
  <2> QED
    BY <2>1, <2>2 DEF IInv, Types, SinkTypes
<1>5. CASE EndRound
  <2>1. fresh = {}
    BY <1>5 DEF EndRound, Round, Requesting, Batching
  <2> QED
    BY <1>1, <1>5, <2>1 DEF EndRound, BatchAfterRound, Round, Sending, Batching, Requesting,
       call, process
<1>6. CASE send_log_events
  BY <1>1, <1>6 DEF send_log_events, Round, Sending, Batching, Requesting, StreamName, call,
     process
<1>7. CASE PutLogEvents
  BY <1>1, <1>7 DEF PutLogEvents, Round, Sending, Batching, Requesting, ToStream, StreamName,
     call, process
<1>8. CASE RacyQueueAccess
  BY <1>1, <1>8 DEF RacyQueueAccess, Round, Sending, Batching, Requesting, round, process
<1>9. CASE Fork
  BY <1>1, <1>9 DEF Fork, Round, Sending, Batching, Requesting
<1>10. CASE Restart
  BY <1>1, <1>10 DEF Restart, StartThread, Round, Sending, Batching, Requesting, StreamName,
     process
<1>11. CASE Join
  BY <1>1, <1>11 DEF Join, Round, Sending, Batching, Requesting, round, process
<1>12. CASE Flush
  BY <1>1, <1>12 DEF Flush, Round, Sending, Batching, Requesting, StreamName, IInv, Control,
     Over, round, call, process
<1>13. CASE TakeBatch
  BY <1>1, <1>13 DEF TakeBatch, Round, Sending, Batching, Requesting, StreamName, IInv,
     Control, Over, round, call, process
<1>14. CASE LeaveLoop \/ assert_and_create_log_group \/ list_existing_log_streams
  BY <1>1, <1>14 DEF LeaveLoop, assert_and_create_log_group, list_existing_log_streams, Round,
     Sending, Batching, Requesting, StreamName, round, call, process
<1>15. CASE DescribeLogStreams \/ CreateLogStream
  BY <1>1, <1>15 DEF DescribeLogStreams, CreateLogStream, Round, Sending, Batching,
     Requesting, StreamName, call, process
<1>16. CASE LockTokens \/ StoreToken
  BY <1>1, <1>16 DEF LockTokens, StoreToken, Round, Sending, Batching, Requesting, StreamName,
     round, call, process
<1>17. CASE caller # "corrupt" /\ UNCHANGED <<thread, accepted>>
  BY <1>1, <1>17 DEF Round, StreamName, thread, round
<1>18. CASE UNCHANGED <<caller, thread, accepted>>
  BY <1>1, <1>18 DEF Round, StreamName, thread, round
<1> QED
  BY <1>2, <1>3, <1>4, <1>5, <1>6, <1>7, <1>8, <1>9, <1>10, <1>11, <1>12, <1>13, <1>14,
     <1>15, <1>16, <1>17, <1>18 DEF dump, stop, restart_sink, Destroy, StopImpl, Reset,
     LetGo, ForkedRelease, PeerCreatesStream, Finished, Next, Caller, Call, Thread,
     Environment, vars, call, process

-----------------------------------------------------------------------------
(* The outcome of a log.                                                     *)

(* What PutLogEvents does to a log.                                          *)
LEMMA PutOutcome ==
    IInv /\ PutLogEvents =>
      \A l \in Logs :
        /\ l \in ToStream(cur) => Settled(l)' /\ l \in batch
        /\ l \notin ToStream(cur) => deliveries'[l] = deliveries[l] /\ (l \in failed' <=> l \in failed)
        /\ Settled(l) => Settled(l)'
        /\ deliveries[l] > 0 => deliveries'[l] > 0
        /\ deliveries[l] \in Nat /\ deliveries'[l] \in Nat
<1> SUFFICES ASSUME IInv, PutLogEvents, NEW l \in Logs
             PROVE /\ l \in ToStream(cur) => Settled(l)' /\ l \in batch
                   /\ l \notin ToStream(cur) => deliveries'[l] = deliveries[l] /\ (l \in failed' <=> l \in failed)
                   /\ Settled(l) => Settled(l)'
                   /\ deliveries[l] > 0 => deliveries'[l] > 0
                   /\ deliveries[l] \in Nat /\ deliveries'[l] \in Nat
  OBVIOUS
<1>1. deliveries \in [Logs -> Nat]
  BY DEF IInv, Types, ServiceTypes
<1>2. CASE cur \in streams /\ UNCHANGED failed
           /\ deliveries' = [k \in Logs |-> deliveries[k] + (IF k \in ToStream(cur) THEN 1 ELSE 0)]
  BY <1>1, <1>2 DEF Settled, ToStream
<1>3. CASE failed' = failed \cup ToStream(cur) /\ UNCHANGED deliveries
  BY <1>1, <1>3 DEF Settled, ToStream
<1> QED
  BY <1>2, <1>3 DEF PutLogEvents

LEMMA UnsentKept == IInv /\ Custody /\ [Next]_vars => Unsent'
<1> SUFFICES ASSUME IInv, Custody, [Next]_vars PROVE Unsent'
  OBVIOUS
<1> USE DEF Custody
<1>1. CASE PushBack
  <2>1. /\ InQueue' = InQueue \cup {arg} /\ arg \notin accepted
        /\ UNCHANGED <<fresh, deliveries, failed>> /\ accepted' = accepted \cup {arg}
    BY <1>1, PushQueue DEF PushBack, thread, round, service
  <2> QED
    BY <2>1 DEF Unsent, Held, Settled
<1>2. CASE Pop
  <2>1. Held' = Held
    BY <1>2, PopQueue DEF Held, Pop
  <2> QED
    BY <1>2, <2>1 DEF Pop, Unsent, Settled, service, process
<1>3. CASE PutLogEvents
  <2> SUFFICES ASSUME NEW l \in Logs, (l \in Held \/ l \notin accepted)' PROVE ~Settled(l)'
    BY DEF Unsent
  <2>1. InQueue' = InQueue /\ accepted' = accepted /\ fresh' = fresh \ ToStream(cur)
    BY <1>3 DEF PutLogEvents, InQueue, sink, process
  <2>2. ~Settled(l) /\ l \notin ToStream(cur)
    BY <2>1 DEF Unsent, Held, Queued, Round, ToStream
  <2> QED
    BY <1>3, <2>2, PutOutcome DEF Settled
<1>4. CASE queue' = <<>> /\ fresh' \subseteq fresh /\ UNCHANGED <<deliveries, failed, accepted>>
  BY <1>4, ClearedQueueIsEmpty DEF Unsent, Held, Settled
<1>5. CASE fresh' \subseteq fresh /\ UNCHANGED <<queue, deliveries, failed, accepted>>
  BY <1>5 DEF Unsent, Held, Settled, InQueue
<1> QED
  BY <1>1, <1>2, <1>3, <1>4, <1>5 DEF dump, stop, restart_sink, Destroy, StopImpl, Join, Reset,
     LetGo, ForkedRelease, Restart, StartThread, ClearedQueue, assert_and_create_log_group,
     list_existing_log_streams, TakeBatch, LeaveLoop, Flush, send_logs, EndRound,
     send_log_events, DescribeLogStreams, CreateLogStream, StreamCreated,
     StreamAlreadyExists, CreateFailed, LockTokens, StoreToken,
     PeerCreatesStream, Fork, RacyQueueAccess, Finished, BatchAfterRound, Next, Caller,
     Call, Thread, Environment, vars, sink, mutexes, call, thread, service, process, round

LEMMA TrackedKept == IInv /\ Custody /\ [Next]_vars => Tracked'
<1> SUFFICES ASSUME IInv, Custody, [Next]_vars PROVE Tracked'
  OBVIOUS
<1> USE DEF Custody
<1>1. CASE Pop
  BY <1>1 DEF Pop, Tracked, Settled, Round, sink, service
<1>2. CASE PutLogEvents
  <2>1. pending # {} /\ pending' \subseteq pending
    BY <1>2 DEF PutLogEvents, Round, Sending
  <2>2. UNCHANGED <<batch, flushing, is_discarding>> /\ fresh' = fresh \ ToStream(cur)
    BY <1>2 DEF PutLogEvents, sink
  <2>3. flushing /\ is_discarding => pending' = {}
    BY <2>1 DEF Tracked
  <2>4. ASSUME NEW l \in batch, ~(flushing /\ is_discarding) PROVE l \in fresh' \/ Settled(l)'
    <3>1. l \in Logs /\ (l \in fresh \/ Settled(l))
      BY <2>1, <2>4 DEF Tracked, IInv, Types, RoundTypes, Sendable
    <3> QED
      BY <1>2, <2>2, <3>1, PutOutcome
  <2> QED
    BY <2>2, <2>3, <2>4 DEF Tracked
<1>3. CASE send_logs
  BY <1>3 DEF send_logs, Discards, Tracked, Settled, Round, sink, service
<1>4. CASE EndRound
  BY <1>4 DEF EndRound, BatchAfterRound, Tracked, Settled, sink, service
<1>5. CASE send_log_events
  BY <1>5 DEF send_log_events, Tracked, Settled, sink, service
<1>6. CASE TakeBatch \/ Flush
  <2>1. batch = {} /\ pending = {}
    BY <1>6 DEF TakeBatch, Flush, Round, IInv, Control, Over, Batching
  <2> QED
    BY <1>6, <2>1 DEF TakeBatch, Flush, Tracked, round
<1>7. CASE Restart
  BY <1>7 DEF Restart, StartThread, Tracked, Settled, service
<1>8. CASE \E discard \in BOOLEAN : stop(discard)
  <2>1. ~flushing
    BY <1>8 DEF stop, IInv, Control, Batching
  <2> QED
    BY <1>8, <2>1 DEF stop, Tracked, Settled, thread, round, service
<1>9. CASE worker' # "drain" /\ UNCHANGED <<flushing, is_discarding, pending, batch, fresh, deliveries, failed>>
  BY <1>9 DEF Tracked, Settled
<1>10. CASE UNCHANGED <<worker, flushing, is_discarding, pending, batch, fresh, deliveries, failed>>
  BY <1>10 DEF Tracked, Settled
<1>11. CASE Fork
  BY <1>11 DEF Fork, Tracked
<1> QED
  BY <1>1, <1>2, <1>3, <1>4, <1>5, <1>6, <1>7, <1>8, <1>9, <1>10, <1>11 DEF dump,
     restart_sink, Destroy, PushBack, StopImpl, Join, Reset, LetGo, ForkedRelease,
     assert_and_create_log_group, list_existing_log_streams, LeaveLoop, DescribeLogStreams,
     CreateLogStream, StreamCreated, StreamAlreadyExists, CreateFailed, LockTokens,
     StoreToken, PeerCreatesStream, RacyQueueAccess, Finished, Next, Caller, Call, Thread,
     Environment, vars, sink, mutexes, call, thread, service, process, round

LEMMA LoopBatchKept == IInv /\ Custody /\ [Next]_vars => LoopBatch'
<1> SUFFICES ASSUME IInv, Custody, [Next]_vars PROVE LoopBatch'
  OBVIOUS
<1> USE DEF Custody
<1>1. \A l : StreamName(l)' = StreamName(l)
  BY LambdaFixed DEF StreamName
<1>2. CASE Pop
  BY <1>1, <1>2 DEF Pop, LoopBatch, Round
<1>3. CASE PutLogEvents
  BY <1>1, <1>3 DEF PutLogEvents, LoopBatch, ToStream
<1>4. CASE send_logs
  BY <1>1, <1>4 DEF send_logs, Discards, LoopBatch, Round
<1>5. CASE EndRound
  BY <1>1, <1>5 DEF EndRound, BatchAfterRound, LoopBatch
<1>6. CASE TakeBatch \/ Flush
  <2>1. batch = {} /\ pending = {}
    BY <1>6 DEF TakeBatch, Flush, Round, IInv, Control, Over, Batching
  <2> QED
    BY <1>6, <2>1 DEF TakeBatch, Flush, LoopBatch, round
<1>7. CASE batch' = {}
  BY <1>7 DEF LoopBatch
<1>8. CASE worker' # "drain" /\ UNCHANGED <<flushing, batch, fresh, pending>>
  BY <1>1, <1>8 DEF LoopBatch
<1>9. CASE UNCHANGED <<worker, flushing, batch, fresh, pending>>
  BY <1>1, <1>9 DEF LoopBatch
<1> QED
  BY <1>2, <1>3, <1>4, <1>5, <1>6, <1>7, <1>8, <1>9 DEF dump, stop, restart_sink, Destroy,
     PushBack, StopImpl, Join, Reset, LetGo, ForkedRelease, Restart, StartThread,
     assert_and_create_log_group, list_existing_log_streams, LeaveLoop, send_log_events,
     DescribeLogStreams, CreateLogStream, StreamCreated, StreamAlreadyExists, CreateFailed,
     LockTokens, StoreToken, PeerCreatesStream, Fork, RacyQueueAccess, Finished, Next, Caller,
     Call, Thread, Environment, vars, sink, mutexes, call, thread, service, process, round

LEMMA HandoverKept == IInv /\ Custody /\ [Next]_vars => Handover'
<1> SUFFICES ASSUME IInv, Custody, [Next]_vars PROVE Handover'
  OBVIOUS
<1> USE DEF Custody
<1>1. CASE StopImpl
  BY <1>1 DEF StopImpl, Handover, JoinNeeded, started_by_current_process, IInv, Types,
     CallTypes, Control, process
<1>2. CASE Join
  BY <1>2 DEF Join, Handover, IInv, Control, sink
<1>3. CASE Reset \/ ForkedRelease
  BY <1>3 DEF Reset, ForkedRelease, LetGo, ClearedQueue, Handover, IInv, Types, CallTypes
<1>4. CASE Restart
  BY <1>4 DEF Restart, Handover
<1>5. CASE Pop
  BY <1>5 DEF Pop, Handover, IInv, Control, call, process
<1>6. CASE caller' \in {"idle", "push", "stop", "corrupt"}
  BY <1>6 DEF Handover
<1>7. CASE UNCHANGED <<caller, handle, queue, thread_pid, pid>>
  BY <1>7 DEF Handover
<1> QED
  BY <1>1, <1>2, <1>3, <1>4, <1>5, <1>6, <1>7 DEF dump, stop, restart_sink, Destroy,
     PushBack, assert_and_create_log_group, list_existing_log_streams, TakeBatch, LeaveLoop,
     Flush, send_logs, EndRound, send_log_events, DescribeLogStreams, CreateLogStream,
     StreamCreated, StreamAlreadyExists, CreateFailed, PutLogEvents, LockTokens, StoreToken,
     PeerCreatesStream, Fork, RacyQueueAccess, Finished, Next, Caller, Call, Thread,
     Environment, vars, sink, mutexes, call, thread, service, process, round

LEMMA CustodyInductive == IInv /\ Custody /\ [Next]_vars => Custody'
  BY QueuedKept, RoundKept, UnsentKept, TrackedKept, LoopBatchKept, HandoverKept DEF Custody

LEMMA InitCustody == Init => Custody
<1> SUFFICES ASSUME Init PROVE Custody
  OBVIOUS
<1>1. Queued /\ InQueue = {}
  BY EmptyElements DEF Init, Queued
<1>2. Unsent
  BY DEF Init, Unsent, Settled
<1>3. Round /\ Tracked /\ LoopBatch /\ Handover
  BY DEF Init, Round, Sending, Batching, Requesting, Tracked, LoopBatch, Handover
<1> QED
  BY <1>1, <1>2, <1>3 DEF Custody

LEMMA EveryLogIsAccountedFor == Spec => [](IInv /\ Custody)
<1>1. Init => IInv /\ Custody
  BY InitIInv, InitCustody
<1>2. IInv /\ Custody /\ [Next]_vars => (IInv /\ Custody)'
  BY IInvInductive, CustodyInductive
<1> QED
  BY <1>1, <1>2, PTL DEF Spec

-----------------------------------------------------------------------------
(* The loop.                                                                 *)

(* Outside the final flush, PutLogEvents is never given a log that the       *)
(* service has stored before.                                                *)
THEOREM LoopNeverResends == Spec => LoopSendsOnce
<1>1. IInv /\ Custody /\ [Next]_vars => [\A l \in Logs : Resent(l) => flushing]_vars
  <2> SUFFICES ASSUME IInv, Custody, Next, NEW l \in Logs, Resent(l), ~flushing PROVE FALSE
    BY DEF vars
  <2>1. CASE PutLogEvents
    <3>1. l \in ToStream(cur) /\ cur \in pending
      BY <2>1, PutOutcome DEF Resent, Custody, Round, Sending, PutLogEvents, IInv, Types,
         ServiceTypes
    <3>2. l \in fresh
      BY <3>1 DEF Custody, LoopBatch, ToStream
    <3> QED
      BY <3>2 DEF Custody, Unsent, Held, Settled, Resent
  <2>2. CASE UNCHANGED deliveries
    BY <2>2 DEF Resent, IInv, Types, ServiceTypes
  <2> QED
    BY <2>1, <2>2 DEF dump, stop, restart_sink, Destroy, PushBack, StopImpl, Join, Reset,
       LetGo, ForkedRelease, Restart, StartThread, assert_and_create_log_group,
       list_existing_log_streams, TakeBatch, LeaveLoop, Flush, Pop, send_logs, EndRound,
       send_log_events, DescribeLogStreams, CreateLogStream, StreamCreated,
       StreamAlreadyExists, CreateFailed, LockTokens, StoreToken, PeerCreatesStream, Fork,
       RacyQueueAccess, Finished, Next, Caller, Call, Thread, Environment, vars, sink,
       mutexes, call, thread, service, process, round
<1> QED
  BY <1>1, EveryLogIsAccountedFor, PTL DEF Spec, LoopSendsOnce

-----------------------------------------------------------------------------
(* The refinement.  Below, the abstract status of a log is StatusOf(l).      *)

LEMMA Statuses ==
    IInv /\ Custody => \A l \in Logs :
      /\ l \in Held => StatusOf(l) = "held" /\ l \in accepted
      /\ l \notin Held => StatusOf(l) # "held"
      /\ l \notin accepted => StatusOf(l) = "new"
      /\ l \in accepted /\ deliveries[l] > 0 => StatusOf(l) = "delivered"
      /\ l \in accepted /\ ~(deliveries[l] > 0) /\ l \in failed => StatusOf(l) = "failed"
      /\ l \in accepted /\ l \notin Held /\ ~Settled(l) => StatusOf(l) = "dropped"
<1> SUFFICES ASSUME IInv, Custody, NEW l \in Logs
             PROVE /\ l \in Held => StatusOf(l) = "held" /\ l \in accepted
                   /\ l \notin Held => StatusOf(l) # "held"
                   /\ l \notin accepted => StatusOf(l) = "new"
                   /\ l \in accepted /\ deliveries[l] > 0 => StatusOf(l) = "delivered"
                   /\ l \in accepted /\ ~(deliveries[l] > 0) /\ l \in failed => StatusOf(l) = "failed"
                   /\ l \in accepted /\ l \notin Held /\ ~Settled(l) => StatusOf(l) = "dropped"
  OBVIOUS
<1>1. l \in Held => l \in accepted /\ ~Settled(l)
  BY DEF Custody, Queued, Round, Unsent, Held
<1> QED
  BY <1>1 DEF StatusOf, Settled

(* A step that moves the logs of a set and leaves the others where they are. *)
LEMMA Moves ==
    ASSUME NEW S \in SUBSET Logs, NEW to,
           \A l \in S : StatusOf(l)' = to,
           \A l \in Logs \ S : StatusOf(l)' = StatusOf(l)
    PROVE  Delivery!Move(S, to)
  BY DEF Delivery!Move

LEMMA SameStatus ==
    ASSUME UNCHANGED <<accepted, deliveries, failed>>, Held' = Held
    PROVE  \A l \in Logs : StatusOf(l)' = StatusOf(l)
  BY DEF StatusOf

LEMMA AbstractHeld == IInv /\ Custody => Delivery!Held = {l \in Logs : l \in Held}
  BY Statuses DEF Delivery!Held

(* The queue is cleared where nobody serves it.                              *)
LEMMA ClearIsDrop ==
    IInv /\ Custody /\ ~served /\ ~served' /\ queue' = <<>>
         /\ UNCHANGED <<fresh, accepted, deliveries, failed, is_discarding>>
    => Delivery!Drop
<1> SUFFICES ASSUME IInv, Custody, ~served, ~served', queue' = <<>>,
                    UNCHANGED <<fresh, accepted, deliveries, failed, is_discarding>>
             PROVE  Delivery!Drop
  OBVIOUS
<1> DEFINE S == {l \in Logs : l \in Held /\ l \notin fresh}
<1>1. Held' = fresh
  BY ClearedQueueIsEmpty DEF Held
<1>2. \A l \in S : StatusOf(l)' = "dropped"
  BY <1>1, Statuses DEF StatusOf, Custody, Unsent, Settled
<1>3. \A l \in Logs \ S : StatusOf(l)' = StatusOf(l)
  BY <1>1 DEF StatusOf, Held
<1>4. S \in SUBSET Delivery!Held
  BY AbstractHeld
<1>5. Delivery!Move(S, "dropped")
  BY <1>2, <1>3, Moves
<1>6. served' = served
  BY DEF served
<1> QED
  BY <1>4, <1>5, <1>6 DEF Delivery!Drop

LEMMA AcceptStep == IInv /\ Custody /\ PushBack => Delivery!Accept
<1> SUFFICES ASSUME IInv, Custody, PushBack PROVE Delivery!Accept
  OBVIOUS
<1>1. /\ InQueue' = InQueue \cup {arg} /\ arg \notin accepted /\ arg \in Logs
      /\ accepted' = accepted \cup {arg}
      /\ UNCHANGED <<fresh, deliveries, failed, is_discarding, served>>
  BY PushQueue DEF Custody, PushBack, thread, round, service, served,
     started_by_current_process
<1>2. Held' = Held \cup {arg}
  BY <1>1 DEF Held
<1>3. StatusOf(arg) = "new" /\ ~Settled(arg)
  BY <1>1, Statuses DEF Custody, Unsent
<1>4. \A l \in {arg} : StatusOf(l)' = "held"
  BY <1>1, <1>2, <1>3 DEF StatusOf, Settled
<1>5. \A l \in Logs \ {arg} : StatusOf(l)' = StatusOf(l)
  BY <1>1, <1>2 DEF StatusOf
<1>6. Delivery!Move({arg}, "held")
  BY <1>1, <1>4, <1>5, Moves
<1> QED
  BY <1>1, <1>3, <1>6 DEF Delivery!Accept

(* send_logs of a discarding sink.                                           *)
LEMMA DiscardStep == IInv /\ Custody /\ send_logs /\ Discards => Delivery!Drop
<1> SUFFICES ASSUME IInv, Custody, send_logs, Discards PROVE Delivery!Drop
  OBVIOUS
<1>1. /\ fresh' = {} /\ is_discarding /\ InQueue' = InQueue
      /\ UNCHANGED <<accepted, deliveries, failed, is_discarding, served>>
  BY DEF send_logs, Discards, sink, service, process, InQueue, served,
     started_by_current_process
<1>2. fresh \in SUBSET Logs /\ fresh \cap InQueue = {}
  BY DEF IInv, Types, RoundTypes, Sendable, Custody, Queued, Round
<1>3. Held' = InQueue
  BY <1>1 DEF Held
<1>4. \A l \in fresh : StatusOf(l)' = "dropped"
  BY <1>1, <1>2, <1>3, Statuses DEF StatusOf, Custody, Unsent, Settled, Held
<1>5. \A l \in Logs \ fresh : StatusOf(l)' = StatusOf(l)
  BY <1>1, <1>3 DEF StatusOf, Held
<1>6. Delivery!Move(fresh, "dropped")
  BY <1>2, <1>4, <1>5, Moves
<1>7. fresh \in SUBSET Delivery!Held
  BY <1>2, AbstractHeld DEF Held
<1> QED
  BY <1>1, <1>6, <1>7 DEF Delivery!Drop

(* A request delivers logs that were held or had failed, or rejects held     *)
(* ones; a log that was dropped is never requested.                          *)
LEMMA RequestStep == IInv /\ Custody /\ PutLogEvents => Delivery!Deliver \/ Delivery!Reject
<1> SUFFICES ASSUME IInv, Custody, PutLogEvents PROVE Delivery!Deliver \/ Delivery!Reject
  OBVIOUS
<1>1. served /\ UNCHANGED <<is_discarding, served>>
  BY DEF PutLogEvents, served, started_by_current_process, IInv, Control, sink, process
<1>2. /\ ToStream(cur) \in SUBSET Logs /\ ToStream(cur) \subseteq accepted
      /\ \A l \in ToStream(cur) : l \in Held \/ Settled(l)
  BY DEF PutLogEvents, ToStream, Custody, Round, Sending, Tracked, IInv, Types, RoundTypes,
     Sendable, Held
<1>3. /\ InQueue' = InQueue /\ accepted' = accepted /\ fresh' = fresh \ ToStream(cur)
      /\ ToStream(cur) \cap InQueue = {}
  BY DEF PutLogEvents, ToStream, InQueue, sink, process, Custody, Queued
<1>4. /\ Held' = Held \ ToStream(cur)
      /\ \A l \in Held : ~Settled(l)
  BY <1>3, Statuses DEF Held, Custody, Unsent, Queued, Round, IInv, Types, HistoryTypes
<1>5. CASE cur \in streams /\ UNCHANGED failed
           /\ deliveries' = [l \in Logs |-> deliveries[l] + (IF l \in ToStream(cur) THEN 1 ELSE 0)]
  <2> DEFINE S == {l \in ToStream(cur) : ~(deliveries[l] > 0)}
  <2>1. \A l \in ToStream(cur) : deliveries'[l] > 0 /\ l \in accepted'
    BY <1>2, <1>3, <1>5 DEF IInv, Types, ServiceTypes
  <2>2. \A l \in ToStream(cur) : StatusOf(l)' = "delivered"
    BY <2>1 DEF StatusOf
  <2>3. \A l \in ToStream(cur) \ S : StatusOf(l) = "delivered"
    BY <1>2, Statuses
  <2>4. \A l \in Logs \ ToStream(cur) : StatusOf(l)' = StatusOf(l)
    BY <1>3, <1>4, <1>5, PutOutcome DEF StatusOf
  <2>5. \A l \in S : StatusOf(l) \in {"held", "failed"}
    BY <1>2, Statuses DEF Settled
  <2>6. Delivery!Move(S, "delivered")
    BY <1>2, <2>2, <2>3, <2>4, Moves
  <2>7. S \in SUBSET {l \in Logs : StatusOf(l) \in {"held", "failed"}}
    BY <1>2, <2>5
  <2>8. S \in SUBSET {l \in Logs : [k \in Logs |-> StatusOf(k)][l] \in {"held", "failed"}}
    BY <2>7
  <2> QED
    BY <1>1, <2>6, <2>8 DEF Delivery!Deliver
<1>6. CASE failed' = failed \cup ToStream(cur) /\ UNCHANGED deliveries
  <2> DEFINE S == {l \in ToStream(cur) : l \in Held}
  <2>1. \A l \in S : StatusOf(l)' = "failed"
    BY <1>2, <1>3, <1>4, <1>6 DEF StatusOf, Settled
  <2>2. \A l \in ToStream(cur) \ S : StatusOf(l)' = StatusOf(l)
    BY <1>2, <1>3, <1>4, <1>6 DEF StatusOf, Settled
  <2>3. \A l \in Logs \ ToStream(cur) : StatusOf(l)' = StatusOf(l)
    BY <1>3, <1>4, <1>6 DEF StatusOf
  <2>4. Delivery!Move(S, "failed")
    BY <1>2, <2>1, <2>2, <2>3, Moves
  <2>5. S \in SUBSET Delivery!Held
    BY <1>2, AbstractHeld
  <2> QED
    BY <1>1, <2>4, <2>5 DEF Delivery!Reject
<1> QED
  BY <1>5, <1>6 DEF PutLogEvents

(* A fork leaves the round of the worker to the parent.                      *)
LEMMA ForkStep == IInv /\ Custody /\ Fork => Delivery!Fork
<1> SUFFICES ASSUME IInv, Custody, Fork PROVE Delivery!Fork
  OBVIOUS
<1>1. /\ fresh' = {} /\ InQueue' = InQueue
      /\ UNCHANGED <<accepted, deliveries, failed, is_discarding>>
  BY DEF Fork, sink, service, InQueue
<1>2. served' = FALSE
  BY DEF Fork, served, started_by_current_process, sink, IInv, Types, PidTypes
<1>3. fresh \in SUBSET Logs /\ fresh \cap InQueue = {}
  BY DEF IInv, Types, RoundTypes, Sendable, Custody, Queued, Round
<1>4. Held' = InQueue
  BY <1>1 DEF Held
<1>5. \A l \in fresh : StatusOf(l)' = "dropped"
  BY <1>1, <1>3, <1>4, Statuses DEF StatusOf, Custody, Unsent, Settled, Held
<1>6. \A l \in Logs \ fresh : StatusOf(l)' = StatusOf(l)
  BY <1>1, <1>4 DEF StatusOf, Held
<1>7. Delivery!Move(fresh, "dropped")
  BY <1>3, <1>5, <1>6, Moves
<1>8. fresh \in SUBSET Delivery!Held
  BY <1>3, AbstractHeld DEF Held
<1> QED
  BY <1>1, <1>2, <1>7, <1>8 DEF Delivery!Fork

(* After the join the queue is empty; where there was no worker to join,     *)
(* nobody served the queue.                                                  *)
LEMMA ResetStep == IInv /\ Custody /\ Reset => Delivery!Stop \/ Delivery!Drop
<1> SUFFICES ASSUME IInv, Custody, Reset PROVE Delivery!Stop \/ Delivery!Drop
  OBVIOUS
<1>1. /\ queue' = <<>> /\ ~served' /\ caller = "reset" /\ handle' = FALSE
      /\ UNCHANGED <<fresh, accepted, deliveries, failed, is_discarding>>
  BY DEF Reset, LetGo, ClearedQueue, served, thread, round, service, process
<1>2. CASE ~handle
  <2>1. ~served
    BY <1>2 DEF served
  <2> QED
    BY <1>1, <2>1, ClearIsDrop
<1>3. CASE handle
  <2>1. queue = <<>> /\ worker = "absent"
    BY <1>1, <1>3 DEF Custody, Handover, IInv, Control
  <2>2. fresh = {}
    BY <1>1, <2>1 DEF Custody, Round, Batching
  <2>3. Held = {} /\ Held' = Held
    BY <1>1, <2>1, <2>2, EmptyElements, ClearedQueueIsEmpty DEF Held
  <2>4. Delivery!Held = {}
    BY <2>3, AbstractHeld
  <2>5. \A l \in Logs : StatusOf(l)' = StatusOf(l)
    BY <1>1, <2>3, SameStatus
  <2>6. served' = FALSE
    BY <1>1 DEF served
  <2> QED
    BY <1>1, <2>4, <2>5, <2>6 DEF Delivery!Stop
<1> QED
  BY <1>2, <1>3 DEF IInv, Types, SinkTypes

LEMMA ReleaseStep == IInv /\ Custody /\ ForkedRelease => Delivery!Drop
<1> SUFFICES ASSUME IInv, Custody, ForkedRelease PROVE Delivery!Drop
  OBVIOUS
<1>1. /\ queue' = <<>> /\ ~served' /\ ~served
      /\ UNCHANGED <<fresh, accepted, deliveries, failed, is_discarding>>
  BY DEF ForkedRelease, LetGo, ClearedQueue, served, started_by_current_process, thread,
     round, service, process, Custody, Handover
<1> QED
  BY <1>1, ClearIsDrop

LEMMA RestartStep ==
    IInv /\ Custody /\ Restart => Delivery!Start \/ UNCHANGED Delivery!vars
<1> SUFFICES ASSUME IInv, Custody, Restart
             PROVE  Delivery!Start \/ UNCHANGED Delivery!vars
  OBVIOUS
<1>1. /\ queue = <<>> /\ queue' = <<>> /\ worker = "absent" /\ ~handle
      /\ thread_pid' = pid' /\ caller = "restart"
      /\ UNCHANGED <<accepted, deliveries, failed, is_discarding>>
  BY DEF Restart, ClearedQueue, IInv, Control, Custody, Handover, service, process
<1>2. fresh = {} /\ fresh' = {}
  BY <1>1 DEF Custody, Round, Batching, Restart, StartThread
<1>3. Held = {} /\ Held' = Held
  BY <1>1, <1>2, EmptyElements, ClearedQueueIsEmpty DEF Held
<1>4. Delivery!Held = {}
  BY <1>3, AbstractHeld
<1>5. \A l \in Logs : StatusOf(l)' = StatusOf(l)
  BY <1>1, <1>3, SameStatus
<1>6. CASE StartThread
  <2>1. served' = TRUE
    BY <1>1, <1>6 DEF StartThread, served, started_by_current_process
  <2> QED
    BY <1>1, <1>4, <1>5, <2>1 DEF Delivery!Start
<1>7. CASE UNCHANGED handle
  <2>1. served' = served
    BY <1>1, <1>7 DEF served
  <2> QED
    BY <1>1, <1>5, <2>1 DEF Delivery!vars
<1> QED
  BY <1>6, <1>7 DEF Restart

LEMMA SetDiscardingStep ==
    ASSUME NEW discard \in BOOLEAN, stop(discard) PROVE Delivery!SetDiscarding
<1>1. /\ UNCHANGED <<accepted, deliveries, failed, fresh, served>> /\ InQueue' = InQueue
      /\ is_discarding' \in BOOLEAN
  BY DEF stop, thread, round, service, process, InQueue, served, started_by_current_process
<1>2. \A l \in Logs : StatusOf(l)' = StatusOf(l)
  BY <1>1, SameStatus DEF Held
<1> QED
  BY <1>1, <1>2 DEF Delivery!SetDiscarding

(* Every other step changes nothing EventDelivery speaks of.                 *)
LEMMA QuietStep ==
    ASSUME UNCHANGED <<fresh, accepted, deliveries, failed, is_discarding, handle,
                       thread_pid, pid>>,
           UNCHANGED queue
    PROVE  UNCHANGED Delivery!vars
<1>1. \A l \in Logs : StatusOf(l)' = StatusOf(l)
  BY SameStatus DEF Held, InQueue
<1>2. UNCHANGED served
  BY DEF served, started_by_current_process
<1> QED
  BY <1>1, <1>2 DEF Delivery!vars

LEMMA PopStep == IInv /\ Custody /\ Pop => UNCHANGED Delivery!vars
<1> SUFFICES ASSUME IInv, Custody, Pop PROVE UNCHANGED Delivery!vars
  OBVIOUS
<1>1. Held' = Held
  BY PopQueue DEF Held, Pop, Custody
<1>2. UNCHANGED <<accepted, deliveries, failed, is_discarding, served>>
  BY DEF Pop, service, process, served, started_by_current_process
<1>3. \A l \in Logs : StatusOf(l)' = StatusOf(l)
  BY <1>1, <1>2, SameStatus
<1> QED
  BY <1>2, <1>3 DEF Delivery!vars

LEMMA StepImplements ==
    IInv /\ Custody /\ [Next]_vars => [Delivery!Next]_(Delivery!vars)
<1> SUFFICES ASSUME IInv, Custody, [Next]_vars
             PROVE  Delivery!Next \/ UNCHANGED Delivery!vars
  OBVIOUS
<1>1. CASE PushBack
  BY <1>1, AcceptStep DEF Delivery!Next
<1>2. CASE \E discard \in BOOLEAN : stop(discard)
  BY <1>2, SetDiscardingStep DEF Delivery!Next
<1>3. CASE Reset
  BY <1>3, ResetStep DEF Delivery!Next
<1>4. CASE ForkedRelease
  BY <1>4, ReleaseStep DEF Delivery!Next
<1>5. CASE Restart
  BY <1>5, RestartStep DEF Delivery!Next
<1>6. CASE Pop
  BY <1>6, PopStep
<1>7. CASE send_logs /\ Discards
  BY <1>7, DiscardStep DEF Delivery!Next
<1>8. CASE PutLogEvents
  BY <1>8, RequestStep DEF Delivery!Next
<1>9. CASE Fork
  BY <1>9, ForkStep DEF Delivery!Next
<1>10. CASE /\ UNCHANGED <<fresh, accepted, deliveries, failed, is_discarding, handle,
                           thread_pid, pid>>
            /\ UNCHANGED queue
  BY <1>10, QuietStep
<1> QED
  BY <1>1, <1>2, <1>3, <1>4, <1>5, <1>6, <1>7, <1>8, <1>9, <1>10 DEF dump, restart_sink,
     Destroy, StopImpl, Join, assert_and_create_log_group, list_existing_log_streams,
     TakeBatch, LeaveLoop, Flush, send_logs, EndRound, send_log_events, DescribeLogStreams,
     CreateLogStream, StreamCreated, StreamAlreadyExists, CreateFailed, LockTokens,
     StoreToken, PeerCreatesStream, RacyQueueAccess, Finished, Next, Caller, Call, Thread,
     Environment, vars, sink, mutexes, call, thread, service, process, round

LEMMA InitImplements == Init => Delivery!Init
<1> SUFFICES ASSUME Init PROVE Delivery!Init
  OBVIOUS
<1>1. \A l \in Logs : StatusOf(l) = "new"
  BY DEF Init, StatusOf
<1>2. served = TRUE /\ is_discarding = FALSE
  BY DEF Init, served, started_by_current_process
<1> QED
  BY <1>1, <1>2 DEF Delivery!Init

(* No accepted log disappears: dump, the worker, the flush, a restart and a  *)
(* fork only do to a log what EventDelivery allows.                          *)
THEOREM LogsAreAccountedFor == Spec => ImplementsDelivery
<1>1. Init => Delivery!Init
  BY InitImplements
<1>2. IInv /\ Custody /\ [Next]_vars => [Delivery!Next]_(Delivery!vars)
  BY StepImplements
<1> QED
  BY <1>1, <1>2, EveryLogIsAccountedFor, PTL DEF Spec, ImplementsDelivery, Delivery!Spec
=============================================================================

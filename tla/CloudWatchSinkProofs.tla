------------------------ MODULE CloudWatchSinkProofs ------------------------
(***************************************************************************)
(* Safety of CloudWatchSink for any number of logs, streams and forks and  *)
(* any request limit.                                                      *)
(*                                                                         *)
(* The inductive invariant has three parts:                                *)
(*   Types    the types, with what the positions of the two threads say    *)
(*            about arg, cur and the finite set fresh;                     *)
(*   Control  which positions of caller and worker go together;            *)
(*   Content  what the queue and the batch of a worker can contain.        *)
(***************************************************************************)
EXTENDS CloudWatchSink, FiniteSetTheorems, TLAPS

(* The logs dump lets through to the queue.                                  *)
Sendable == {l \in Logs : StreamName(l) \in Streams}

Sending == {"describe", "create", "put"}
Batching == {"drain", "send", "describe", "create", "put", "token", "store"}

QueueType == queue \in Seq(Sendable)

SinkTypes ==
    /\ is_running \in BOOLEAN /\ is_discarding \in BOOLEAN
    /\ handle \in BOOLEAN /\ client \in BOOLEAN

PidTypes ==
    /\ pid \in Nat /\ pid <= MaxForks
    /\ thread_pid \in Nat /\ thread_pid <= pid
    /\ mutex_pid \in Nat /\ mutex_pid <= pid

MutexTypes == logs_mtx \in Owner /\ tokens_mtx \in Owner

CallTypes ==
    /\ caller \in CallerPC /\ arg \in Logs \cup {NoLog} /\ next \in {"idle", "restart", "gone"}
    /\ caller = "push" => arg \in Sendable

RoundTypes ==
    /\ batch \in SUBSET Sendable /\ fresh \in SUBSET Sendable
    /\ IsFiniteSet(fresh) /\ Cardinality(fresh) <= Limit

ThreadTypes ==
    /\ worker \in WorkerPC /\ flushing \in BOOLEAN
    /\ pending \in SUBSET Streams /\ cur \in Streams \cup {NoStream}
    /\ worker \in Sending => cur \in Streams

ServiceTypes ==
    /\ cache \in SUBSET Streams
    /\ group \in BOOLEAN /\ streams \in SUBSET Streams
    /\ deliveries \in [Logs -> Nat] /\ failed \in SUBSET Logs

HistoryTypes == accepted \in SUBSET Logs /\ inherited \in SUBSET Logs

Types == /\ lambda \in BOOLEAN
         /\ QueueType /\ SinkTypes /\ PidTypes /\ MutexTypes /\ CallTypes /\ RoundTypes
         /\ ThreadTypes /\ ServiceTypes /\ HistoryTypes

(* A worker belongs to this process and to a sink that is intact.  While the *)
(* sink is not running, a worker can only be the one the caller is joining.  *)
Control ==
    /\ worker # "absent" => /\ thread_pid = pid /\ handle /\ client
                            /\ caller \notin {"reset", "release", "restart"} /\ ~Over
                            /\ ~is_running => caller = "join"
    /\ caller = "join" => ~is_running
    /\ caller = "reset" => thread_pid = pid
    /\ caller = "stop" /\ next = "restart" => is_running
    /\ worker \in {"flush", "done"} => ~is_running
    /\ flushing => worker \in Batching /\ ~is_running
    /\ worker = "done" => queue = <<>>
    /\ thread_pid = pid => logs_mtx # "orphan" /\ tokens_mtx # "orphan"
    /\ mutex_pid = pid => logs_mtx # "orphan" /\ tokens_mtx # "orphan"
    /\ caller = "restart" => logs_mtx # "orphan" /\ tokens_mtx # "orphan"

(* What a worker holds was accepted after the last fork; a log is pushed     *)
(* once; a cached stream exists.                                             *)
PushedOnce == inherited \subseteq accepted /\ (caller = "push" => arg \notin accepted)
OwnLogs == worker # "absent" => InQueue \cap inherited = {} /\ batch \cap inherited = {}
CacheSound == (lambda => LambdaStream \in streams) /\ cache \subseteq streams

Content == PushedOnce /\ OwnLogs /\ CacheSound

IInv == Types /\ Control /\ Content

-----------------------------------------------------------------------------
(* The elements of a sequence under Append and Tail.                         *)

ElementsOf(q) == {q[i] : i \in 1 .. Len(q)}

LEMMA AppendElements ==
    ASSUME NEW S, NEW q \in Seq(S), NEW x \in S
    PROVE  /\ Append(q, x) \in Seq(S)
           /\ ElementsOf(Append(q, x)) = ElementsOf(q) \cup {x}
<1> DEFINE r == Append(q, x)
<1>1. /\ r \in Seq(S) /\ Len(r) = Len(q) + 1 /\ Len(q) \in Nat
      /\ \A i \in 1 .. Len(q) : r[i] = q[i]
      /\ r[Len(q) + 1] = x
  OBVIOUS
<1> HIDE DEF r
<1>2. ElementsOf(r) \subseteq ElementsOf(q) \cup {x}
  BY <1>1 DEF ElementsOf
<1>3. ElementsOf(q) \cup {x} \subseteq ElementsOf(r)
  BY <1>1 DEF ElementsOf
<1> QED BY <1>1, <1>2, <1>3 DEF r

LEMMA TailElements ==
    ASSUME NEW S, NEW q \in Seq(S), q # <<>>
    PROVE  /\ Tail(q) \in Seq(S) /\ Head(q) \in S
           /\ Head(q) \in ElementsOf(q)
           /\ ElementsOf(Tail(q)) \subseteq ElementsOf(q)
<1>1. /\ Tail(q) \in Seq(S) /\ Len(q) \in Nat \ {0} /\ Len(Tail(q)) = Len(q) - 1
      /\ \A i \in 1 .. Len(Tail(q)) : Tail(q)[i] = q[i + 1]
      /\ Head(q) = q[1] /\ Head(q) \in S
  OBVIOUS
<1> QED BY <1>1 DEF ElementsOf

-----------------------------------------------------------------------------
(* The types.  One lemma per group of variables: an action either leaves the *)
(* whole group alone or is a case of its own.                                *)

LEMMA EmptyQueue == <<>> \in Seq(Sendable)
  OBVIOUS

LEMMA InitTypes == Init => Types
<1> SUFFICES ASSUME Init PROVE Types
  OBVIOUS
<1>1. RoundTypes
  BY FS_EmptySet, LimitAssumption DEF Init, RoundTypes
<1>2. QueueType
  BY EmptyQueue DEF Init, QueueType
<1>3. SinkTypes
  BY DEF Init, SinkTypes
<1>4. PidTypes
  BY ForksAssumption DEF Init, PidTypes
<1>5. CallTypes /\ ThreadTypes
  BY DEF Init, CallTypes, ThreadTypes, CallerPC, WorkerPC, Sending
<1> QED
  BY <1>1, <1>2, <1>3, <1>4, <1>5, StreamAssumption
     DEF Init, Types, MutexTypes, ServiceTypes, HistoryTypes, Owner

LEMMA LambdaFixed == [Next]_vars => lambda' = lambda /\ Sendable' = Sendable
<1>1. [Next]_vars => lambda' = lambda
  BY DEF dump, stop, restart_sink, Destroy, PushBack, StopImpl, Join, Reset, LetGo,
     ForkedRelease, Restart, StartThread, assert_and_create_log_group,
     list_existing_log_streams, TakeBatch, LeaveLoop, Flush, Pop, send_logs, EndRound,
     send_log_events, DescribeLogStreams, CreateLogStream, StreamCreated,
     StreamAlreadyExists, CreateFailed, PutLogEvents, LockTokens, StoreToken,
     PeerCreatesStream, Fork, RacyQueueAccess, Finished, Next, Caller, Call, Thread,
     Environment, vars, process
<1>2. lambda' = lambda => Sendable' = Sendable
  BY DEF Sendable, StreamName
<1> QED
  BY <1>1, <1>2

LEMMA QueueTypeKept == Types /\ [Next]_vars => QueueType'
<1> SUFFICES ASSUME Types, [Next]_vars PROVE QueueType'
  OBVIOUS
<1>1. Sendable' = Sendable /\ lambda' = lambda
  BY LambdaFixed
<1>2. CASE PushBack
  BY <1>1, <1>2, AppendElements DEF PushBack, Types, QueueType, CallTypes, vars, sink,
     mutexes, call, thread, service, process, round
<1>3. CASE Reset
  BY <1>1, <1>3, EmptyQueue DEF Reset, LetGo, Types, QueueType, ClearedQueue, vars, sink,
     mutexes, call, thread, service, process, round
<1>4. CASE ForkedRelease
  BY <1>1, <1>4, EmptyQueue DEF ForkedRelease, LetGo, Types, QueueType, ClearedQueue, vars,
     sink, mutexes, call, thread, service, process, round
<1>5. CASE Restart
  BY <1>1, <1>5, EmptyQueue DEF Restart, StartThread, Types, QueueType, ClearedQueue, vars,
     sink, mutexes, call, thread, service, process, round
<1>6. CASE Pop
  BY <1>1, <1>6, TailElements DEF Pop, Types, QueueType, vars, sink, mutexes, call, thread,
     service, process, round
<1>7. CASE UNCHANGED <<queue>>
  BY <1>1, <1>7 DEF Types, QueueType
<1> QED
  BY <1>2, <1>3, <1>4, <1>5, <1>6, <1>7 DEF dump, stop, restart_sink, Destroy, StopImpl,
     Join, assert_and_create_log_group, list_existing_log_streams, TakeBatch, LeaveLoop,
     Flush, send_logs, EndRound, send_log_events, DescribeLogStreams, CreateLogStream,
     StreamCreated, StreamAlreadyExists, CreateFailed, PutLogEvents, LockTokens, StoreToken,
     PeerCreatesStream, Fork, RacyQueueAccess, Finished, Next, Caller, Call, Thread,
     Environment, vars, sink, mutexes, call, thread, service, process, round

LEMMA SinkTypesKept == Types /\ [Next]_vars => SinkTypes'
<1> SUFFICES ASSUME Types, [Next]_vars PROVE SinkTypes'
  OBVIOUS
<1>1. Sendable' = Sendable /\ lambda' = lambda
  BY LambdaFixed
<1>2. CASE \E discard \in BOOLEAN : stop(discard)
  BY <1>1, <1>2 DEF stop, Types, SinkTypes, vars, sink, mutexes, call, thread, service,
     process, round
<1>3. CASE StopImpl
  BY <1>1, <1>3 DEF StopImpl, Types, SinkTypes, vars, sink, mutexes, call, thread, service,
     process, round
<1>4. CASE Reset
  BY <1>1, <1>4 DEF Reset, LetGo, Types, SinkTypes, vars, sink, mutexes, call, thread,
     service, process, round
<1>5. CASE ForkedRelease
  BY <1>1, <1>5 DEF ForkedRelease, LetGo, Types, SinkTypes, vars, sink, mutexes, call,
     thread, service, process, round
<1>6. CASE Restart
  BY <1>1, <1>6 DEF Restart, StartThread, Types, SinkTypes, vars, sink, mutexes, call,
     thread, service, process, round
<1>7. CASE UNCHANGED <<is_running, is_discarding, handle, client>>
  BY <1>1, <1>7 DEF Types, SinkTypes
<1> QED
  BY <1>2, <1>3, <1>4, <1>5, <1>6, <1>7 DEF dump, restart_sink, Destroy, PushBack, Join,
     assert_and_create_log_group, list_existing_log_streams, TakeBatch, LeaveLoop, Flush,
     Pop, send_logs, EndRound, send_log_events, DescribeLogStreams, CreateLogStream,
     StreamCreated, StreamAlreadyExists, CreateFailed, PutLogEvents, LockTokens, StoreToken,
     PeerCreatesStream, Fork, RacyQueueAccess, Finished, Next, Caller, Call, Thread,
     Environment, vars, sink, mutexes, call, thread, service, process, round

LEMMA PidTypesKept == Types /\ [Next]_vars => PidTypes'
<1> SUFFICES ASSUME Types, [Next]_vars PROVE PidTypes'
  OBVIOUS
<1>1. Sendable' = Sendable /\ lambda' = lambda
  BY LambdaFixed
<1>2. CASE ForkedRelease
  BY <1>1, <1>2 DEF ForkedRelease, LetGo, Types, PidTypes, vars, sink, mutexes, call,
     thread, service, process, round
<1>3. CASE Restart
  BY <1>1, <1>3 DEF Restart, StartThread, Types, PidTypes, vars, sink, mutexes, call,
     thread, service, process, round
<1>4. CASE Fork
  BY <1>1, <1>4, ForksAssumption DEF Fork, Types, PidTypes, vars, sink, mutexes, call,
     thread, service, process, round
<1>5. CASE UNCHANGED <<pid, thread_pid, mutex_pid>>
  BY <1>1, <1>5 DEF Types, PidTypes
<1> QED
  BY <1>2, <1>3, <1>4, <1>5 DEF dump, stop, restart_sink, Destroy, PushBack, StopImpl, Join,
     Reset, LetGo, assert_and_create_log_group, list_existing_log_streams, TakeBatch,
     LeaveLoop, Flush, Pop, send_logs, EndRound, send_log_events, DescribeLogStreams,
     CreateLogStream, StreamCreated, StreamAlreadyExists, CreateFailed, PutLogEvents,
     LockTokens, StoreToken, PeerCreatesStream, RacyQueueAccess, Finished, Next, Caller,
     Call, Thread, Environment, vars, sink, mutexes, call, thread, service, process, round

LEMMA MutexTypesKept == Types /\ [Next]_vars => MutexTypes'
<1> SUFFICES ASSUME Types, [Next]_vars PROVE MutexTypes'
  OBVIOUS
<1>1. Sendable' = Sendable /\ lambda' = lambda
  BY LambdaFixed
<1>2. CASE ForkedRelease
  BY <1>1, <1>2 DEF ForkedRelease, LetGo, Types, MutexTypes, Owner, fork_reset, vars, sink,
     mutexes, call, thread, service, process, round
<1>3. CASE TakeBatch
  BY <1>1, <1>3 DEF TakeBatch, Types, MutexTypes, Owner, vars, sink, mutexes, call, thread,
     service, process, round
<1>4. CASE Flush
  BY <1>1, <1>4 DEF Flush, Types, MutexTypes, Owner, vars, sink, mutexes, call, thread,
     service, process, round
<1>5. CASE EndRound
  BY <1>1, <1>5 DEF EndRound, Types, MutexTypes, Owner, vars, sink, mutexes, call, thread,
     service, process, round
<1>6. CASE LockTokens
  BY <1>1, <1>6 DEF LockTokens, Types, MutexTypes, Owner, vars, sink, mutexes, call, thread,
     service, process, round
<1>7. CASE StoreToken
  BY <1>1, <1>7 DEF StoreToken, Types, MutexTypes, Owner, vars, sink, mutexes, call, thread,
     service, process, round
<1>8. CASE Fork
  BY <1>1, <1>8 DEF Fork, Types, MutexTypes, Owner, InheritedMutex, vars, sink, mutexes,
     call, thread, service, process, round
<1>9. CASE UNCHANGED <<logs_mtx, tokens_mtx>>
  BY <1>1, <1>9 DEF Types, MutexTypes, Owner
<1> QED
  BY <1>2, <1>3, <1>4, <1>5, <1>6, <1>7, <1>8, <1>9 DEF dump, stop, restart_sink, Destroy,
     PushBack, StopImpl, Join, Reset, LetGo, Restart, StartThread,
     assert_and_create_log_group, list_existing_log_streams, LeaveLoop, Pop, send_logs,
     send_log_events, DescribeLogStreams, CreateLogStream, StreamCreated,
     StreamAlreadyExists, CreateFailed, PutLogEvents, PeerCreatesStream, RacyQueueAccess,
     Finished, Next, Caller, Call, Thread, Environment, vars, sink, mutexes, call, thread,
     service, process, round

LEMMA CallTypesKept == Types /\ [Next]_vars => CallTypes'
<1> SUFFICES ASSUME Types, [Next]_vars PROVE CallTypes'
  OBVIOUS
<1>1. Sendable' = Sendable /\ lambda' = lambda
  BY LambdaFixed
<1>2. CASE \E l \in Logs : dump(l)
  BY <1>1, <1>2, StreamAssumption DEF dump, Types, CallTypes, CallerPC, Sendable,
     StreamName, vars, sink, mutexes, call, thread, service, process, round
<1>3. CASE PushBack
  BY <1>1, <1>3 DEF PushBack, Types, CallTypes, CallerPC, vars, sink, mutexes, call, thread,
     service, process, round
<1>4. CASE \E discard \in BOOLEAN : stop(discard)
  BY <1>1, <1>4 DEF stop, Types, CallTypes, CallerPC, vars, sink, mutexes, call, thread,
     service, process, round
<1>5. CASE restart_sink
  BY <1>1, <1>5 DEF restart_sink, Types, CallTypes, CallerPC, vars, sink, mutexes, call,
     thread, service, process, round
<1>6. CASE Destroy
  BY <1>1, <1>6 DEF Destroy, Types, CallTypes, CallerPC, vars, sink, mutexes, call, thread,
     service, process, round
<1>7. CASE StopImpl
  BY <1>1, <1>7 DEF StopImpl, Types, CallTypes, CallerPC, vars, sink, mutexes, call, thread,
     service, process, round
<1>8. CASE Join
  BY <1>1, <1>8 DEF Join, Types, CallTypes, CallerPC, vars, sink, mutexes, call, thread,
     service, process, round
<1>9. CASE Reset
  BY <1>1, <1>9 DEF Reset, LetGo, Types, CallTypes, CallerPC, vars, sink, mutexes, call,
     thread, service, process, round
<1>10. CASE ForkedRelease
  BY <1>1, <1>10 DEF ForkedRelease, LetGo, Types, CallTypes, CallerPC, vars, sink, mutexes,
     call, thread, service, process, round
<1>11. CASE Restart
  BY <1>1, <1>11 DEF Restart, StartThread, Types, CallTypes, CallerPC, vars, sink, mutexes,
     call, thread, service, process, round
<1>12. CASE Fork
  BY <1>1, <1>12 DEF Fork, Types, CallTypes, CallerPC, Changing, vars, sink, mutexes, call,
     thread, service, process, round
<1>13. CASE RacyQueueAccess
  BY <1>1, <1>13 DEF RacyQueueAccess, Types, CallTypes, CallerPC, vars, sink, mutexes, call,
     thread, service, process, round
<1>14. CASE UNCHANGED <<caller, arg, next>>
  BY <1>1, <1>14 DEF Types, CallTypes, CallerPC
<1> QED
  BY <1>2, <1>3, <1>4, <1>5, <1>6, <1>7, <1>8, <1>9, <1>10, <1>11, <1>12, <1>13, <1>14 DEF
     assert_and_create_log_group, list_existing_log_streams, TakeBatch, LeaveLoop, Flush,
     Pop, send_logs, EndRound, send_log_events, DescribeLogStreams, CreateLogStream,
     StreamCreated, StreamAlreadyExists, CreateFailed, PutLogEvents, LockTokens, StoreToken,
     PeerCreatesStream, Finished, Next, Caller, Call, Thread, Environment, vars, sink,
     mutexes, call, thread, service, process, round

LEMMA ThreadTypesKept == Types /\ [Next]_vars => ThreadTypes'
<1> SUFFICES ASSUME Types, [Next]_vars PROVE ThreadTypes'
  OBVIOUS
<1>1. Sendable' = Sendable /\ lambda' = lambda
  BY LambdaFixed
<1>2. CASE Join
  BY <1>1, <1>2 DEF Join, Types, ThreadTypes, WorkerPC, Sending, vars, sink, mutexes, call,
     thread, service, process, round
<1>3. CASE Restart
  BY <1>1, <1>3 DEF Restart, StartThread, Types, ThreadTypes, WorkerPC, Sending, vars, sink,
     mutexes, call, thread, service, process, round
<1>4. CASE assert_and_create_log_group
  BY <1>1, <1>4 DEF assert_and_create_log_group, Types, ThreadTypes, WorkerPC, Sending,
     vars, sink, mutexes, call, thread, service, process, round
<1>5. CASE list_existing_log_streams
  BY <1>1, <1>5 DEF list_existing_log_streams, Types, ThreadTypes, WorkerPC, Sending, vars,
     sink, mutexes, call, thread, service, process, round
<1>6. CASE TakeBatch
  BY <1>1, <1>6 DEF TakeBatch, Types, ThreadTypes, WorkerPC, Sending, vars, sink, mutexes,
     call, thread, service, process, round
<1>7. CASE LeaveLoop
  BY <1>1, <1>7 DEF LeaveLoop, Types, ThreadTypes, WorkerPC, Sending, vars, sink, mutexes,
     call, thread, service, process, round
<1>8. CASE Flush
  BY <1>1, <1>8 DEF Flush, Types, ThreadTypes, WorkerPC, Sending, vars, sink, mutexes, call,
     thread, service, process, round
<1>9. CASE send_logs
  BY <1>1, <1>9 DEF send_logs, Types, ThreadTypes, WorkerPC, Sending, RoundTypes, Sendable,
     vars, sink, mutexes, call, thread, service, process, round
<1>10. CASE EndRound
  BY <1>1, <1>10 DEF EndRound, Types, ThreadTypes, WorkerPC, Sending, vars, sink, mutexes,
     call, thread, service, process, round
<1>11. CASE send_log_events
  BY <1>1, <1>11 DEF send_log_events, Types, ThreadTypes, WorkerPC, Sending, vars, sink,
     mutexes, call, thread, service, process, round
<1>12. CASE DescribeLogStreams
  BY <1>1, <1>12 DEF DescribeLogStreams, Types, ThreadTypes, WorkerPC, Sending, vars, sink,
     mutexes, call, thread, service, process, round
<1>13. CASE CreateLogStream
  BY <1>1, <1>13 DEF CreateLogStream, StreamCreated, StreamAlreadyExists, CreateFailed,
     Types, ThreadTypes, WorkerPC, Sending, vars, sink, mutexes, call, thread, service,
     process, round
<1>14. CASE PutLogEvents
  BY <1>1, <1>14 DEF PutLogEvents, Types, ThreadTypes, WorkerPC, Sending, vars, sink,
     mutexes, call, thread, service, process, round
<1>15. CASE LockTokens
  BY <1>1, <1>15 DEF LockTokens, Types, ThreadTypes, WorkerPC, Sending, vars, sink, mutexes,
     call, thread, service, process, round
<1>16. CASE StoreToken
  BY <1>1, <1>16 DEF StoreToken, Types, ThreadTypes, WorkerPC, Sending, vars, sink, mutexes,
     call, thread, service, process, round
<1>17. CASE Fork
  BY <1>1, <1>17 DEF Fork, Types, ThreadTypes, WorkerPC, Sending, vars, sink, mutexes, call,
     thread, service, process, round
<1>18. CASE RacyQueueAccess
  BY <1>1, <1>18 DEF RacyQueueAccess, Types, ThreadTypes, WorkerPC, Sending, vars, sink,
     mutexes, call, thread, service, process, round
<1>19. CASE UNCHANGED <<worker, flushing, pending, cur>>
  BY <1>1, <1>19 DEF Types, ThreadTypes, WorkerPC, Sending
<1> QED
  BY <1>2, <1>3, <1>4, <1>5, <1>6, <1>7, <1>8, <1>9, <1>10, <1>11, <1>12, <1>13, <1>14,
     <1>15, <1>16, <1>17, <1>18, <1>19 DEF dump, stop, restart_sink, Destroy, PushBack,
     StopImpl, Reset, LetGo, ForkedRelease, Pop, PeerCreatesStream, Finished, Next, Caller,
     Call, Thread, Environment, vars, sink, mutexes, call, thread, service, process, round

LEMMA ServiceTypesKept == Types /\ [Next]_vars => ServiceTypes'
<1> SUFFICES ASSUME Types, [Next]_vars PROVE ServiceTypes'
  OBVIOUS
<1>1. Sendable' = Sendable /\ lambda' = lambda
  BY LambdaFixed
<1>2. CASE assert_and_create_log_group
  BY <1>1, <1>2 DEF assert_and_create_log_group, Types, ServiceTypes, vars, sink, mutexes,
     call, thread, service, process, round
<1>3. CASE list_existing_log_streams
  BY <1>1, <1>3, StreamAssumption DEF list_existing_log_streams, Types, ServiceTypes, vars,
     sink, mutexes, call, thread, service, process, round
<1>4. CASE DescribeLogStreams
  BY <1>1, <1>4 DEF DescribeLogStreams, Types, ServiceTypes, ThreadTypes, Sending, vars,
     sink, mutexes, call, thread, service, process, round
<1>5. CASE CreateLogStream
  BY <1>1, <1>5 DEF CreateLogStream, StreamCreated, StreamAlreadyExists, CreateFailed,
     Types, ServiceTypes, ThreadTypes, Sending, vars, sink, mutexes, call, thread, service,
     process, round
<1>6. CASE PutLogEvents
  BY <1>1, <1>6 DEF PutLogEvents, Types, ServiceTypes, RoundTypes, ToStream, Sendable, vars,
     sink, mutexes, call, thread, service, process, round
<1>7. CASE PeerCreatesStream
  BY <1>1, <1>7 DEF PeerCreatesStream, Types, ServiceTypes, vars, sink, mutexes, call,
     thread, service, process, round
<1>8. CASE UNCHANGED <<cache, group, streams, deliveries, failed>>
  BY <1>1, <1>8 DEF Types, ServiceTypes
<1> QED
  BY <1>2, <1>3, <1>4, <1>5, <1>6, <1>7, <1>8 DEF dump, stop, restart_sink, Destroy,
     PushBack, StopImpl, Join, Reset, LetGo, ForkedRelease, Restart, StartThread, TakeBatch,
     LeaveLoop, Flush, Pop, send_logs, EndRound, send_log_events, LockTokens, StoreToken,
     Fork, RacyQueueAccess, Finished, Next, Caller, Call, Thread, Environment, vars, sink,
     mutexes, call, thread, service, process, round

LEMMA HistoryTypesKept == Types /\ [Next]_vars => HistoryTypes'
<1> SUFFICES ASSUME Types, [Next]_vars PROVE HistoryTypes'
  OBVIOUS
<1>1. Sendable' = Sendable /\ lambda' = lambda
  BY LambdaFixed
<1>2. CASE PushBack
  BY <1>1, <1>2 DEF PushBack, Types, HistoryTypes, CallTypes, Sendable, vars, sink, mutexes,
     call, thread, service, process, round
<1>3. CASE Fork
  BY <1>1, <1>3 DEF Fork, Types, HistoryTypes, vars, sink, mutexes, call, thread, service,
     process, round
<1>4. CASE UNCHANGED <<accepted, inherited>>
  BY <1>1, <1>4 DEF Types, HistoryTypes
<1> QED
  BY <1>2, <1>3, <1>4 DEF dump, stop, restart_sink, Destroy, StopImpl, Join, Reset, LetGo,
     ForkedRelease, Restart, StartThread, assert_and_create_log_group,
     list_existing_log_streams, TakeBatch, LeaveLoop, Flush, Pop, send_logs, EndRound,
     send_log_events, DescribeLogStreams, CreateLogStream, StreamCreated,
     StreamAlreadyExists, CreateFailed, PutLogEvents, LockTokens, StoreToken,
     PeerCreatesStream, RacyQueueAccess, Finished, Next, Caller, Call, Thread, Environment,
     vars, sink, mutexes, call, thread, service, process, round

LEMMA RoundTypesKept == Types /\ [Next]_vars => RoundTypes'
<1> SUFFICES ASSUME Types, [Next]_vars PROVE RoundTypes'
  OBVIOUS
<1>1. Sendable' = Sendable /\ lambda' = lambda
  BY LambdaFixed
<1>2. CASE Pop
  <2>1. Head(queue) \in Sendable
    BY <1>2, TailElements DEF Pop, Types, QueueType
  <2>2. /\ IsFiniteSet(fresh') /\ Cardinality(fresh) \in Nat
        /\ Cardinality(fresh') <= Cardinality(fresh) + 1
    <3>1. IsFiniteSet(fresh) /\ fresh' = fresh \cup {Head(queue)}
      BY <1>2 DEF Pop, Types, RoundTypes
    <3>2. Cardinality(fresh) \in Nat
      BY <3>1, FS_CardinalityType
    <3> QED BY <3>1, <3>2, FS_AddElement
  <2>3. Cardinality(fresh') <= Limit
    <3>1. Cardinality(fresh) < Limit /\ Cardinality(fresh') \in Nat
      BY <1>2, <2>2, FS_CardinalityType DEF Pop, HasRoom
    <3> QED BY <2>2, <3>1, LimitAssumption
  <2> QED
    BY <1>1, <1>2, <2>1, <2>2, <2>3 DEF Pop, Types, RoundTypes
<1>3. CASE batch' \subseteq batch /\ fresh' \subseteq fresh
  <2>1. IsFiniteSet(fresh') /\ Cardinality(fresh') <= Cardinality(fresh)
    BY <1>3, FS_Subset DEF Types, RoundTypes
  <2>2. Cardinality(fresh') \in Nat /\ Cardinality(fresh) \in Nat
    BY <2>1, FS_CardinalityType DEF Types, RoundTypes
  <2>3. Cardinality(fresh') <= Limit
    BY <2>1, <2>2, LimitAssumption DEF Types, RoundTypes
  <2> QED
    BY <1>1, <1>3, <2>1, <2>3 DEF Types, RoundTypes
<1> QED
  BY <1>2, <1>3 DEF dump, stop, restart_sink, Destroy, PushBack, StopImpl, Join, Reset,
     LetGo, ForkedRelease, Restart, StartThread, assert_and_create_log_group,
     list_existing_log_streams, TakeBatch, LeaveLoop, Flush, send_logs, EndRound,
     send_log_events, DescribeLogStreams, CreateLogStream, StreamCreated,
     StreamAlreadyExists, CreateFailed, PutLogEvents, LockTokens, StoreToken,
     PeerCreatesStream, Fork, RacyQueueAccess, Finished, BatchAfterRound, Next, Caller,
     Call, Thread, Environment, vars, sink, mutexes, call, thread, service, process, round

LEMMA TypesInductive == Types /\ [Next]_vars => Types'
  BY LambdaFixed, QueueTypeKept, SinkTypesKept, PidTypesKept, MutexTypesKept, CallTypesKept,
     RoundTypesKept, ThreadTypesKept, ServiceTypesKept, HistoryTypesKept DEF Types

-----------------------------------------------------------------------------
(* The positions of the two threads.                                         *)

LEMMA ControlInductive == Types /\ Control /\ [Next]_vars => Control'
<1> SUFFICES ASSUME Types, Control, [Next]_vars PROVE Control'
  OBVIOUS
<1>1. Sendable' = Sendable /\ lambda' = lambda
  BY LambdaFixed
<1>2. CASE \E l \in Logs : dump(l)
  BY <1>1, <1>2 DEF dump, Control, Over, vars, sink, mutexes, call, thread, service,
     process, round
<1>3. CASE \E discard \in BOOLEAN : stop(discard)
  BY <1>1, <1>3 DEF stop, Control, Over, vars, sink, mutexes, call, thread, service,
     process, round
<1>4. CASE restart_sink
  BY <1>1, <1>4 DEF restart_sink, Control, Over, vars, sink, mutexes, call, thread, service,
     process, round
<1>5. CASE Destroy
  BY <1>1, <1>5 DEF Destroy, Control, Over, vars, sink, mutexes, call, thread, service,
     process, round
<1>6. CASE PushBack
  BY <1>1, <1>6 DEF PushBack, Control, Over, vars, sink, mutexes, call, thread, service,
     process, round
<1>7. CASE StopImpl
  BY <1>1, <1>7 DEF StopImpl, Control, Over, JoinNeeded, started_by_current_process, Types,
     CallTypes, vars, sink, mutexes, call, thread, service, process, round
<1>8. CASE Join
  BY <1>1, <1>8 DEF Join, Control, Over, Batching, vars, sink, mutexes, call, thread,
     service, process, round
<1>9. CASE Reset
  BY <1>1, <1>9 DEF Reset, LetGo, Control, Over, Types, CallTypes, vars, sink, mutexes,
     call, thread, service, process, round
<1>10. CASE ForkedRelease
  BY <1>1, <1>10 DEF ForkedRelease, LetGo, Control, Over, fork_reset, Types, CallTypes,
     MutexTypes, Owner, vars, sink, mutexes, call, thread, service, process, round
<1>11. CASE Restart
  BY <1>1, <1>11 DEF Restart, StartThread, Control, Over, Batching, vars, sink, mutexes,
     call, thread, service, process, round
<1>12. CASE assert_and_create_log_group
  BY <1>1, <1>12 DEF assert_and_create_log_group, Control, Over, Batching, vars, sink,
     mutexes, call, thread, service, process, round
<1>13. CASE list_existing_log_streams
  BY <1>1, <1>13 DEF list_existing_log_streams, Control, Over, Batching, vars, sink,
     mutexes, call, thread, service, process, round
<1>14. CASE TakeBatch
  BY <1>1, <1>14 DEF TakeBatch, Control, Over, Batching, vars, sink, mutexes, call, thread,
     service, process, round
<1>15. CASE LeaveLoop
  BY <1>1, <1>15 DEF LeaveLoop, Control, Over, Batching, MoreToFlush, vars, sink, mutexes,
     call, thread, service, process, round
<1>16. CASE Flush
  BY <1>1, <1>16 DEF Flush, Control, Over, Batching, MoreToFlush, vars, sink, mutexes, call,
     thread, service, process, round
<1>17. CASE Pop
  BY <1>1, <1>17 DEF Pop, Control, Over, Batching, vars, sink, mutexes, call, thread,
     service, process, round
<1>18. CASE send_logs
  BY <1>1, <1>18 DEF send_logs, Control, Over, Batching, MoreToFlush, vars, sink, mutexes,
     call, thread, service, process, round
<1>19. CASE EndRound
  BY <1>1, <1>19 DEF EndRound, Control, Over, Batching, MoreToFlush, vars, sink, mutexes,
     call, thread, service, process, round
<1>20. CASE send_log_events
  BY <1>1, <1>20 DEF send_log_events, Control, Over, Batching, vars, sink, mutexes, call,
     thread, service, process, round
<1>21. CASE DescribeLogStreams
  BY <1>1, <1>21 DEF DescribeLogStreams, Control, Over, Batching, vars, sink, mutexes, call,
     thread, service, process, round
<1>22. CASE CreateLogStream
  BY <1>1, <1>22 DEF CreateLogStream, StreamCreated, StreamAlreadyExists, CreateFailed,
     Control, Over, Batching, vars, sink, mutexes, call, thread, service, process, round
<1>23. CASE PutLogEvents
  BY <1>1, <1>23 DEF PutLogEvents, Control, Over, Batching, vars, sink, mutexes, call,
     thread, service, process, round
<1>24. CASE LockTokens
  BY <1>1, <1>24 DEF LockTokens, Control, Over, Batching, vars, sink, mutexes, call, thread,
     service, process, round
<1>25. CASE StoreToken
  BY <1>1, <1>25 DEF StoreToken, Control, Over, Batching, vars, sink, mutexes, call, thread,
     service, process, round
<1>26. CASE PeerCreatesStream
  BY <1>1, <1>26 DEF PeerCreatesStream, Control, Over, vars, sink, mutexes, call, thread,
     service, process, round
<1>27. CASE Fork
  BY <1>1, <1>27 DEF Fork, Control, Over, InheritedMutex, Types, PidTypes, Changing, vars,
     sink, mutexes, call, thread, service, process, round
<1>28. CASE RacyQueueAccess
  BY <1>1, <1>28 DEF RacyQueueAccess, Control, Over, Racing, Batching, vars, sink, mutexes,
     call, thread, service, process, round
<1>29. CASE UNCHANGED <<caller, next, worker, flushing, thread_pid, pid, mutex_pid, handle, client, is_running, queue, logs_mtx, tokens_mtx>>
  BY <1>1, <1>29 DEF Control, Over
<1> QED
  BY <1>2, <1>3, <1>4, <1>5, <1>6, <1>7, <1>8, <1>9, <1>10, <1>11, <1>12, <1>13, <1>14,
     <1>15, <1>16, <1>17, <1>18, <1>19, <1>20, <1>21, <1>22, <1>23, <1>24, <1>25, <1>26,
     <1>27, <1>28, <1>29 DEF Finished, Next, Caller, Call, Thread, Environment, vars, sink,
     mutexes, call, thread, service, process, round

-----------------------------------------------------------------------------
(* What the queue, the batch and the cache contain.                          *)

LEMMA PushedOnceKept == Types /\ PushedOnce /\ [Next]_vars => PushedOnce'
<1> SUFFICES ASSUME Types, PushedOnce, [Next]_vars PROVE PushedOnce'
  OBVIOUS
<1>1. Sendable' = Sendable /\ lambda' = lambda
  BY LambdaFixed
<1>2. CASE \E l \in Logs : dump(l)
  BY <1>1, <1>2 DEF dump, PushedOnce, vars, sink, mutexes, call, thread, service, process,
     round
<1>3. CASE PushBack
  BY <1>1, <1>3 DEF PushBack, PushedOnce, vars, sink, mutexes, call, thread, service,
     process, round
<1>4. CASE \E discard \in BOOLEAN : stop(discard)
  BY <1>1, <1>4 DEF stop, PushedOnce, vars, sink, mutexes, call, thread, service, process,
     round
<1>5. CASE restart_sink
  BY <1>1, <1>5 DEF restart_sink, PushedOnce, vars, sink, mutexes, call, thread, service,
     process, round
<1>6. CASE Destroy
  BY <1>1, <1>6 DEF Destroy, PushedOnce, vars, sink, mutexes, call, thread, service,
     process, round
<1>7. CASE StopImpl
  BY <1>1, <1>7 DEF StopImpl, PushedOnce, Types, CallTypes, vars, sink, mutexes, call,
     thread, service, process, round
<1>8. CASE Join
  BY <1>1, <1>8 DEF Join, PushedOnce, vars, sink, mutexes, call, thread, service, process,
     round
<1>9. CASE Reset
  BY <1>1, <1>9 DEF Reset, LetGo, PushedOnce, Types, CallTypes, vars, sink, mutexes, call,
     thread, service, process, round
<1>10. CASE ForkedRelease
  BY <1>1, <1>10 DEF ForkedRelease, LetGo, PushedOnce, Types, CallTypes, vars, sink,
     mutexes, call, thread, service, process, round
<1>11. CASE Restart
  BY <1>1, <1>11 DEF Restart, StartThread, PushedOnce, vars, sink, mutexes, call, thread,
     service, process, round
<1>12. CASE Fork
  BY <1>1, <1>12 DEF Fork, PushedOnce, Types, HistoryTypes, vars, sink, mutexes, call,
     thread, service, process, round
<1>13. CASE RacyQueueAccess
  BY <1>1, <1>13 DEF RacyQueueAccess, PushedOnce, vars, sink, mutexes, call, thread,
     service, process, round
<1>14. CASE UNCHANGED <<caller, arg, accepted, inherited>>
  BY <1>1, <1>14 DEF PushedOnce
<1> QED
  BY <1>2, <1>3, <1>4, <1>5, <1>6, <1>7, <1>8, <1>9, <1>10, <1>11, <1>12, <1>13, <1>14 DEF
     assert_and_create_log_group, list_existing_log_streams, TakeBatch, LeaveLoop, Flush,
     Pop, send_logs, EndRound, send_log_events, DescribeLogStreams, CreateLogStream,
     StreamCreated, StreamAlreadyExists, CreateFailed, PutLogEvents, LockTokens, StoreToken,
     PeerCreatesStream, Finished, Next, Caller, Call, Thread, Environment, vars, sink,
     mutexes, call, thread, service, process, round

LEMMA CacheSoundKept == Types /\ CacheSound /\ [Next]_vars => CacheSound'
<1> SUFFICES ASSUME Types, CacheSound, [Next]_vars PROVE CacheSound'
  OBVIOUS
<1>1. Sendable' = Sendable /\ lambda' = lambda
  BY LambdaFixed
<1>2. CASE list_existing_log_streams
  BY <1>1, <1>2 DEF list_existing_log_streams, CacheSound, vars, sink, mutexes, call,
     thread, service, process, round
<1>3. CASE DescribeLogStreams
  BY <1>1, <1>3 DEF DescribeLogStreams, CacheSound, vars, sink, mutexes, call, thread,
     service, process, round
<1>4. CASE CreateLogStream
  BY <1>1, <1>4 DEF CreateLogStream, StreamCreated, StreamAlreadyExists, CreateFailed,
     CacheSound, vars, sink, mutexes, call, thread, service, process, round
<1>5. CASE PeerCreatesStream
  BY <1>1, <1>5 DEF PeerCreatesStream, CacheSound, vars, sink, mutexes, call, thread,
     service, process, round
<1>6. CASE UNCHANGED <<lambda, cache, streams>>
  BY <1>1, <1>6 DEF CacheSound
<1> QED
  BY <1>2, <1>3, <1>4, <1>5, <1>6 DEF dump, stop, restart_sink, Destroy, PushBack, StopImpl,
     Join, Reset, LetGo, ForkedRelease, Restart, StartThread, assert_and_create_log_group,
     TakeBatch, LeaveLoop, Flush, Pop, send_logs, EndRound, send_log_events, PutLogEvents,
     LockTokens, StoreToken, Fork, RacyQueueAccess, Finished, Next, Caller, Call, Thread,
     Environment, vars, sink, mutexes, call, thread, service, process, round

LEMMA OwnLogsKept == Types /\ Control /\ PushedOnce /\ OwnLogs /\ [Next]_vars => OwnLogs'
<1> SUFFICES ASSUME Types, Control, PushedOnce, OwnLogs, [Next]_vars PROVE OwnLogs'
  OBVIOUS
<1> USE DEF OwnLogs
<1>1. InQueue = ElementsOf(queue) /\ InQueue' = ElementsOf(queue')
  BY DEF InQueue, ElementsOf
<1>2. CASE PushBack
  <2>1. arg \notin inherited
    BY <1>2 DEF PushBack, PushedOnce
  <2>2. InQueue' = InQueue \cup {arg}
    BY <1>1, <1>2, AppendElements DEF PushBack, Types, QueueType, CallTypes
  <2> QED
    BY <1>2, <2>1, <2>2 DEF PushBack, thread, round, process
<1>3. CASE Pop
  <2>1. InQueue' \subseteq InQueue /\ Head(queue) \in InQueue
    BY <1>1, <1>3, TailElements DEF Pop, Types, QueueType
  <2> QED
    BY <1>3, <2>1 DEF Pop, process
<1>4. CASE Restart
  <2>1. CASE StartThread
    <3>1. InQueue' = {}
      BY <1>1, <1>4 DEF Restart, ClearedQueue, ElementsOf
    <3> QED
      BY <2>1, <3>1 DEF StartThread
  <2>2. CASE UNCHANGED worker
    BY <1>4, <2>2 DEF Restart, Control
  <2> QED
    BY <1>4, <2>1, <2>2 DEF Restart
<1>5. CASE worker' = "absent"
  BY <1>5
<1>6. CASE worker # "absent" /\ batch' \subseteq batch /\ UNCHANGED <<queue, inherited>>
  BY <1>6 DEF InQueue
<1>7. CASE UNCHANGED <<worker, batch, queue, inherited>>
  BY <1>7 DEF InQueue
<1>8. CASE Reset \/ ForkedRelease
  BY <1>5, <1>8 DEF Reset, ForkedRelease, Control, thread, round
<1> QED
  BY <1>2, <1>3, <1>4, <1>5, <1>6, <1>7, <1>8 DEF dump, stop, restart_sink, Destroy,
     StopImpl, Join, assert_and_create_log_group, list_existing_log_streams, TakeBatch,
     LeaveLoop, Flush, send_logs, EndRound, send_log_events, DescribeLogStreams,
     CreateLogStream, StreamCreated, StreamAlreadyExists, CreateFailed, PutLogEvents,
     LockTokens, StoreToken, PeerCreatesStream, Fork, RacyQueueAccess, Finished,
     BatchAfterRound, Next, Caller, Call, Thread, Environment, vars, sink, mutexes, call,
     thread, service, process, round

LEMMA IInvInductive == IInv /\ [Next]_vars => IInv'
  BY TypesInductive, ControlInductive, PushedOnceKept, OwnLogsKept, CacheSoundKept
     DEF IInv, Content

LEMMA InitIInv == Init => IInv
<1> SUFFICES ASSUME Init PROVE IInv
  OBVIOUS
<1>1. Types
  BY InitTypes
<1>2. Control
  BY DEF Init, Control, Over
<1>3. Content
  BY DEF Init, Content, PushedOnce, OwnLogs, CacheSound, InQueue
<1> QED
  BY <1>1, <1>2, <1>3 DEF IInv

-----------------------------------------------------------------------------
(* The theorems.                                                             *)

THEOREM Invariance == Spec => []IInv
<1>1. Init => IInv
  BY InitIInv
<1>2. IInv /\ [Next]_vars => IInv'
  BY IInvInductive
<1> QED
  BY <1>1, <1>2, PTL DEF Spec

(* Every variable keeps its type, and a round never exceeds one request.     *)
THEOREM TypeCorrect == Spec => []TypeOK
<1>1. IInv => TypeOK
  <2> SUFFICES ASSUME IInv PROVE TypeOK
    OBVIOUS
  <2>1. queue \in Seq(Logs)
    <3>1. Sendable \subseteq Logs /\ queue \in Seq(Sendable)
      BY DEF IInv, Types, QueueType, Sendable
    <3> QED BY <3>1
  <2>2. /\ thread_pid \in 0 .. pid /\ mutex_pid \in 0 .. pid
        /\ pid \in 0 .. MaxForks
    BY ForksAssumption DEF IInv, Types, PidTypes
  <2> QED
    BY <2>1, <2>2 DEF IInv, Types, SinkTypes, MutexTypes, CallTypes, RoundTypes,
       ThreadTypes, ServiceTypes, HistoryTypes, TypeOK, Sendable
<1> QED
  BY <1>1, Invariance, PTL

(* A worker that has ended leaves an empty queue, so that stop_impl clears   *)
(* nothing that was accepted.                                                *)
THEOREM FlushIsComplete == Spec => []FlushComplete
<1>1. IInv => FlushComplete
  BY DEF IInv, Control, FlushComplete
<1> QED
  BY <1>1, Invariance, PTL

(* stop_impl and the destructor never take the thread object, the client or  *)
(* the sink away from a live worker, in whatever order calls and forks come. *)
THEOREM WorkerIsOwned == Spec => []WorkerOwnsLiveSink
<1>1. IInv => WorkerOwnsLiveSink
  BY DEF IInv, Control, WorkerOwnsLiveSink, Over
<1> QED
  BY <1>1, Invariance, PTL

(* No worker, of whichever generation of processes, waits for a mutex that   *)
(* died locked with its owner.                                               *)
THEOREM LocksAreAlive == Spec => []NoOrphanLock
<1>1. IInv => NoOrphanLock
  BY DEF IInv, Control, NoOrphanLock
<1> QED
  BY <1>1, Invariance, PTL

(* The cache of stream names never claims a stream the service lacks.        *)
THEOREM CacheIsSound == Spec => []CachedStreamsExist
<1>1. IInv => CachedStreamsExist
  BY DEF IInv, Content, CacheSound, CachedStreamsExist
<1> QED
  BY <1>1, Invariance, PTL

(* The logs accepted before a fork are left to the parent.                   *)
THEOREM ChildrenSendTheirOwn == Spec => ChildNeverResends
<1>1. IInv /\ [Next]_vars => [\A l \in inherited : deliveries'[l] = deliveries[l]]_vars
  <2> SUFFICES ASSUME IInv, Next, NEW l \in inherited
               PROVE  deliveries'[l] = deliveries[l]
    BY DEF vars
  <2>1. CASE PutLogEvents
    <3>1. l \notin ToStream(cur) /\ l \in Logs
      BY <2>1 DEF PutLogEvents, ToStream, IInv, Content, OwnLogs, Types, HistoryTypes
    <3> QED
      BY <2>1, <3>1 DEF PutLogEvents, IInv, Types, ServiceTypes
  <2>2. CASE UNCHANGED deliveries
    BY <2>2
  <2> QED
    BY <2>1, <2>2 DEF dump, stop, restart_sink, Destroy, PushBack, StopImpl, Join, Reset,
       LetGo, ForkedRelease, Restart, StartThread, assert_and_create_log_group,
       list_existing_log_streams, TakeBatch, LeaveLoop, Flush, Pop, send_logs, EndRound,
       send_log_events, DescribeLogStreams, CreateLogStream, StreamCreated,
       StreamAlreadyExists, CreateFailed, LockTokens, StoreToken, PeerCreatesStream, Fork,
       RacyQueueAccess, Finished, Next, Caller, Call, Thread, Environment, vars, sink,
       mutexes, call, thread, service, process, round
<1> QED
  BY <1>1, Invariance, PTL DEF Spec, ChildNeverResends
=============================================================================

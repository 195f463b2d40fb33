--------------------------- MODULE CloudWatchSink ---------------------------
(***************************************************************************)
(* The CloudWatch sink (src/src/aws/cloudwatch-sink.cpp) of one process:   *)
(*                                                                         *)
(*   - a caller, i.e. the thread that is inside dump, stop, restart_sink   *)
(*     or the destructor.  Manager::sinks_mutex_ serialises these calls,   *)
(*     so there is one caller at a time (module LogManager models the      *)
(*     mutex itself);                                                      *)
(*   - the worker, i.e. cloudwatch_logs_thread, which drains logs_queue_   *)
(*     in batches and talks to the CloudWatch service;                     *)
(*   - the service, reduced to the log group, its streams and the log      *)
(*     events it has stored;                                               *)
(*   - fork(2): the specification follows the child, where the worker no   *)
(*     longer exists and the mutexes it held stay locked for ever.         *)
(*                                                                         *)
(* dump appends to logs_queue_ without logs_mtx_.  An append that overlaps *)
(* the worker's accesses is undefined behaviour: it is either serialised   *)
(* or corrupts the process, of which nothing is claimed any more.          *)
(***************************************************************************)
EXTENDS Naturals, Sequences, FiniteSets

CONSTANTS Logs,       \* the Log objects handed to dump, each at most once
          Streams,    \* log stream names
          NoStream,   \* the empty log stream name
          NoLog,      \* the caller is not in dump
          StreamOf,   \* log_stream_name of every log, without the lambda override
          LambdaStream, \* AWS_LAMBDA_LOG_STREAM_NAME
          Limit,      \* AWS_LOGS_PER_REQUEST_LIMIT
          MaxForks    \* bound: number of fork(2) calls followed

ASSUME LogsAssumption   == NoLog \notin Logs
ASSUME StreamAssumption == /\ NoStream \notin Streams
                           /\ LambdaStream \in Streams
                           /\ StreamOf \in [Logs -> Streams \cup {NoStream}]
ASSUME LimitAssumption  == Limit \in Nat \ {0}
ASSUME ForksAssumption  == MaxForks \in Nat

VARIABLES
    lambda,         \* using_aws_lambda_logging(): the environment of the process
    queue,          \* logs_queue_
    is_running, is_discarding,
    thread_pid,     \* thread_pid_: the process that started the worker
    mutex_pid,      \* ForkSafeMutex::mutex_pid_ of logs_mtx_ and sequence_tokens_mtx_
    handle,         \* cloudwatch_logs_thread_ holds a thread object
    client,         \* aws_cloudwatch_client_ holds a client
    cache,          \* existing_log_streams_
    logs_mtx, tokens_mtx,                 \* who holds logs_mtx_, sequence_tokens_mtx_
    caller, arg, next,                    \* the caller's position, its log, what follows stop_impl
    worker, flushing,                     \* the worker's position and loop
    batch,          \* the multiset `logs` of the worker
    fresh,          \* the logs of this round, popped and not yet passed to PutLogEvents
    pending, cur,   \* streams of log_events_map still to send, the one being sent
    pid,            \* getpid(), as the number of forks
    group, streams, deliveries,           \* the service: its group, streams, stored copies of a log
    failed,         \* logs of a failed PutLogEvents, reported on stderr
    accepted,       \* logs pushed on the queue by this process or an ancestor
    inherited       \* logs that were accepted before the last fork

sink    == <<queue, is_running, is_discarding, thread_pid, mutex_pid, handle, client>>
mutexes == <<logs_mtx, tokens_mtx>>
call    == <<caller, arg, next>>
round   == <<batch, fresh, pending, cur, cache>>
thread  == <<worker, flushing, round>>
service == <<group, streams, deliveries, failed>>
process == <<lambda, pid, inherited, accepted>>
vars    == <<sink, mutexes, call, thread, service, process>>

CallerPC == {"idle", "push", "stop", "join", "reset", "release", "restart", "gone", "corrupt"}
WorkerPC == {"absent", "group", "list", "wait", "flush", "drain", "send",
             "describe", "create", "put", "token", "store", "done"}
Owner    == {"free", "worker", "orphan"}

(* log_stream_name *)
StreamName(l) == IF lambda THEN LambdaStream ELSE StreamOf[l]

InQueue  == {queue[i] : i \in 1 .. Len(queue)}
ToStream(s) == {l \in batch : StreamName(l) = s}

started_by_current_process == thread_pid = pid
Forked == pid > 0

Init ==
    /\ queue = <<>> /\ is_running = TRUE /\ is_discarding = FALSE
    /\ thread_pid = 0 /\ mutex_pid = 0 /\ handle = TRUE /\ client = TRUE
    /\ logs_mtx = "free" /\ tokens_mtx = "free"
    /\ caller = "idle" /\ arg = NoLog /\ next = "idle"
    /\ worker = "group" /\ flushing = FALSE /\ batch = {} /\ fresh = {}
    /\ pending = {} /\ cur = NoStream /\ cache = {}
    /\ group \in BOOLEAN
    /\ streams \in SUBSET Streams
    /\ streams # {} => group
    /\ lambda \in BOOLEAN
    /\ lambda => LambdaStream \in streams
    /\ deliveries = [l \in Logs |-> 0] /\ failed = {} /\ accepted = {}
    /\ pid = 0 /\ inherited = {}

-----------------------------------------------------------------------------
(* The caller: dump.  A log is dropped without trace when the sink is not    *)
(* running or its stream name is empty.                                      *)

dump(l) ==
    /\ caller = "idle" /\ is_running
    /\ l \notin accepted /\ StreamName(l) # NoStream
    /\ caller' = "push" /\ arg' = l
    /\ UNCHANGED <<sink, mutexes, next, thread, service, process>>

PushBack ==
    /\ caller = "push"
    /\ queue' = Append(queue, arg) /\ accepted' = accepted \cup {arg}
    /\ caller' = "idle" /\ arg' = NoLog
    /\ UNCHANGED <<is_running, is_discarding, thread_pid, mutex_pid, handle, client, mutexes,
                   next, thread, service, lambda, pid, inherited>>

(* The append and the worker's accesses to the deque share no mutex.         *)
Racing == caller = "push" /\ worker = "drain"

RacyQueueAccess ==
    /\ Racing
    /\ caller' = "corrupt" /\ worker' = "absent"
    /\ UNCHANGED <<sink, mutexes, arg, next, flushing, round, service, process>>

-----------------------------------------------------------------------------
(* The caller: Sink::stop, restart_sink, the destructor and stop_impl.       *)

stop(discard) ==
    /\ caller = "idle"
    /\ is_discarding' = discard
    /\ caller' = "stop" /\ next' = "idle"
    /\ UNCHANGED <<queue, is_running, thread_pid, mutex_pid, handle, client, arg, mutexes,
                   thread, service, process>>

(* restart_sink refuses a sink that is not running.                          *)
restart_sink ==
    /\ caller = "idle" /\ is_running
    /\ caller' = "stop" /\ next' = "restart"
    /\ UNCHANGED <<sink, arg, mutexes, thread, service, process>>

Destroy ==
    /\ caller = "idle"
    /\ caller' = "stop" /\ next' = "gone"
    /\ UNCHANGED <<sink, arg, mutexes, thread, service, process>>

(* Mutant: stop_impl does not wait for the worker.                           *)
NeverJoins == FALSE

JoinNeeded == handle

StopImpl ==
    /\ caller = "stop"
    /\ IF is_running
       THEN /\ is_running' = FALSE
            /\ caller' = IF ~started_by_current_process THEN "release"
                         ELSE IF JoinNeeded THEN "join" ELSE "reset"
       ELSE /\ caller' = next
            /\ UNCHANGED is_running
    /\ UNCHANGED <<queue, is_discarding, thread_pid, mutex_pid, handle, client, arg, next,
                   mutexes, thread, service, process>>

Join ==
    /\ caller = "join" /\ worker = "done"
    /\ worker' = "absent" /\ caller' = "reset"
    /\ UNCHANGED <<sink, arg, next, mutexes, flushing, round, service, process>>

(* Mutant: the queue is not cleared.                                         *)
KeptQueue == queue

ClearedQueue == <<>>

(* Both pointers are reset and the queue is cleared.                         *)
LetGo ==
    /\ handle' = FALSE /\ client' = FALSE /\ queue' = ClearedQueue
    /\ caller' = next

Reset ==
    /\ caller = "reset"
    /\ LetGo
    /\ UNCHANGED <<is_running, is_discarding, thread_pid, mutex_pid, arg, next, mutexes,
                   thread, service, process>>

(* Mutant: the mutexes of the parent are kept.                               *)
KeepsMutex(m) == m

(* ForkSafeMutex::fork_reset: in the process of the last reset it is a       *)
(* no-op, otherwise a mutex that cannot be locked is replaced.               *)
fork_reset(m) == IF mutex_pid = pid \/ m = "free" THEN m ELSE "free"

(* stop_impl in a forked process releases both pointers without destroying   *)
(* what they hold.                                                           *)
ForkedRelease ==
    /\ caller = "release"
    /\ LetGo
    /\ logs_mtx' = fork_reset(logs_mtx) /\ tokens_mtx' = fork_reset(tokens_mtx)
    /\ mutex_pid' = pid
    /\ UNCHANGED <<is_running, is_discarding, thread_pid, arg, next, thread, service, process>>

StartThread ==
    /\ handle' = TRUE
    /\ worker' = "group" /\ flushing' = FALSE /\ batch' = {} /\ fresh' = {}
    /\ pending' = {} /\ cur' = NoStream

(* The tail of restart_sink.  The client or the thread may fail to be        *)
(* created; the exception is swallowed with is_running_ already set.         *)
Restart ==
    /\ caller = "restart"
    /\ queue' = ClearedQueue /\ is_running' = TRUE /\ thread_pid' = pid
    /\ \/ client' = TRUE /\ StartThread
       \/ client' \in BOOLEAN /\ UNCHANGED <<handle, worker, flushing, batch, fresh, pending, cur>>
    /\ caller' = "idle" /\ next' = "idle"
    /\ UNCHANGED <<is_discarding, mutex_pid, arg, cache, mutexes, service, process>>

-----------------------------------------------------------------------------
(* The worker: start-up.                                                     *)

(* A failed DescribeLogGroups or CreateLogGroup is reported and the thread   *)
(* goes on without a group.                                                  *)
assert_and_create_log_group ==
    /\ worker = "group"
    /\ group' \in (IF lambda THEN {group} ELSE {group, TRUE})
    /\ worker' = "list"
    /\ UNCHANGED <<sink, mutexes, call, flushing, round, streams, deliveries, failed, process>>

(* One page of the streams, none when the call fails.                        *)
list_existing_log_streams ==
    /\ worker = "list"
    /\ cache' \in (IF lambda THEN {{LambdaStream}} ELSE SUBSET streams)
    /\ worker' = "wait"
    /\ UNCHANGED <<sink, mutexes, call, flushing, batch, fresh, pending, cur, service, process>>

-----------------------------------------------------------------------------
(* The worker: the loop while the sink runs, and the flush after it.         *)

(* Mutant: the wait has no timeout.                                          *)
WakesOnFullBatch == Len(queue) >= Limit \/ ~is_running

(* wait_for gives up after THREAD_WAIT_DURATION, so any non-empty queue will *)
(* do; nothing ever notifies logs_cond_.                                     *)
WakeUp == queue # <<>>

TakeBatch ==
    /\ worker = "wait" /\ is_running /\ logs_mtx = "free"
    /\ WakeUp
    /\ logs_mtx' = "worker" /\ worker' = "drain"
    /\ UNCHANGED <<sink, tokens_mtx, call, flushing, round, service, process>>

LeaveLoop ==
    /\ worker = "wait" /\ ~is_running
    /\ worker' = "flush"
    /\ UNCHANGED <<sink, mutexes, call, flushing, round, service, process>>

Flush ==
    /\ worker = "flush" /\ logs_mtx = "free"
    /\ IF queue = <<>> THEN /\ worker' = "done"
                            /\ UNCHANGED <<logs_mtx, flushing>>
                       ELSE /\ worker' = "drain"
                            /\ logs_mtx' = "worker" /\ flushing' = TRUE
    /\ UNCHANGED <<sink, tokens_mtx, call, round, service, process>>

(* Mutant: the loop over a round runs once too often.                        *)
HasRoomInclusive == Cardinality(fresh) <= Limit

HasRoom == Cardinality(fresh) < Limit

Pop ==
    /\ worker = "drain" /\ HasRoom /\ queue # <<>>
    /\ queue' = Tail(queue)
    /\ batch' = batch \cup {Head(queue)} /\ fresh' = fresh \cup {Head(queue)}
    /\ UNCHANGED <<is_running, is_discarding, thread_pid, mutex_pid, handle, client, mutexes,
                   call, worker, flushing, pending, cur, cache, service, process>>

(* Mutant: a sink that stops drops its batch too.                            *)
DiscardsOnStop == is_discarding \/ ~is_running

(* send_logs: a discarding sink drops the batch.                             *)
Discards == is_discarding

send_logs ==
    /\ worker = "drain" /\ (~HasRoom \/ queue = <<>>)
    /\ worker' = "send"
    /\ IF Discards THEN /\ fresh' = {} /\ UNCHANGED pending
                   ELSE /\ pending' = {StreamName(l) : l \in batch} /\ UNCHANGED fresh
    /\ UNCHANGED <<sink, mutexes, call, flushing, batch, cur, cache, service, process>>

(* Mutant: the multiset of the loop outlives the iteration.                  *)
BatchOfThread == batch

(* The multiset of the loop ends with the iteration; the one of the flush    *)
(* lives on, with what was sent, until the queue is empty.                   *)
BatchAfterRound == IF flushing THEN batch ELSE {}
(* Mutant: the flush sends a single round.                                   *)
FlushesOneRound == FALSE

(* Mutant: the flush goes on until the service has taken every log.          *)
FlushesUntilDelivered == queue # <<>> \/ \E l \in batch : deliveries[l] = 0

MoreToFlush == queue # <<>>

EndRound ==
    /\ worker = "send" /\ pending = {}
    /\ IF flushing /\ MoreToFlush
       THEN /\ worker' = "drain" /\ batch' = BatchAfterRound
            /\ UNCHANGED <<logs_mtx, flushing>>
       ELSE /\ worker' = IF flushing THEN "done" ELSE "wait"
            /\ batch' = IF flushing THEN {} ELSE BatchAfterRound
            /\ logs_mtx' = "free" /\ flushing' = FALSE
    /\ UNCHANGED <<sink, tokens_mtx, call, fresh, pending, cur, cache, service, process>>

-----------------------------------------------------------------------------
(* The worker: send_log_events, once per stream of log_events_map.           *)

send_log_events ==
    /\ worker = "send"
    /\ \E s \in pending :
         /\ cur' = s
         /\ worker' = IF lambda \/ s \in cache THEN "put" ELSE "describe"
    /\ UNCHANGED <<sink, mutexes, call, flushing, batch, fresh, pending, cache, service,
                   process>>

(* assert_and_create_log_stream: the describe call may fail or miss.         *)
DescribeLogStreams ==
    /\ worker = "describe"
    /\ \/ cur \in streams /\ cache' = cache \cup {cur} /\ worker' = "put"
       \/ worker' = "create" /\ UNCHANGED cache
    /\ UNCHANGED <<sink, mutexes, call, flushing, batch, fresh, pending, cur, service, process>>

(* The three outcomes of CreateLogStream.                                    *)
StreamCreated == /\ group /\ cur \notin streams
                 /\ streams' = streams \cup {cur} /\ cache' = cache \cup {cur}
StreamAlreadyExists == /\ cur \in streams
                       /\ cache' = cache \cup {cur} /\ UNCHANGED streams
(* Mutant: a stream is cached whatever the error was.                        *)
CachesFailed == cache' = cache \cup {cur} /\ UNCHANGED streams

CreateFailed == UNCHANGED <<streams, cache>>

CreateLogStream ==
    /\ worker = "create"
    /\ StreamCreated \/ StreamAlreadyExists \/ CreateFailed
    /\ worker' = "put"
    /\ UNCHANGED <<sink, mutexes, call, flushing, batch, fresh, pending, cur, group,
                   deliveries, failed, process>>

(* The service stores events only in a stream that exists, and may refuse    *)
(* any request.  Only a non-empty next token is recorded.                    *)
PutLogEvents ==
    /\ worker = "put"
    /\ \/ /\ cur \in streams
          /\ deliveries' = [l \in Logs |-> deliveries[l] + (IF l \in ToStream(cur) THEN 1 ELSE 0)]
          /\ worker' \in {"token", "send"}
          /\ UNCHANGED failed
       \/ /\ failed' = failed \cup ToStream(cur)
          /\ worker' = "send"
          /\ UNCHANGED deliveries
    /\ fresh' = fresh \ ToStream(cur) /\ pending' = pending \ {cur} /\ cur' = NoStream
    /\ UNCHANGED <<sink, mutexes, call, flushing, batch, cache, group, streams, process>>

LockTokens ==
    /\ worker = "token" /\ tokens_mtx = "free"
    /\ tokens_mtx' = "worker" /\ worker' = "store"
    /\ UNCHANGED <<sink, logs_mtx, call, flushing, round, service, process>>

StoreToken ==
    /\ worker = "store"
    /\ tokens_mtx' = "free" /\ worker' = "send"
    /\ UNCHANGED <<sink, logs_mtx, call, flushing, round, service, process>>

-----------------------------------------------------------------------------
(* The environment.                                                          *)

(* Another process, such as the parent of a fork, creates a stream.          *)
PeerCreatesStream ==
    /\ \E s \in Streams \ streams : streams' = streams \cup {s}
    /\ group' = TRUE
    /\ UNCHANGED <<sink, mutexes, call, thread, deliveries, failed, process>>

InheritedMutex(m) == IF m = "worker" THEN "orphan" ELSE m

Over == caller \in {"gone", "corrupt"}
Changing == caller = "push" \/ worker = "drain"

(* Any thread may call fork(2) while another one is in the sink: the child   *)
(* has neither that thread nor the worker, but their memory.  A deque that   *)
(* was being changed may be torn.                                            *)
Fork ==
    /\ pid < MaxForks /\ ~Over
    /\ pid' = pid + 1 /\ inherited' = accepted
    /\ caller' \in {"idle"} \cup (IF Changing THEN {"corrupt"} ELSE {})
    /\ arg' = NoLog /\ next' = "idle"
    /\ logs_mtx' = InheritedMutex(logs_mtx) /\ tokens_mtx' = InheritedMutex(tokens_mtx)
    /\ worker' = "absent" /\ flushing' = FALSE /\ batch' = {} /\ fresh' = {}
    /\ pending' = {} /\ cur' = NoStream
    /\ UNCHANGED <<sink, cache, service, accepted, lambda>>

Finished == Over /\ UNCHANGED vars

Caller == \/ \E l \in Logs : dump(l)
          \/ \E discard \in BOOLEAN : stop(discard)
          \/ restart_sink \/ Destroy
Call == PushBack \/ StopImpl \/ Join \/ Reset \/ ForkedRelease \/ Restart
Thread == \/ assert_and_create_log_group \/ list_existing_log_streams
          \/ TakeBatch \/ LeaveLoop \/ Flush \/ Pop \/ send_logs \/ EndRound
          \/ send_log_events \/ DescribeLogStreams \/ CreateLogStream
          \/ PutLogEvents \/ LockTokens \/ StoreToken
Environment == PeerCreatesStream \/ Fork

Next == Caller \/ Call \/ Thread \/ Environment \/ RacyQueueAccess \/ Finished

Spec == Init /\ [][Next]_vars

(* A call that was begun is carried on by its thread, and the worker is      *)
(* scheduled: its waits time out and the service calls return.  Nothing      *)
(* obliges anyone to begin a call, to fork or to create a stream.            *)
Fairness == WF_vars(Call) /\ WF_vars(Thread)

FairSpec == Spec /\ Fairness

-----------------------------------------------------------------------------
(* Properties                                                                *)

(* Every variable has its type; a round never pops more than one request may *)
(* carry (the bound of the for loops in cloudwatch_logs_thread).             *)
TypeOK ==
    /\ lambda \in BOOLEAN /\ queue \in Seq(Logs)
    /\ is_running \in BOOLEAN /\ is_discarding \in BOOLEAN
    /\ thread_pid \in 0 .. pid /\ mutex_pid \in 0 .. pid
    /\ handle \in BOOLEAN /\ client \in BOOLEAN
    /\ logs_mtx \in Owner /\ tokens_mtx \in Owner
    /\ caller \in CallerPC /\ arg \in Logs \cup {NoLog} /\ next \in {"idle", "restart", "gone"}
    /\ worker \in WorkerPC /\ flushing \in BOOLEAN
    /\ batch \in SUBSET Logs /\ fresh \in SUBSET Logs /\ Cardinality(fresh) <= Limit
    /\ pending \in SUBSET Streams /\ cur \in Streams \cup {NoStream} /\ cache \in SUBSET Streams
    /\ group \in BOOLEAN /\ streams \in SUBSET Streams
    /\ deliveries \in [Logs -> Nat] /\ failed \in SUBSET Logs
    /\ accepted \in SUBSET Logs /\ inherited \in SUBSET Logs
    /\ pid \in 0 .. MaxForks

(* When the worker has ended, the flush has emptied the queue: stop_impl     *)
(* clears only an empty queue after join, whatever was dumped before.        *)
FlushComplete == worker = "done" => queue = <<>>

(* A live worker has its thread object and a client for as long as it runs,  *)
(* and the sink is not destroyed under it: stop_impl joins first.            *)
WorkerOwnsLiveSink == worker # "absent" => handle /\ client /\ caller # "gone"

(* A worker never meets a mutex that a thread of an ancestor process holds:  *)
(* restart_sink replaces those before it starts a thread in the child.       *)
NoOrphanLock == worker # "absent" => logs_mtx # "orphan" /\ tokens_mtx # "orphan"

(* existing_log_streams_ names only streams the service has, although other  *)
(* processes create them too: a cached stream is never created by the sink.  *)
CachedStreamsExist == cache \subseteq streams

Resent(l) == deliveries[l] > 0 /\ deliveries'[l] > deliveries[l]

(* The loop sends no log twice: every iteration has a multiset of its own.   *)
LoopSendsOnce == [][\A l \in Logs : Resent(l) => flushing]_vars

(* A child never sends a log that was accepted before the fork, which is the *)
(* parent's to send: the inherited queue is cleared before a worker starts.  *)
ChildNeverResends == [][\A l \in inherited : deliveries'[l] = deliveries[l]]_vars

(* What the sink does is what EventDelivery promises.                        *)
Held == InQueue \cup fresh
served == handle /\ started_by_current_process
StatusOf(l) == IF l \notin accepted THEN "new"
               ELSE IF deliveries[l] > 0 THEN "delivered"
               ELSE IF l \in failed THEN "failed"
               ELSE IF l \in Held THEN "held" ELSE "dropped"

Delivery == INSTANCE EventDelivery WITH
                status <- [l \in Logs |-> StatusOf(l)],
                discarding <- is_discarding

(* No accepted log disappears: it is sent, reported, or dropped by a discard *)
(* or in a process whose own thread does not serve the sink; a stop in the   *)
(* process that started the worker leaves nothing behind.                    *)
ImplementsDelivery == Delivery!Spec

(* Every call returns: the join waits for a worker that does see             *)
(* is_running_ = false and whose flush ends.                                 *)
StopReturns == (caller # "idle" /\ ~Over) ~> (caller = "idle" \/ Over)

(* A log on the queue of a worker leaves it, although nobody notifies        *)
(* logs_cond_ and the queue may never reach a full batch.                    *)
QueueDrains == \A l \in Logs : (l \in InQueue /\ worker # "absent")
                                   ~> (l \notin InQueue \/ worker = "absent")

(* cloudwatch-sink.cpp:264 "Send the remainder logs": once each.             *)
SentOnce == \A l \in Logs : deliveries[l] <= 1

(* manager.hpp:49 "allow thread safe usage on the 'dump' method": an append  *)
(* never overlaps the worker's accesses to logs_queue_.                      *)
NoDataRace == ~Racing

(* cloudwatch-sink.cpp:490: in a forked process the thread object and the    *)
(* client are released, so that the destructor does not reset() them.        *)
ForkedReleases == caller = "gone" /\ Forked /\ ~started_by_current_process
                      => ~handle /\ ~client
=============================================================================

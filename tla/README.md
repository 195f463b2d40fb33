# Formal verification of octo-logger-cpp

TLA+ models of octo-logger-cpp, TLC configurations that check them on small
instances, and TLAPS proofs of every safety property and refinement that holds,
for all values of the constants. `PROJECT.json` maps every
definition to the source lines it models and lists the runs, the mutants, the
findings, the hazards and the theorems.

## The system

An application logs through a `Logger`, which belongs to a `Channel`; a `Log` is
a temporary object whose destructor hands it to the singleton `Manager`, and the
manager hands it to every registered `Sink`.

| part | source | state | operations |
|---|---|---|---|
| Manager | `src/manager.cpp` | `manager_`, `sinks_`, `config_`, `channels_`, default level, global context, three mutexes | `instance`, `reset_manager`, `configure`, `terminate`, `stop`, `restart_sinks`, `dump`, `clear_sinks`, `child_on_fork`, levels, channels, context |
| CloudWatch sink | `src/aws/cloudwatch-sink.cpp` | queue, `is_running_`, thread object, client, stream cache, tokens, two mutexes | `dump`, `stop_impl`, `restart_sink`, destructor, `cloudwatch_logs_thread` |
| ForkSafeMutex | `src/fork-safe-mutex.cpp` | a mutex and the process of its last reset | lock, unlock, `fork_reset` |
| File sink | `src/sinks/file-sink.cpp` | open file and index per channel, the directory | `dump`, `switch_stream` |
| Channels, levels | `channel.hpp`, `log-level.hpp`, `log.cpp`, `logger.cpp` | the level of every channel | `set_log_level`, `mute_channel`, the gate in `Log` |
| ContextInfo | `context-info.cpp` | key/value map, `string_view` keys | `update`, `erase`, precedence in a record |
| AwsLogSystem | `aws/aws-log-system.cpp` | a logger, the allowed tags | `GetLogLevel`, `SetLogLevel`, `LogStream`, `Log`, `vaLog`: the AWS SDK logs through the Manager |
| compat | `compat.cpp` | none | `gmtime_safe_internal` |
| Sink | `src/sink.cpp` | line format, `error_logged` | `formatted_log`, plain text and JSON |
| Console, JSON, syslog sinks | `sinks/*.cpp` | the color of the terminal | `dump` |
| configuration | `manager-config.cpp`, `sink-config.cpp`, `config-utils.hpp`, `sink-factory.cpp` | option maps, lists of sinks, the level option | `set_option`, `add_sink`, `remove_sink`, ..., read by the constructors of the sinks |

How they interact:

- Calls into a sink (`dump`, `stop`, `restart_sink`) are made under
  `Manager::sinks_mutex_`, so that a sink sees one caller at a time. The
  CloudWatch sink adds a thread of its own that is not under that mutex: the two
  share `logs_queue_`, `is_running_`, `is_discarding_` and the client.
- A sink is kept alive by shared pointers: of `sinks_`, of the configuration for
  custom sinks, and of the application. Whoever drops the last one runs the
  destructor, which joins the worker.
- The worker calls the AWS SDK, and the SDK may log through `AwsLogSystem`, which
  is a `Logger` of the same `Manager`. The SDK asks `GetLogLevel` before it makes a
  message, and `LogStream` decides by tag what of the message may be shown.
- A configuration is copied: `add_sink` copies a `SinkConfig`, `configure` copies
  the `ManagerConfig` and makes its sinks. Options are texts on the way.
- `fork(2)` copies all of this without the other threads: locks stay locked,
  the worker is gone, its thread object is still there.

What is hard here: the worker racing the caller on the queue; an orderly stop
that must lose nothing, racing late logs; fork at any point of either thread;
partial failures of AWS calls and a cache of what AWS has; nobody notifying the
condition variable; mutexes held across a join; lifetimes of sinks over
reconfiguration; the names, indices and limits of the file sink over rotations
and restarts; a calendar written by hand; the levels of channels; options that come back from
their texts as something else; one log written in three formats by different
code, some of which fails for texts that are not UTF-8; a level that changes
between the question of the SDK and the message. `PROJECT.json` "hazards" gives
each its line.

## Modules

| module | models |
|---|---|
| `CloudWatchSink` | the CloudWatch sink: caller, worker, service, fork |
| `EventDelivery` | what a sink with a sending thread promises; implemented by `CloudWatchSink` |
| `CloudWatchSinkProofs` | the inductive invariant of `CloudWatchSink` and its safety properties |
| `CloudWatchDeliveryProofs` | what becomes of its logs: `LoopSendsOnce` and the refinement of `EventDelivery` |
| `MCCloudWatchSink` | instances for TLC |
| `LogManager` | the Manager under threads, mutexes, sink lifetimes, fork, and the composition with the CloudWatch sink's worker |
| `SinkLifecycle` | the life of a sink with a thread; implemented by `LogManager` |
| `LogManagerProofs` | the safety of `LogManager` and the refinement of `SinkLifecycle` |
| `MCLogManager` | instances for TLC |
| `Logging` | loggers, logs, channels, levels (of `LevelNames`) and contexts |
| `LoggingProofs` | the safety of `Logging` |
| `MCLogging` | instances for TLC |
| `FileSink` | the file sink over several lives of the process: rotation, limit, listing, failing streams |
| `RecordLog` | what a sink that keeps its records promises; implemented by `FileSink` |
| `FileSinkProofs` | the safety of `FileSink` and the refinement of `RecordLog` |
| `MCFileSink` | instances for TLC |
| `CompatTime` | `gmtime_safe_internal` against the Gregorian calendar |
| `CompatTimeProofs` | the dates of `gmtime_safe` |
| `MCCompatTime` | instances for TLC |
| `LevelNames` | levels, their names, and their counterparts in the AWS SDK |
| `Configuration` | `SinkConfig`, `ConfigUtils`, `ManagerConfig`, `SinkFactory`, the constructors of the sinks |
| `Records` | what `Sink` and its subclasses write of a log |
| `SdkMessages` | what `AwsLogSystem` makes of a message of the SDK |
| `Output` | the composition of these four: from configurations, logs and SDK calls to lines |
| `SdkLogProofs` | induction on numbers, and what becomes of messages of the SDK in `Output` |
| `OutputProofs` | options, formats, colors and complaints in `Output`; extends `SdkLogProofs` |
| `MCOutput` | an instance for TLC |

### CloudWatchSink

Variables carry the names of the members (`queue` is `logs_queue_`, `cache` is
`existing_log_streams_`, `handle` and `client` say whether the two unique
pointers hold something). `caller` is the position of the thread inside the
sink, `worker` the position of `cloudwatch_logs_thread`; one step of either is
the code between two points at which the other, the service or a fork can make a
difference. `is_running_` is read and written by single steps, because it is an
atomic that the two threads share; `dump` is two steps (the check, then the
append); `stop_impl` is up to three (clear the flag, join, reset).

The service is reduced to the existence of the group and of the streams and to
the number of copies of every log it has stored. Every call may fail; a call
that depends on the service's state (`CreateLogStream`, `PutLogEvents`) succeeds
only where it can. Another process may create streams at any time.

`dump` appends without `logs_mtx_`. An append that overlaps the worker's pops is
undefined behaviour, modelled as a choice between a serialised append and a
process of which nothing is claimed any more (`caller = "corrupt"`).

`Fork` follows the child: locks of the worker become `"orphan"`, the worker is
absent, the caller is idle, as the forking thread is outside of the sink. The
child keeps its inherited `queue`, `handle`, `client` and `is_running`.

The multiset of the worker is a set, `batch`, since a log is dumped once; what is
new in a round is `fresh`. `BatchAfterRound` keeps the difference the code makes
between the loop, whose multiset ends with the iteration, and the flush, whose
multiset does not.

### EventDelivery

A log is new, held, delivered, failed or dropped. It is dropped only by a sink
that was told to discard, or in a process whose own thread does not serve it;
serving stops only with nothing held. `CloudWatchSink` implements this under the
mapping `StatusOf`, `is_discarding`, `served`: no accepted log vanishes, and an
orderly stop leaves none behind. The logs of a corrupt process keep the status they
had.

### LogManager

Every call is a sequence of steps that lock, unlock or do something
(`Configure`, `Stop`, `Dump`, ...), and `todo[t]` is what thread t has left.
`owner` gives the three mutexes. One CloudWatch sink is a custom sink of the
configuration "cloud" and is kept alive by `sinks`, by `config` and by the
application (`Held`); a step that drops the last reference continues with the
destructor, under whatever mutexes its thread holds. `stop_impl` is here the
flag, the join and what follows; everything else of the sink is in
`CloudWatchSink`, whose single caller is justified by `sinks_mutex_` here.
`configure` appends to `sinks_` under the wrong mutex and writes `config_` under
none; an overlap with another access is undefined behaviour (`RacyAccess`).

### SinkLifecycle

A sink runs, is stopping (its thread was told to end and is being joined), is
stopped, or is destroyed; a child inherits it without its thread. It may be
registered and unregistered meanwhile. `LogManager` implements this under the
mapping `Phase` and "`cw` is in `sinks_`": only a stopped and registered sink is
started again, and only a stopped and unregistered one is destroyed, however the
calls of several threads overlap. After undefined behaviour (`corrupt`) nothing
happens any more, so nothing is claimed of it.

### Logging

`objects` are the `Channel` objects ever made, `channels` is `channels_`, and `view`
the channel a `Logger` holds, which outlives `clear_channels`. A `Log` is made
(`Log`, which decides whether it has a stream), destroyed (`DestroyLog`, which
copies the pointer to the global context) and handed to the sinks (`Dump`); between
these steps other threads change levels and contexts. `update_global_context_info`
is `BeginUpdate` and `EndUpdate`, one step for each of its critical sections.
`Fork` includes `child_on_fork`, which the application calls first. A context is
reduced to where the value of each key comes from.

`channels_` and a logger's context have no mutex. Overlapping changes are
undefined behaviour, so the model lets the application make those calls one at a
time, while logs are made and dumped freely; this is an assumption on the
application, not a promise of the code. The manager exists from the start. A
thread has one `Log` at a time.

### FileSink

`disk` maps names to logs, `current` is `current_files_`. A name is a key, what
`strftime` printed when the file was opened, and an index; index 0 is a name without
a number. What `strftime` prints (`now`, one of `Stamps`) has no order and may come
again: `%d-%m-%Y` puts 01-02 before 31-01, `%H-%M-%S` without a date begins again at
midnight, and the local time goes back in autumn. So nothing is said of the order of
the names; files are ordered by the time they were last written to. `FileSinkMade`
is the constructor and `Ended` the destructor or the end of the process, which leave
the same files since every log is flushed. `LastIndices` is the outcome of the
listing loop for all orders `readdir` may use. `dump` is the whole handler: the
entry of a new channel, the limit, at most one rotation, the write; opening and
writing may fail, after which the stream stays failed, because `tellp()` is then -1.
Size is counted in logs.

### RecordLog

For every key a log that grows only at its end, given by the records in it and
by the order they are read in, a relation. A record is written to the log
of one key or lost; a key that lost one is silent until the next life, so no life
leaves a hole in what it wrote. `FileSink` implements this under the mapping
`records` = what is in the files of a key (`RecordsOf`), `order` = the files in the
order of the last record in each, and the places in a file (`OrderOf`),
`life` = `starts`, `number` = the logs dumped so far, and `silent` = `Silent`, the
keys whose stream has failed or whose file is over the limit. The
mapping holds in combined and separate mode and over failing opens and writes,
whatever the stamps of one life, as long as no life prints a stamp of an earlier
one (`Apart`); the run `filesink_restart` shows what happens when it does. That the
files of a key are written one after the other is not trivial: a file left
and come back to would have records of others in between.

### LevelNames, Configuration, Records, SdkMessages

These have no state. They are the operators of `Output`, each a translation of
one file's functions, on data reduced to what the properties tell apart:

- A name of a level is a word and how it is spelled, because `string_to_level`
  knows three spellings and tries the upper case of any other. `ToLogLevel` is the
  cast to an enumeration one byte wide.
- An option's text is a numeral, a word, or blank. Reading a number gives 0 for a
  word, and for a blank text whatever the variable held, as
  `convert_to` does not initialise it; `Uninitialised` is the set of those values.
  `asked` and `level_name` record what the application said, for the properties.
- A log is its level, channel, extra identifier, message (a sequence of texts) and
  the three contexts. `Malformed` are the texts that JSON cannot hold, as values or
  as keys; the number of a thread and the keys the code adds are none of them
  (`ThreadAssumption`). A channel's name and an origin are sequences, empty if the
  text is. A line is the record of what a reader finds
  in it.
- A message of the SDK is a sequence of pieces: the texts the code looks for are
  pieces, so are blanks, quotes and lone colons; `WithColon` are all pieces with a
  colon, at which a header is cut. `Cut` shows a prefix and the marker. The
  positions the code computes (the character after `(HeaderIn)`, the search for the
  quote that begins with the opening quote) are kept.

### Output

The application edits a `SinkConfig` and a `ManagerConfig` and applies them, makes
logs, and a thread of the SDK logs through `AwsLogSystem`. A log is dumped to all
sinks in one step (`Dump`), which the manager does under `sinks_mutex_`; `out` holds
the logs of the last call with the lines of every sink, and `Return` is the caller
going on. A file takes the log, or its stream has failed, or its sink is over the
limit (`Outcomes`): which of them is told by `FileSink`, and here a choice at every
log. A CloudWatch sink, which is running, queues a log unless `formatted_json`
throws or `log_stream_name` is empty. A call of the SDK is up to three steps
(`LogStream`, `FailedToProcess`, `LogMessage`), between which `SetLogLevel` may move
the level; everything else is one call at a time. `color` is the terminal, which the
console sinks share, and `complaints` the messages on stderr that `error_logged`
limits. `named` and `level_name` are history for the properties: the names the tags
and the default level were given by, as against what the code made of them. The
assumptions on the constants say no more than the types of the code: a log has one
of the seven levels, an option a value that `set_option` takes, and no tag of the
SDK is the empty text, which stands for a log without an extra identifier.

Some properties claim less than one might expect, because the code does less. A
log is missing from the CloudWatch sink also when the malformed text is its extra
identifier or in a context, and when its stream has no name: with the default
type of stream a log without an extra identifier is not queued by a sink whose
origin is empty (`EveryLogWritten`). A format is honoured only if it was asked
for as a byte, as the cast cuts it to one (`FormatHonoured`). A header line of CURL
may be shown whole if the first header it names is a harmless one, one of
`CurlHttpClient` if it begins with a harmless header or speaks of bytes written
(`Harmless`).

`Sanitized` says where a message may be cut in terms of the message, not of the
code's searches: after the phrase it begins with (`PhraseShown`), at the first
colon of a header (`HeaderShown`), at the end of its first line (`LineShown`), at
the quote that ends the type of an error (`TypeShown`). A cut one piece later or
earlier, at the last colon instead of the first, or before the opening quote,
violates it; and so does a change to a message of a tag that is passed as it is.

### CompatTime

The function is a pure algorithm, so the state is only a walk through the days
of a year. `date` counts days by the rules of the calendar; `gmtime_safe` computes
the date from the number of hours the way the code does, with its loops written
as the least index at which they stop.

### Properties of each component

- CloudWatch sink: a stop loses nothing, no log is sent twice by the loop or by a
  child, the worker outlives neither its sink nor its locks, calls return.
- Manager: one instance, registered sinks alive, a sink's thread joined before
  its sink is started again or destroyed, calls return, no thread waits for a
  worker that waits for it.
- File sink: the files of a key, as they were written, are an append-only log
  without holes; bounds on size and number; a sink that is made anew starts new files.
- Configuration: every sink is made as it was asked for, whatever the draft or
  the configuration went through, and the level is the one that was named.
- Records: a log appears once in every sink, but for the reasons a sink has of its
  own, and its lines in different formats
  say the same; a console line has the color of its level and leaves none behind.
- AwsLogSystem: the SDK's question and the fate of the message agree; of a tag that
  is sanitised, nothing but the known harmless messages is shown whole, and of the
  others nothing past the phrase or header they begin with; a message that is
  replaced is announced.
- compat: the computed date is the calendar's.
- Channels: loggers of a name share a channel; a channel has the default level
  unless it was given its own; a log is judged once, when it is made.
- Context: a record sees one whole global context and prefers the most local
  value; a write is lost only if it overlaps another.

## Runs

| run | expects | shows |
|---|---|---|
| `cloudwatch_safety` | pass | type invariant, `FlushComplete`, `WorkerOwnsLiveSink`, `NoOrphanLock`, `CachedStreamsExist`, `LoopSendsOnce`, `ChildNeverResends`, and the refinement of `EventDelivery` |
| `cloudwatch_liveness` | pass | `StopReturns` and `QueueDrains` under `FairSpec` |
| `cloudwatch_remainder` | violation of `SentOnce` | logs of the first flush round are sent again with the second |
| `cloudwatch_race` | violation of `NoDataRace` | unsynchronised access to `logs_queue_` |
| `cloudwatch_fork` | violation of `ForkedReleases` | fork during a stop leaves a sink that cannot be released |
| `manager` | pass | `OneManager`, `RegisteredSinksLive`, `CallsReturn`, and the refinement of `SinkLifecycle` (`ImplementsLifecycle`) |
| `manager_aws` | violation of `NoSelfJoin` | stop joins a worker that waits for `sinks_mutex_` |
| `filesink` | pass | `SizeBound`, `LastFileGetsOneLog`, and the refinement of `RecordLog` (`ImplementsRecordLog`) |
| `filesink_restart` | violation of `OneStartPerFile` | a later life writes into a file of an earlier one |
| `output` | pass | `EveryLogWritten`, `FormatsAgree`, `OptionsHonoured`, `LinesInTheirColor`, `ComplainsOnce`, `GateAgrees`, `Sanitized`, `FailureAnnounced` |
| `calendar` | pass | `MatchesCalendar` from 1970 to 2099, at every hour |
| `logging` | pass | `Sharing`, `LevelsFollowDefault`, `DecidedWhenMade`, `WholeContexts`, `OnlyOverlapLoses`, `MostLocalWins` |

Bounds. `cloudwatch_safety`: three logs and a request limit of two, so that a flush
needs two rounds and a round can be full, exact or short; two streams, so that one
batch is split; one fork, which gives a parent and a child that restarts. All
starting states of the service and both lambda modes are initial states.
`cloudwatch_liveness` uses one stream, one log with an empty stream name, and a
limit of two. `manager`: two threads, four calls, `sinks_` up to three entries (one
configuration twice, or two different ones), one fork. Four calls are enough for
configure, configure without clearing, the release of a configuration and a
terminate or reset in any order. `manager_aws` needs no fork and three calls.
`filesink`: seven logs fill a combined sink with a limit of one (two logs in each of
the files without a number and with index 1, one in the file past the limit; a
channel begins with index 1) and leave some to be dropped, and let one channel leave
a hole behind that a second life would fill if names were reused; three stamps, so
that a stamp can be left and come back in one life while the other life has one of
its own. Channels are symmetric, and so are stamps, since nothing compares them but
by equality. No life prints a stamp of an earlier one (`Apart`): that is the
assumption under which names are unique. `filesink_restart` drops the stamp, as
`FILE_NO_DATE_ON_NAME` and `FILE_NO_TIME_ON_NAME` do, and has three lives in both
modes: with one file per channel index 1 is always reused; with one file for all it
depends on the order of the listing (set `Modes` to `{FALSE}` to see it). `calendar`
checks every hour of 130 years, which is the whole range in which the rule of four
is right, so its bound is exact. `logging`: two threads, the global logger and one
more that may take its name, three levels (the default, a higher one, `QUIET`), two
keys, three channel objects, four calls and one fork. Four calls let a channel be
made, changed, forgotten and made again, two updates overlap, and a replace follow,
each with an open log. `output`: a configuration of two sinks (`MaxSinks`; three are
registered when one is applied without clearing), so that every pair of formats
occurs and two sinks share the terminal; five changes or uses of the configuration
(`MaxEdits`), enough to set an option, add the sink, change the draft, apply, and
apply again; calls of the SDK only within the first three (`SdkEdits`), as they
depend on the configuration only by the level and by there being a sink. `MCOutput`
chooses the options (a flag set and unset, a word, a blank, a format that is none),
the levels (a word, 300, which is more than a byte), the names (one sink shares its
name with a custom one), the contexts (a key in none, one or several, a malformed
value or key), the ways a CloudWatch sink names its streams (with and without an
origin, by channel, by both; a log of a channel without a name) and the messages: at
least one for every branch of `SdkMessages` that cuts, and those at its edges (a
header behind another one, no end of line, no blank, two colons, two quotes, a
phrase with a colon of its own).

Deadlock checking is off where the system may really stop: in `LogManager` when
the calls are used up (`MaxCalls`) or a child waits for an inherited mutex, in
`FileSink` and `Logging` when their bounds are used up, in `Output` when the edits are
and no sink is registered, in `CompatTime` on 31 December.
`CloudWatchSink` is checked for deadlock; a sink that is destroyed stutters
explicitly (`Finished`).

Fairness. `CloudWatchSink`: weak fairness of the steps of a call once begun, and
of the worker's steps. Both are threads the operating system schedules; the
worker's wait has a timeout (500 ms), and SDK calls have timeouts of their own.
Nothing obliges anyone to begin a call, to fork, or to create a stream.
`LogManager`: weak fairness of every thread's steps. Mutexes are not fair, but
calls are bounded, so nobody is overtaken for ever.

Every property of a passing run has a mutant: a definition just before the one
it replaces, named after a plausible bug ("Mutant: ..."), which makes TLC find
the property violated.

## Proofs

Every invariant, action property and refinement of a passing run is a theorem,
for every value of the constants that satisfies the named assumptions of its
module, which TLC evaluates in the runs. Each follows from an inductive
invariant: `Init` establishes it, every action keeps it (one lemma for each part
or for each action, whichever splits the work better), and the property follows
from it. Hardly any of the properties is inductive alone; what had to be added, and
why, is the content of this section.

Three hypotheses go beyond the assumptions. Each holds in the run of the property.

- `Apart` (`FileSinkProofs`): no life of the file sink prints a stamp an earlier one
  has left in the directory. It holds if the sink is made once, or if the names
  carry date and time and two lives do not begin in one second (or one hour when
  the local time goes back); a date alone repeats over the day, a time alone every
  day. By default the files of a day have a folder of their own, which is part
  of the stamp here. The run `filesink_restart` shows what a sink does without it.
- `Unmarked` (`SdkLogProofs`, for `FailureAnnounced` only): the SDK does not write
  `<REDACTED>` itself. If it did, a message shown whole could not be told from one
  that was replaced.
- `InRange` (`CompatTimeProofs`): the years 1970 to 2099. 2100 is taken for a leap
  year (`Years` set to `{2100}` shows it).

**CloudWatchSinkProofs.** `TypeCorrect`, `FlushIsComplete`, `WorkerIsOwned`,
`LocksAreAlive`, `CacheIsSound`, `ChildrenSendTheirOwn`, from
`IInv == Types /\ Control /\ Content`. `Control` relates the positions of the two
threads to the flags, pointers, pids and locks: a worker exists only in the
process that started it; a queue can be non-empty beside a finished worker only
if `push` happened after the flag was cleared, which the code excludes because the
same caller does both; a lock is held by the worker exactly between its lock and
unlock; an orphan lock implies that the mutexes were not reset in this process.
`Content` says that a log is pushed once, that queue and batch of a child's worker
hold only logs accepted after the fork, and that the cache is a subset of the
streams.

**CloudWatchDeliveryProofs.** `LoopNeverResends` and `LogsAreAccountedFor`, the
refinement of `EventDelivery`. `Custody` is added to the invariant above and
follows a log through the queue, the multiset of the worker and the requests. Its
parts: a log is queued once and not while the worker has it (`Queued`); what the
round holds and has to send (`Round`); a log nobody passed to `PutLogEvents` has no
outcome (`Unsent`); a log that may still be sent has not been dropped (`Tracked`);
outside the flush only unsent logs remain to be sent (`LoopBatch`); what the
caller's position says of queue and thread (`Handover`). The refinement has one
lemma for each action that moves a log (`AcceptStep`, `RequestStep`, `ForkStep`, ...)
and one for all the others (`QuietStep`).

**LogManagerProofs.** `TypeCorrect`, `OneManagerAtATime`, `SinksLive`, and
`SinkIsLedAsAllowed`, the refinement of `SinkLifecycle`, for any threads, calls and
forks. What a thread has left to do is a sequence of steps, so the invariant has
two layers. `WellFormed` says which steps may follow which (`OK`), and
`Discipline` that a mutex belongs to the thread whose remaining steps unlock it;
that every call and every step keeps both is a fact about sequences only.
`Singleton`, `References` and `Joining` then relate the seven steps that matter to
the state: who is about to destroy the manager holds `manager_init_mutex_`; the
destructor of the sink begins only when the last pointer is gone, and once;
whoever joins the worker holds `sinks_mutex_` or is the destructor.

**FileSinkProofs.** `TypeCorrect`, `FilesAreBounded`, `LimitIsExceededOnce`, and
`RecordsAreKept`, the refinement of `RecordLog`, for any sizes, limits, channels,
lives, stamps, and failures of streams. What makes it inductive is that opening
a file always creates it: the files of this life have lower indices than the next
one of their key (`Fresh`), and those of other lives other stamps. So the file that is
open was written to last (`Ordered`), and its index bounds what the life has
filled (`Bounded`). The
order in which records are read is a relation, which a write extends by pairs; as
a sequence it would have to be defined by recursion over the files.

**LoggingProofs.** `TypeCorrect`, `ChannelsAreShared`, `DefaultReachesAll`,
`JudgedOnce`, `ContextsAreWhole`, `NothingElseLoses`, `PrecedenceHolds`. Added are:
the registry maps a name to an object of that name (`Named`), without which the
next logger would break `Sharing`; the stream of a log is the decision
(`StreamIsDecision`), where the bytes the code compares and the order of severity
are shown to agree; and a copy under change is what the context will have to be as
long as no writes overlap (`CopiesFollow`).

**SdkLogProofs.** `SanitizedAlways`, `FailureAnnouncedAlways`, `GateAgreesAlways`, for
any messages, from `SdkInv == SdkTypes /\ SwitchedByName /\ CallIsFollowed`. The
last part says, for each step of a call, what is in `out` in terms of what
`process_tag` makes of the message, also when the level moves in between.
`Sanitized` then follows from one lemma for each `process_..._tag` (`Outcome`), that
it refuses a message, passes a harmless one, or cuts it where it may be cut; the
facts on `FirstOf` and `Min` give the positions.

**OutputProofs.** `TypeCorrect`, `OptionsHonouredAlways`, `EveryLogWrittenAlways`,
`FormatsAgreeAlways`, `LinesInTheirColorAlways`, `ComplainsOnceAlways`, from
`OutputInv == Configured /\ LevelsKnown /\ TagsKnown /\ Terminal /\ LogsWritten`.
`Configured` is the form of every configuration, the application's draft included:
each option is the text of the value asked for. `LogsWritten` says that each sink
wrote what it writes of the log alone on a terminal in its default color, although
the loop over `sinks_` passes the color from sink to sink; this needs an induction
over the sinks (`Dumped`).

**CompatTimeProofs.** `TypeCorrect` for every year, `CalendarMatched` for those in
`InRange`. The walk through a year counts the days of its months (`IInv`). From 1970 to
2099 the rule of four is the calendar's, so periods of four years have 1461 days
(`RuleOfFour`), and an hour is that of a day in a month of a year of a period
(`Lies`): the code finds the period by division, the year and the month by its
loops (`YearFound`, `MonthFound`).

Two functions of the model are recursive over numbers whose range is not fixed or
whose value is computed (`Dumped`, `Before` and `Start`). The library's induction
theorems take a predicate as a parameter; `SdkLogProofs` states induction with the
set of the numbers that satisfy it instead (`Least`, `Induction`, `Recursion`), from
the well-foundedness of `<`. For the two tables a closed form is enough.

Only model-checked are `StopReturns`, `QueueDrains` and `CallsReturn`, which need
fairness and are out of the prover's reach, and of course the violations.

## Findings

Five properties that the repository states or relies on are violated by the
code: `NoDataRace`, `SentOnce`, `ForkedReleases`, `NoSelfJoin` and
`OneStartPerFile` (in both modes). `PROJECT.json` "findings" quotes the lines.

Four more behaviours are worth knowing, although no document speaks of them.
`MatchesCalendar` ends with 2099: 2100 is taken for a leap year. After
`terminate` or `clear_channels`, loggers made before, the global one among them,
keep channels that `configure`, `set_log_level` and `mute_channel` no longer reach.
When `configure` throws, the default level is already the new one, so that
`set_log_level` with that level returns early and leaves the channels as they were.
And `replace_global_context_info`, not only a second update, is undone by an
update it overlaps (`contended` covers both).

What `output` assumes rather than finds: a blank text of an option gives an
arbitrary number (`Uninitialised`), so `OptionsHonoured` claims nothing of it, and a
level option above 255 is cut to a byte, so it claims a level only where one was
named.

## Not modelled

- Values of options that are strings (paths, prefixes, log group names), and the
  time, process and channel of a line: no decision depends on them here.
- `has_sink`, `Flush`, and other calls that change nothing.
- `AwsLogSystem::instance()`, which is made by whichever thread comes first, and
  the instant between the publication of the manager and of `global_logger_`:
  their races need threads that start before the program has configured anything.
- Exceptions of the AWS SDK other than from `PutLogEvents`, and memory exhaustion.
- The lifetime and the ends of strings that are passed as views: keys of a context
  are views of strings that the caller keeps, and `name.data()` (`manager.cpp:54`) and
  `key.data()` (`sink.cpp:82`) read such a view to its terminator. Names and keys
  are models of whole strings that live, so both are identities here; that they
  do and are is up to the caller.
- What ends the process: in a child forked while a thread of the parent is inside
  `stop_impl`, the destructor of the sink meets a joinable thread object
  (`std::terminate`). `CloudWatchSink` shows it (`ForkedReleases`); `LogManager` lets the
  child go on (`gone`).
- Failures of `std::cout`, and names of channels and origins that are not UTF-8.
- Tests, examples and build files. They were read for what they say of the code.

## Plan

The models are complete as far as "Not modelled" says, and every safety property
that holds is proved. What is left is to prove more than the runs ask:

1. the composition of `Configuration` and `FileSink` with a model of the calendar and
   the clock: for which options (date, time, folder of the day) and distances
   between two lives `Apart` holds;
2. the safety half of the liveness properties, for instance that a thread of
   `LogManager` that waits for a mutex waits for a thread that does not wait for it.

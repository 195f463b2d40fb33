------------------------------- MODULE Logging -------------------------------
(***************************************************************************)
(* Loggers, channels, levels and contexts: Logger, Log, Channel,           *)
(* ContextInfo and the part of Manager that they use.  A Log decides when  *)
(* it is made whether it will be dumped, and is dumped when it is          *)
(* destroyed; levels and contexts may change in between.                   *)
(*                                                                         *)
(* channels_ has no mutex, nor has the context of a Logger: calls that     *)
(* change one of them while another thread uses it are undefined           *)
(* behaviour, so the application makes them one at a time.  A level is one *)
(* byte, read by any thread through its ChannelView.  Under                *)
(* global_context_info_mutex_ the code only copies or replaces a pointer:  *)
(* each such section is one step here.                                     *)
(***************************************************************************)
EXTENDS LevelNames, Sequences, FiniteSets

CONSTANTS Threads, Loggers, Names,  \* "GLOBAL" is a Logger and a Name
          Levels,      \* the levels in use
          Keys,        \* keys of contexts, among them "session_id"
          MaxChannels, \* bound: Channel objects made
          MaxCalls,    \* bound: calls the application makes, Logs among them
          MaxForks     \* bound: fork(2) calls followed

ASSUME ThreadsAssumption == Threads # {}
ASSUME NamesAssumption  == "GLOBAL" \in Names /\ "GLOBAL" \in Loggers
ASSUME LevelsAssumption == Levels \subseteq LogLevels /\ {INFO, QUIET} \subseteq Levels
ASSUME KeysAssumption   == "session_id" \in Keys
ASSUME BoundsAssumption ==
    MaxChannels \in Nat \ {0} /\ MaxCalls \in Nat /\ MaxForks \in Nat

VARIABLES
    objects,          \* the Channel objects made: name and channel_level_
    channels,         \* channels_: the number of the object of a name, or 0
    default_level,    \* default_log_level_
    view,             \* channel_view_ of every Logger; 0: there is no such Logger
    logger_context,   \* keys of its context_info_
    log,              \* the Log each thread has on its stack
    context,          \* *global_context_info_: the write that gave a key its value, or 0
    copy,             \* copy_of_current of a thread in update_global_context_info
    record,           \* what the sinks were given in the last step
    alive, calls, forks,
    (* History, read by the properties only.                                 *)
    own,              \* channels whose level was set by itself since all were
    forgotten,        \* channels that clear_channels removed
    interrupted,      \* a configure threw, and no call has set all levels since
    published,        \* contexts that global_context_info_ has pointed to
    expected,         \* the context if writes took effect one after the other
    contended         \* two writes overlapped, and no replace came after that

registry == <<objects, channels, default_level, own, forgotten, interrupted>>
loggers  == <<view, logger_context>>
contexts == <<context, copy, published, expected, contended>>
proc     == <<alive, calls, forks>>
vars == <<registry, loggers, contexts, log, record, proc>>

NoLog    == [stage |-> "none"]
NoRecord == [log |-> NoLog]
Idle     == [stage |-> "none"]
Empty    == [k \in Keys |-> 0]

Init ==
    /\ objects = <<[name |-> "GLOBAL", level |-> INFO]>>
    /\ channels = [n \in Names |-> IF n = "GLOBAL" THEN 1 ELSE 0]
    /\ default_level = INFO
    /\ view = [l \in Loggers |-> IF l = "GLOBAL" THEN 1 ELSE 0]
    /\ logger_context = [l \in Loggers |-> {}]
    /\ log = [t \in Threads |-> NoLog] /\ record = NoRecord
    /\ context = Empty /\ copy = [t \in Threads |-> Idle]
    /\ alive = Threads /\ calls = 0 /\ forks = 0
    /\ own = {} /\ forgotten = {} /\ interrupted = FALSE
    /\ published = {Empty} /\ expected = Empty /\ contended = FALSE

InCall(t) == log[t].stage = "dumping" \/ copy[t] # Idle

Begin == calls < MaxCalls /\ calls' = calls + 1 /\ record' = NoRecord
         /\ UNCHANGED <<alive, forks>>

-----------------------------------------------------------------------------
(* Loggers and channels.                                                     *)

Call == Begin /\ UNCHANGED <<contexts, log>>

Registered == {channels[n] : n \in Names} \ {0}
UsedBy(l)  == {t \in alive : log[t] # NoLog /\ log[t].logger = l}

(* Mutant: insert_or_assign in place of try_emplace.                         *)
Overwrites(n) == TRUE
(* Mutants: a channel starts at INFO, whatever the default is; its           *)
(* constructor leaves the level unset.                                       *)
StartsAtInfo == INFO
StartsUnset  == 0

MustMake(n) == channels[n] = 0
FirstLevel  == default_level

Logger(l, n) ==
    /\ view[l] = 0 /\ l # "GLOBAL" /\ Call
    /\ IF MustMake(n)
       THEN /\ Len(objects) < MaxChannels
            /\ objects' = Append(objects, [name |-> n, level |-> FirstLevel])
            /\ channels' = [channels EXCEPT ![n] = Len(objects')]
       ELSE UNCHANGED <<objects, channels>>
    /\ view' = [view EXCEPT ![l] = channels'[n]]
    /\ logger_context' = [logger_context EXCEPT ![l] = {}]
    /\ UNCHANGED <<default_level, own, forgotten, interrupted>>

(* A Log refers to its Logger, so the application destroys the Log first.    *)
DestroyLogger(l) ==
    /\ view[l] # 0 /\ l # "GLOBAL" /\ UsedBy(l) = {} /\ Call
    /\ view' = [view EXCEPT ![l] = 0]
    /\ UNCHANGED <<registry, logger_context>>

(* add_context_key(s), remove_context_key and clear_context_info.  The       *)
(* global logger is const.                                                   *)
change_context(l) ==
    /\ view[l] # 0 /\ l # "GLOBAL" /\ Call
    /\ \A t \in UsedBy(l) : log[t].stage = "open"
    /\ \E ks \in SUBSET Keys : logger_context' = [logger_context EXCEPT ![l] = ks]
    /\ UNCHANGED <<registry, view>>

SetLevel(c, v) ==
    /\ objects' = [objects EXCEPT ![c].level = v]
    /\ own' = own \cup {c}
    /\ UNCHANGED <<channels, default_level, forgotten, interrupted, loggers>>

(* Through the Logger, also when the manager has forgotten the channel.      *)
editable_logger_channel(l, v) == view[l] # 0 /\ l # "GLOBAL" /\ Call /\ SetLevel(view[l], v)

(* Through the manager, which throws for an unknown name.                    *)
editable_channel(n, v) == channels[n] # 0 /\ Call /\ SetLevel(channels[n], v)

mute_channel(n) == channels[n] # 0 /\ Call /\ SetLevel(channels[n], QUIET)

ApplyToAll(v) == [c \in 1 .. Len(objects) |->
    IF c \in Registered THEN [objects[c] EXCEPT !.level = v] ELSE objects[c]]

SetAll(v) ==
    /\ objects' = ApplyToAll(v)
    /\ own' = own \ Registered /\ interrupted' = FALSE

(* Nothing happens for the level that is the default already.                *)
set_log_level(v) ==
    /\ v # default_level /\ Call
    /\ default_level' = v /\ SetAll(v)
    /\ UNCHANGED <<channels, forgotten, loggers>>

(* The configuration may leave the default as it is; the default changes     *)
(* before a sink is made, and a sink that throws ends the call there.        *)
configure(v, throws) ==
    /\ Call
    /\ default_level' = v
    /\ IF throws THEN interrupted' = TRUE /\ UNCHANGED <<objects, own>> ELSE SetAll(v)
    /\ UNCHANGED <<channels, forgotten, loggers>>

(* Also called by terminate.                                                 *)
clear_channels ==
    /\ Registered # {} /\ Call
    /\ channels' = [n \in Names |-> 0]
    /\ forgotten' = forgotten \cup Registered
    /\ UNCHANGED <<objects, default_level, own, interrupted, loggers>>

-----------------------------------------------------------------------------
(* Logs.                                                                     *)

(* A level is enabled when it comes at or after the floor in the order of    *)
(* severity, and nothing is ever logged at QUIET.                            *)
Severity == <<TRACE, DEBUG, INFO, NOTICE, WARNING, ERROR>>
Enabled(v, floor) == \E i, j \in 1 .. Len(Severity) :
                         i <= j /\ Severity[i] = floor /\ Severity[j] = v

Log(t, l, v) ==
    /\ log[t] = NoLog /\ copy[t] = Idle /\ view[l] # 0 /\ Begin
    /\ log' = [log EXCEPT ![t] =
         [stage |-> "open", logger |-> l, level |-> v,
          stream |-> HasStream(v, objects[view[l]].level),
          wanted |-> Enabled(v, objects[view[l]].level)]]
    /\ UNCHANGED <<registry, loggers, contexts>>

(* Mutant: the destructor looks at the level again.                          *)
LooksAgain(g) == g.stream /\ HasStream(g.level, objects[view[g.logger]].level)

WillDump(g) == g.stream

(* ~Log: a Log without a stream is gone; another one copies the pointer to   *)
(* the global context.                                                       *)
DestroyLog(t) ==
    /\ log[t].stage = "open" /\ copy[t] = Idle
    /\ log' = [log EXCEPT ![t] = IF WillDump(@)
                 THEN [stage |-> "dumping", logger |-> @.logger, level |-> @.level,
                       wanted |-> @.wanted, handle |-> context]
                 ELSE NoLog]
    /\ record' = IF WillDump(log[t]) THEN NoRecord ELSE [log |-> log[t], dumped |-> FALSE]
    /\ UNCHANGED <<registry, loggers, contexts, proc>>

(* A value of the context of a JSON record is named by where it comes from.  *)
Values(origin, ks) == [k \in ks |-> <<origin, k>>]
GlobalValues(c)    == [k \in {k \in Keys : c[k] # 0} |-> <<"global", c[k]>>]

(* Mutant: a later context overwrites an earlier one.                        *)
InsertOver(dst, c) == [k \in DOMAIN dst \cup DOMAIN c |-> IF k \in DOMAIN c THEN c[k] ELSE dst[k]]

(* The keys of c that dst does not contain.                                  *)
Insert(dst, c) == [k \in DOMAIN dst \cup DOMAIN c |-> IF k \in DOMAIN dst THEN dst[k] ELSE c[k]]

init_context_info_impl(own_info, info, global_info, extra) ==
    LET merged == Insert(Insert(own_info, info), global_info)
    IN  IF extra THEN [k \in DOMAIN merged \cup {"session_id"} |->
                         IF k = "session_id" THEN <<"extra_identifier">> ELSE merged[k]]
                 ELSE merged

(* Manager::dump hands the log to the sinks.  What the Log itself carries,   *)
(* its context and its identifier, is fixed when it is made and read here.   *)
Dump(t) ==
    /\ log[t].stage = "dumping"
    /\ \E ks \in SUBSET Keys, extra \in BOOLEAN :
         record' = [log |-> log[t], dumped |-> TRUE, own_keys |-> ks, extra |-> extra,
                    logger_keys |-> logger_context[log[t].logger],
                    json |-> init_context_info_impl(Values("log", ks),
                               Values("logger", logger_context[log[t].logger]),
                               GlobalValues(log[t].handle), extra)]
    /\ log' = [log EXCEPT ![t] = NoLog]
    /\ UNCHANGED <<registry, loggers, contexts, proc>>

-----------------------------------------------------------------------------
(* The global context.  The keys a write gives carry its number.             *)

Update(c, ks, w) == [k \in Keys |-> IF k \in ks THEN w ELSE c[k]]
Others(t) == \E u \in alive \ {t} : copy[u] # Idle

Write(t) == ~InCall(t) /\ Begin /\ UNCHANGED <<registry, loggers, log>>

replace_global_context_info(t, ks) ==
    /\ Write(t)
    /\ context' = Update(Empty, ks, calls') /\ expected' = context'
    /\ published' = published \cup {context'}
    /\ contended' = Others(t)
    /\ UNCHANGED copy

(* Mutant: the first key goes straight into the shared object.               *)
ChangesShared(ks, w) == Update(context, {CHOOSE k \in ks : TRUE}, w)

LeavesShared(ks, w) == context

(* update_global_context_info copies the current context and changes that.   *)
BeginUpdate(t, ks) ==
    /\ Write(t)
    /\ copy' = [copy EXCEPT ![t] =
         [stage |-> "copied", keys |-> ks, write |-> calls', info |-> Update(context, ks, calls')]]
    /\ context' = LeavesShared(ks, calls')
    /\ UNCHANGED <<published, expected, contended>>

(* Mutant: only the new keys are published.                                  *)
ForgetsOld(u) == Update(Empty, u.keys, u.write)

NewContext(u) == u.info

EndUpdate(t) ==
    /\ copy[t] # Idle
    /\ context' = NewContext(copy[t])
    /\ published' = published \cup {context'}
    /\ expected' = Update(expected, copy[t].keys, copy[t].write)
    /\ contended' = (contended \/ Others(t))
    /\ copy' = [copy EXCEPT ![t] = Idle]
    /\ record' = NoRecord
    /\ UNCHANGED <<registry, loggers, log, proc>>

(* fork(2): the child has one thread.  It calls child_on_fork, which copies  *)
(* the context; what other threads were about to publish is not in it.       *)
Fork(t) ==
    /\ forks < MaxForks /\ forks' = forks + 1
    /\ ~InCall(t)
    /\ alive' = {t}
    /\ log'  = [u \in Threads |-> IF u = t THEN log[u] ELSE NoLog]
    /\ copy' = [u \in Threads |-> Idle]
    /\ record' = NoRecord
    /\ UNCHANGED <<registry, loggers, context, published, expected, contended, calls>>

Configuring ==
    \/ \E l \in Loggers : \/ \E n \in Names : Logger(l, n)
                          \/ DestroyLogger(l)
                          \/ change_context(l)
                          \/ \E v \in Levels : editable_logger_channel(l, v)
    \/ \E n \in Names : mute_channel(n) \/ \E v \in Levels : editable_channel(n, v)
    \/ \E v \in Levels : set_log_level(v) \/ \E throws \in BOOLEAN : configure(v, throws)
    \/ clear_channels

Step(t) ==
    \/ \E l \in Loggers, v \in Levels : Log(t, l, v)
    \/ DestroyLog(t) \/ Dump(t) \/ EndUpdate(t) \/ Fork(t)
    \/ \E ks \in (SUBSET Keys) \ {{}} : replace_global_context_info(t, ks) \/ BeginUpdate(t, ks)

Next == \E t \in alive : (~InCall(t) /\ Configuring) \/ Step(t)

Spec == Init /\ [][Next]_vars

-----------------------------------------------------------------------------
(* Properties                                                                *)

Contexts == [Keys -> 0 .. MaxCalls]

TypeOK ==
    /\ objects \in Seq([name : Names, level : Levels]) /\ Len(objects) <= MaxChannels
    /\ channels \in [Names -> 0 .. Len(objects)] /\ default_level \in Levels
    /\ view \in [Loggers -> 0 .. Len(objects)]
    /\ logger_context \in [Loggers -> SUBSET Keys]
    /\ \A t \in Threads : log[t] # NoLog =>
         /\ log[t].logger \in Loggers /\ view[log[t].logger] # 0 /\ log[t].level \in Levels
         /\ log[t].stage = "dumping" => log[t].handle \in Contexts
    /\ context \in Contexts
    /\ \A t \in Threads : copy[t] # Idle => copy[t].info \in Contexts
    /\ alive \in (SUBSET Threads) \ {{}}

(* logger-tests.cpp, "Channel sharing upon same name": loggers of one name   *)
(* share the channel the manager knows, unless clear_channels has removed    *)
(* the channel of the older one.                                             *)
Sharing == \A l \in Loggers : view[l] # 0 /\ view[l] \notin forgotten =>
               channels[objects[view[l]].name] = view[l]

(* README.md, "the log level to be defaulted debug for all channels, each    *)
(* channel can also configure its own": a channel the manager knows has the  *)
(* default level unless its own was set later, or configure threw half-way.  *)
LevelsFollowDefault == \A c \in Registered :
    c \notin own /\ ~interrupted => objects[c].level = default_level

(* Whether a Log is dumped is decided once, by the level its channel has     *)
(* when the Log is made; muting the channel, or forgetting it, while the Log *)
(* is being written neither drops the Log nor lets another one through.      *)
DecidedWhenMade == record # NoRecord => (record.dumped <=> record.log.wanted)

(* manager.hpp: a record shows a context that was the global one as a whole, *)
(* never one that an update is changing.                                     *)
WholeContexts == \A t \in Threads : log[t].stage = "dumping" => log[t].handle \in published

(* manager.cpp, "Calling this method concurrently from multiple threads      *)
(* could result in loss of context info": nothing is lost otherwise, in a    *)
(* forked child neither.                                                     *)
OnlyOverlapLoses == ~contended => context = expected

(* sink.cpp, "the most local context_info has the highest precedence"; the   *)
(* identifier of the log is its session.                                     *)
MostLocalWins == record # NoRecord /\ record.dumped => \A k \in Keys :
    LET extra    == k = "session_id" /\ record.extra
        own_key  == k \in record.own_keys
        logger_key == k \in record.logger_keys
        global_key == record.log.handle[k] # 0
        Shows(v) == k \in DOMAIN record.json /\ record.json[k] = v
    IN  /\ extra => Shows(<<"extra_identifier">>)
        /\ own_key /\ ~extra => Shows(<<"log", k>>)
        /\ logger_key /\ ~own_key /\ ~extra => Shows(<<"logger", k>>)
        /\ global_key /\ ~logger_key /\ ~own_key /\ ~extra =>
               Shows(<<"global", record.log.handle[k]>>)
        /\ k \in DOMAIN record.json => extra \/ own_key \/ logger_key \/ global_key
=============================================================================

---------------------------- MODULE LoggingProofs ----------------------------
(***************************************************************************)
(* Safety of Logging for any threads, loggers, names, levels and keys.     *)
(*                                                                         *)
(* The inductive invariant has five parts:                                 *)
(*   Types     the types, and that only live threads have Logs and copies; *)
(*   Registry  channels: their names, who shares them, their levels;       *)
(*   Decisions what the stream of a Log says of the level it was made at;  *)
(*   Contents  where the context, and the copies made of it, come from;    *)
(*   MostLocalWins  of the record written last.                            *)
(* Each is kept because of itself and of Types only.                       *)
(***************************************************************************)
EXTENDS Logging, SequenceTheorems, TLAPS

ChannelObjects == [name : Names, level : Levels]
OpenLogs    == [stage : {"open"}, logger : Loggers, level : Levels,
                stream : BOOLEAN, wanted : BOOLEAN]
DumpingLogs == [stage : {"dumping"}, logger : Loggers, level : Levels,
                wanted : BOOLEAN, handle : Contexts]
Copies      == [stage : {"copied"}, keys : SUBSET Keys, write : 0 .. MaxCalls,
                info : Contexts]

RegistryTypes ==
    /\ objects \in Seq(ChannelObjects) /\ Len(objects) <= MaxChannels
    /\ channels \in [Names -> 0 .. Len(objects)] /\ default_level \in Levels
    /\ view \in [Loggers -> 0 .. Len(objects)]
    /\ logger_context \in [Loggers -> SUBSET Keys]

LogTypes ==
    /\ log \in [Threads -> OpenLogs \cup DumpingLogs \cup {NoLog}]
    /\ \A t \in Threads : log[t] # NoLog => view[log[t].logger] # 0

ContextTypes ==
    /\ context \in Contexts /\ calls \in 0 .. MaxCalls
    /\ copy \in [Threads -> Copies \cup {Idle}]

ProcessTypes ==
    /\ alive \subseteq Threads /\ alive # {}
    /\ \A t \in Threads \ alive : log[t] = NoLog /\ copy[t] = Idle

Types == RegistryTypes /\ LogTypes /\ ContextTypes /\ ProcessTypes

(* The registry maps a name to an object of this name, without which Sharing *)
(* would not survive the next Logger.                                        *)
Named == \A n \in Names : channels[n] # 0 => objects[channels[n]].name = n

Registry == Named /\ Sharing /\ LevelsFollowDefault

(* A Log that is being dumped has passed its level.                          *)
StreamIsDecision == \A t \in Threads :
    /\ log[t].stage = "open" => (log[t].stream <=> log[t].wanted)
    /\ log[t].stage = "dumping" => log[t].wanted

Decisions == StreamIsDecision /\ DecidedWhenMade

(* As long as writes have not overlapped, a copy under change is what the    *)
(* context will have to be.                                                  *)
CopiesFollow == ~contended => \A t \in Threads :
    copy[t] # Idle => copy[t].info = Update(expected, copy[t].keys, copy[t].write)

Contents == context \in published /\ WholeContexts /\ OnlyOverlapLoses /\ CopiesFollow

IInv == Types /\ Registry /\ Decisions /\ Contents /\ MostLocalWins

-----------------------------------------------------------------------------
(* The operators.                                                            *)

(* HasStream compares bytes, Enabled positions in the order of severity: on  *)
(* the seven levels they agree.                                              *)
LEMMA StreamIsEnabled ==
  ASSUME NEW v \in LogLevels, NEW floor \in LogLevels
  PROVE  HasStream(v, floor) <=> Enabled(v, floor)
<1> DEFINE S == Severity
<1>1. /\ Len(S) = 6 /\ S[1] = 1 /\ S[2] = 2 /\ S[3] = 4 /\ S[4] = 8 /\ S[5] = 16 /\ S[6] = 32
  BY DEF Severity, TRACE, DEBUG, INFO, NOTICE, WARNING, ERROR
<1> HIDE DEF S
<1>2. Enabled(v, floor) <=> \E i, j \in 1 .. 6 : i <= j /\ S[i] = floor /\ S[j] = v
  BY <1>1 DEF Enabled, S
<1>3. /\ v \in {1, 2, 4, 8, 16, 32, 255} /\ floor \in {1, 2, 4, 8, 16, 32, 255}
      /\ HasStream(v, floor) <=> v >= floor /\ v # 255
  BY DEF HasStream, LogLevels, TRACE, DEBUG, INFO, NOTICE, WARNING, ERROR, QUIET
<1>4. (\E i, j \in 1 .. 6 : i <= j /\ S[i] = floor /\ S[j] = v) => v >= floor /\ v # 255
  BY <1>1, <1>3
<1>5. v >= floor /\ v # 255 => \E i, j \in 1 .. 6 : i <= j /\ S[i] = floor /\ S[j] = v
  BY <1>1, <1>3
<1> QED
  BY <1>2, <1>3, <1>4, <1>5

LEMMA UpdateType ==
  ASSUME NEW c \in Contexts, NEW ks, NEW w \in 0 .. MaxCalls
  PROVE  Update(c, ks, w) \in Contexts
  BY DEF Update, Contexts

LEMMA EmptyType == Empty \in Contexts
  BY BoundsAssumption DEF Empty, Contexts

(* The objects keep their names and their number when levels are set.        *)
LEMMA SetOneLevel ==
  ASSUME objects \in Seq(ChannelObjects), NEW c \in 1 .. Len(objects), NEW v \in Levels,
         objects' = [objects EXCEPT ![c].level = v]
  PROVE  /\ objects' \in Seq(ChannelObjects) /\ Len(objects') = Len(objects)
         /\ \A i \in 1 .. Len(objects) :
              objects'[i] = IF i = c THEN [objects[c] EXCEPT !.level = v] ELSE objects[i]
<1>1. objects[c] \in ChannelObjects
  BY ElementOfSeq
<1>2. [objects[c] EXCEPT !.level = v] \in ChannelObjects
  BY <1>1 DEF ChannelObjects
<1>3. objects' = [objects EXCEPT ![c] = [objects[c] EXCEPT !.level = v]]
  OBVIOUS
<1> QED
  BY <1>2, <1>3, ExceptSeq

LEMMA SetAllLevels ==
  ASSUME objects \in Seq(ChannelObjects), NEW v \in Levels, objects' = ApplyToAll(v)
  PROVE  /\ objects' \in Seq(ChannelObjects) /\ Len(objects') = Len(objects)
         /\ \A i \in 1 .. Len(objects) :
              objects'[i] = IF i \in Registered THEN [objects[i] EXCEPT !.level = v]
                                                ELSE objects[i]
<1> DEFINE e(i) == IF i \in Registered THEN [objects[i] EXCEPT !.level = v] ELSE objects[i]
<1>1. \A i \in 1 .. Len(objects) : objects[i] \in ChannelObjects
  BY ElementOfSeq
<1>2. \A i \in 1 .. Len(objects) : e(i) \in ChannelObjects
  BY <1>1 DEF ChannelObjects
<1>3. objects' = [i \in 1 .. Len(objects) |-> e(i)] /\ Len(objects) \in Nat
  BY DEF ApplyToAll
<1> HIDE DEF e
<1>4. [i \in 1 .. Len(objects) |-> e(i)] \in Seq(ChannelObjects)
  BY <1>2, <1>3, IsASeq
<1>5. Len(objects') = Len(objects)
  BY <1>3, <1>4, LenProperties
<1> QED
  BY <1>3, <1>4, <1>5 DEF e

-----------------------------------------------------------------------------
(* Types is inductive.                                                       *)

LEMMA InitTypes == Init => Types
<1> SUFFICES ASSUME Init PROVE Types
  OBVIOUS
<1>1. RegistryTypes
  <2>1. [name |-> "GLOBAL", level |-> INFO] \in ChannelObjects
    BY NamesAssumption, LevelsAssumption DEF ChannelObjects
  <2>2. objects \in Seq(ChannelObjects) /\ Len(objects) = 1
    BY <2>1 DEF Init
  <2> QED
    BY <2>2, LevelsAssumption, BoundsAssumption DEF Init, RegistryTypes
<1>2. LogTypes
  BY DEF Init, LogTypes
<1>3. ContextTypes
  BY EmptyType, BoundsAssumption DEF Init, ContextTypes
<1>4. ProcessTypes
  <2>1. alive = Threads
    BY DEF Init
  <2>2. alive \subseteq Threads /\ alive # {}
    BY <2>1, ThreadsAssumption
  <2>3. \A t \in Threads \ alive : log[t] = NoLog /\ copy[t] = Idle
    BY <2>1
  <2> QED
    BY <2>2, <2>3 DEF ProcessTypes
<1> QED
  BY <1>1, <1>2, <1>3, <1>4 DEF Types

(* What a call on loggers and channels leaves alone.                         *)
LEMMA ConfiguringLeaves == Configuring => /\ UNCHANGED <<contexts, log, alive>> /\ Begin
  BY DEF Configuring, Logger, DestroyLogger, change_context, editable_logger_channel,
     editable_channel, mute_channel, set_log_level, configure, clear_channels, Call, Begin

(* What the other steps leave alone.                                         *)
LEMMA StepLeaves == \A t \in alive : Step(t) => UNCHANGED <<registry, loggers>>
  BY DEF Step, Log, DestroyLog, Dump, EndUpdate, Fork, replace_global_context_info,
     BeginUpdate, Write

LEMMA RegistryTypesKept == Types /\ [Next]_vars => RegistryTypes'
<1> SUFFICES ASSUME Types, [Next]_vars PROVE RegistryTypes'
  OBVIOUS
<1> USE DEF Types, RegistryTypes
<1>1. ASSUME NEW c \in 1 .. Len(objects), NEW v \in Levels, SetLevel(c, v)
      PROVE  RegistryTypes'
  <2>1. objects' \in Seq(ChannelObjects) /\ Len(objects') = Len(objects)
    BY <1>1, SetOneLevel DEF SetLevel
  <2> QED
    BY <1>1, <2>1 DEF SetLevel, loggers
<1>2. ASSUME NEW v \in Levels, SetAll(v)
      PROVE  objects' \in Seq(ChannelObjects) /\ Len(objects') = Len(objects)
  BY <1>2, SetAllLevels DEF SetAll
<1>3. ASSUME NEW l \in Loggers, NEW n \in Names, Logger(l, n) PROVE RegistryTypes'
  <2>1. CASE MustMake(n)
    <3>1. [name |-> n, level |-> FirstLevel] \in ChannelObjects
      BY DEF ChannelObjects, FirstLevel
    <3>2. objects' \in Seq(ChannelObjects) /\ Len(objects') = Len(objects) + 1
      <4>1. objects' = Append(objects, [name |-> n, level |-> FirstLevel])
        BY <1>3, <2>1 DEF Logger
      <4> QED
        BY <3>1, <4>1, AppendProperties
    <3>3. channels' \in [Names -> 0 .. Len(objects')]
      BY <1>3, <2>1, <3>2 DEF Logger
    <3> QED
      BY <1>3, <2>1, <3>2, <3>3, BoundsAssumption DEF Logger
  <2>2. CASE ~MustMake(n)
    BY <1>3, <2>2 DEF Logger
  <2> QED
    BY <2>1, <2>2
<1>4. ASSUME NEW l \in Loggers, DestroyLogger(l) \/ change_context(l) PROVE RegistryTypes'
  BY <1>4 DEF DestroyLogger, change_context, registry
<1>5. ASSUME NEW l \in Loggers, NEW v \in Levels, editable_logger_channel(l, v)
      PROVE  RegistryTypes'
  <2>1. view[l] \in 1 .. Len(objects) /\ SetLevel(view[l], v)
    BY <1>5 DEF editable_logger_channel
  <2> QED
    BY <1>1, <2>1
<1>6. ASSUME NEW n \in Names, NEW v \in Levels, editable_channel(n, v) PROVE RegistryTypes'
  <2>1. channels[n] \in 1 .. Len(objects) /\ SetLevel(channels[n], v)
    BY <1>6 DEF editable_channel
  <2> QED
    BY <1>1, <2>1
<1>7. ASSUME NEW n \in Names, mute_channel(n) PROVE RegistryTypes'
  <2>1. channels[n] \in 1 .. Len(objects) /\ SetLevel(channels[n], QUIET)
    BY <1>7 DEF mute_channel
  <2> QED
    BY <1>1, <2>1, LevelsAssumption
<1>8. ASSUME NEW v \in Levels, set_log_level(v) PROVE RegistryTypes'
  BY <1>2, <1>8 DEF set_log_level, loggers
<1>9. ASSUME NEW v \in Levels, NEW throws \in BOOLEAN, configure(v, throws)
      PROVE  RegistryTypes'
  BY <1>2, <1>9 DEF configure, loggers
<1>10. CASE clear_channels
  BY <1>10 DEF clear_channels, loggers
<1>11. CASE UNCHANGED <<registry, loggers>>
  BY <1>11 DEF registry, loggers
<1> QED
  BY <1>3, <1>4, <1>5, <1>6, <1>7, <1>8, <1>9, <1>10, <1>11, StepLeaves
     DEF Next, Configuring, vars

LEMMA LogTypesKept == Types /\ [Next]_vars => LogTypes'
<1> SUFFICES ASSUME Types, [Next]_vars PROVE LogTypes'
  OBVIOUS
<1> USE DEF Types, LogTypes
<1> DEFINE HasLogger(l) == \E t \in Threads : log[t] # NoLog /\ log[t].logger = l
<1>1. ASSUME UNCHANGED log, \A l \in Loggers : HasLogger(l) /\ view[l] # 0 => view'[l] # 0
      PROVE  LogTypes'
  BY <1>1 DEF OpenLogs, DumpingLogs
<1>2. ASSUME NEW l \in Loggers, NEW n \in Names, Logger(l, n) PROVE LogTypes'
  <2>1. \A k \in Loggers \ {l} : view'[k] = view[k]
    BY <1>2 DEF Logger, RegistryTypes
  <2>2. UNCHANGED log /\ view[l] = 0
    BY <1>2 DEF Logger, Call
  <2> QED
    BY <1>1, <2>1, <2>2
<1>3. ASSUME NEW l \in Loggers, DestroyLogger(l) PROVE LogTypes'
  <2>1. \A k \in Loggers \ {l} : view'[k] = view[k]
    BY <1>3 DEF DestroyLogger, RegistryTypes
  <2>2. ~HasLogger(l)
    BY <1>3 DEF DestroyLogger, UsedBy, ProcessTypes
  <2>3. UNCHANGED log
    BY <1>3 DEF DestroyLogger, Call
  <2> QED
    BY <1>1, <2>1, <2>2, <2>3
<1>4. CASE Configuring /\ UNCHANGED view
  BY <1>1, <1>4, ConfiguringLeaves
<1>5. ASSUME NEW t \in Threads, NEW l \in Loggers, NEW v \in Levels, Log(t, l, v)
      PROVE  LogTypes'
  <2> DEFINE new == [stage |-> "open", logger |-> l, level |-> v,
                     stream |-> HasStream(v, objects[view[l]].level),
                     wanted |-> Enabled(v, objects[view[l]].level)]
  <2>1. new \in OpenLogs /\ new # NoLog /\ new.logger = l
    BY DEF OpenLogs, NoLog, HasStream, Enabled
  <2>2. log' = [log EXCEPT ![t] = new] /\ UNCHANGED view /\ view[l] # 0
    BY <1>5 DEF Log, loggers
  <2> QED
    BY <2>1, <2>2
<1>6. ASSUME NEW t \in Threads, DestroyLog(t) PROVE LogTypes'
  <2> DEFINE new == [stage |-> "dumping", logger |-> log[t].logger, level |-> log[t].level,
                     wanted |-> log[t].wanted, handle |-> context]
  <2>1. log[t] \in OpenLogs /\ log[t] # NoLog
    BY <1>6 DEF DestroyLog, NoLog, DumpingLogs
  <2>2. new \in DumpingLogs /\ new.logger = log[t].logger
    BY <2>1 DEF OpenLogs, DumpingLogs, ContextTypes
  <2>3. log' = [log EXCEPT ![t] = new] \/ log' = [log EXCEPT ![t] = NoLog]
    BY <1>6 DEF DestroyLog
  <2>4. UNCHANGED view
    BY <1>6 DEF DestroyLog, loggers
  <2> QED
    BY <2>1, <2>2, <2>3, <2>4
<1>7. ASSUME NEW t \in Threads, Dump(t) PROVE LogTypes'
  BY <1>7 DEF Dump, loggers
<1>8. ASSUME NEW t \in Threads, Fork(t) PROVE LogTypes'
  BY <1>8 DEF Fork, loggers
<1>9. CASE UNCHANGED <<log, view>>
  BY <1>9
<1>10. ASSUME NEW t \in Threads, EndUpdate(t) PROVE UNCHANGED <<log, view>>
  BY <1>10 DEF EndUpdate, loggers
<1>11. ASSUME NEW t \in Threads, Write(t) PROVE UNCHANGED <<log, view>>
  BY <1>11 DEF Write, loggers
<1>12. Configuring => UNCHANGED view \/ \E l \in Loggers : DestroyLogger(l)
                                  \/ \E n \in Names : Logger(l, n)
  BY DEF Configuring, change_context, editable_logger_channel, editable_channel,
     mute_channel, SetLevel, set_log_level, configure, clear_channels, loggers
<1>13. [Next]_vars => \/ UNCHANGED <<log, view>> \/ Configuring
                      \/ \E t \in Threads : Step(t)
  BY DEF Next, vars, loggers, ProcessTypes
<1> QED
  BY <1>2, <1>3, <1>4, <1>5, <1>6, <1>7, <1>8, <1>9, <1>10, <1>11, <1>12, <1>13
     DEF Step, replace_global_context_info, BeginUpdate

LEMMA ContextTypesKept == Types /\ [Next]_vars => ContextTypes'
<1> SUFFICES ASSUME Types, [Next]_vars PROVE ContextTypes'
  OBVIOUS
<1> USE DEF Types, ContextTypes
<1>1. Begin => calls' \in 0 .. MaxCalls
  BY BoundsAssumption DEF Begin
<1>2. CASE Configuring
  BY <1>1, <1>2, ConfiguringLeaves DEF contexts
<1>3. CASE UNCHANGED <<context, copy>> /\ (UNCHANGED calls \/ Begin)
  BY <1>1, <1>3
<1>4. ASSUME NEW t \in Threads, NEW ks \in SUBSET Keys, replace_global_context_info(t, ks)
      PROVE  ContextTypes'
  <2>1. Begin /\ context' = Update(Empty, ks, calls') /\ UNCHANGED copy
    BY <1>4 DEF replace_global_context_info, Write
  <2> QED
    BY <1>1, <2>1, EmptyType, UpdateType
<1>5. ASSUME NEW t \in Threads, NEW ks \in SUBSET Keys, BeginUpdate(t, ks)
      PROVE  ContextTypes'
  <2> DEFINE new == [stage |-> "copied", keys |-> ks, write |-> calls',
                     info |-> Update(context, ks, calls')]
  <2>1. Begin /\ copy' = [copy EXCEPT ![t] = new] /\ UNCHANGED context
    BY <1>5 DEF BeginUpdate, Write, LeavesShared
  <2>2. new \in Copies
    BY <1>1, <2>1, UpdateType DEF Copies
  <2> QED
    BY <1>1, <2>1, <2>2
<1>6. ASSUME NEW t \in Threads, EndUpdate(t) PROVE ContextTypes'
  <2>1. context' = copy[t].info /\ copy[t] \in Copies
    BY <1>6 DEF EndUpdate, NewContext
  <2>2. context' \in Contexts
    BY <2>1 DEF Copies
  <2>3. copy' = [copy EXCEPT ![t] = Idle] /\ UNCHANGED calls
    BY <1>6 DEF EndUpdate, proc
  <2> QED
    BY <2>2, <2>3
<1>7. ASSUME NEW t \in Threads, Fork(t) PROVE ContextTypes'
  BY <1>7 DEF Fork
<1>8. ASSUME NEW t \in Threads,
             DestroyLog(t) \/ Dump(t) \/ \E l \in Loggers, v \in Levels : Log(t, l, v)
      PROVE  UNCHANGED <<context, copy>> /\ (UNCHANGED calls \/ Begin)
  BY <1>8 DEF DestroyLog, Dump, Log, contexts, proc
<1> QED
  BY <1>2, <1>3, <1>4, <1>5, <1>6, <1>7, <1>8
     DEF Next, Step, vars, contexts, proc, ProcessTypes

LEMMA ProcessTypesKept == Types /\ [Next]_vars => ProcessTypes'
<1> SUFFICES ASSUME Types, [Next]_vars PROVE ProcessTypes'
  OBVIOUS
<1> USE DEF Types, ProcessTypes
<1>1. CASE Configuring
  BY <1>1, ConfiguringLeaves DEF contexts
<1>2. ASSUME NEW t \in alive, Step(t), ~Fork(t)
      PROVE  /\ UNCHANGED alive
             /\ \A u \in Threads \ {t} : log'[u] = log[u] /\ copy'[u] = copy[u]
  BY <1>2 DEF Step, Log, DestroyLog, Dump, EndUpdate, replace_global_context_info,
     BeginUpdate, Write, Begin, contexts, proc, LogTypes, ContextTypes
<1>3. ASSUME NEW t \in alive, Fork(t) PROVE ProcessTypes'
  BY <1>3 DEF Fork
<1>4. CASE UNCHANGED vars
  BY <1>4 DEF vars, contexts, proc
<1> QED
  BY <1>1, <1>2, <1>3, <1>4 DEF Next

LEMMA TypesKept == Types /\ [Next]_vars => Types'
  BY RegistryTypesKept, LogTypesKept, ContextTypesKept, ProcessTypesKept DEF Types

-----------------------------------------------------------------------------
(* Channels.                                                                 *)

LEMMA RegistryKept == Types /\ Registry /\ [Next]_vars => Registry'
<1> SUFFICES ASSUME RegistryTypes, Registry, [Next]_vars PROVE Registry'
  BY DEF Types
<1> USE DEF Registry, Named, Sharing, LevelsFollowDefault
(* A step that keeps the objects' names and what refers to them.             *)
<1>1. ASSUME Len(objects') = Len(objects), UNCHANGED <<channels, view>>,
             forgotten \subseteq forgotten',
             \A i \in 1 .. Len(objects) : objects'[i].name = objects[i].name
      PROVE  Named' /\ Sharing'
  BY <1>1 DEF RegistryTypes
<1>2. ASSUME NEW c \in 1 .. Len(objects), NEW v \in Levels, SetLevel(c, v) PROVE Registry'
  <2>1. /\ Len(objects') = Len(objects)
        /\ \A i \in 1 .. Len(objects) :
             objects'[i] = IF i = c THEN [objects[c] EXCEPT !.level = v] ELSE objects[i]
    BY <1>2, SetOneLevel DEF SetLevel, RegistryTypes
  <2>2. \A i \in 1 .. Len(objects) : objects[i] \in ChannelObjects
    BY ElementOfSeq DEF RegistryTypes
  <2>3. \A i \in 1 .. Len(objects) : objects'[i].name = objects[i].name
    BY <2>1, <2>2 DEF ChannelObjects
  <2>4. Named' /\ Sharing'
    BY <1>1, <1>2, <2>1, <2>3 DEF SetLevel, loggers
  <2>5. Registered' = Registered /\ Registered \subseteq 1 .. Len(objects)
    BY <1>2 DEF SetLevel, Registered, RegistryTypes
  <2>6. LevelsFollowDefault'
    BY <1>2, <2>1, <2>5 DEF SetLevel
  <2> QED
    BY <2>4, <2>6
<1>3. ASSUME NEW v \in Levels, SetAll(v), default_level' = v,
             UNCHANGED <<channels, forgotten, view>>
      PROVE  Registry'
  <2>1. /\ Len(objects') = Len(objects)
        /\ \A i \in 1 .. Len(objects) :
              objects'[i] = IF i \in Registered THEN [objects[i] EXCEPT !.level = v]
                                                ELSE objects[i]
    BY <1>3, SetAllLevels DEF SetAll, RegistryTypes
  <2>2. \A i \in 1 .. Len(objects) : objects[i] \in ChannelObjects
    BY ElementOfSeq DEF RegistryTypes
  <2>3. /\ \A i \in 1 .. Len(objects) : objects'[i].name = objects[i].name
        /\ \A i \in Registered : i \in 1 .. Len(objects) => objects'[i].level = v
    BY <2>1, <2>2 DEF ChannelObjects
  <2>4. Named' /\ Sharing'
    BY <1>1, <1>3, <2>1, <2>3
  <2>5. Registered' = Registered /\ Registered \subseteq 1 .. Len(objects)
    BY <1>3 DEF Registered, RegistryTypes
  <2> QED
    BY <1>3, <2>3, <2>4, <2>5
<1>4. ASSUME NEW l \in Loggers, NEW n \in Names, Logger(l, n), MustMake(n)
      PROVE  Registry'
  <2> DEFINE new == [name |-> n, level |-> FirstLevel]
             last == Len(objects) + 1
  <2>1. objects' = Append(objects, new) /\ new \in ChannelObjects
    BY <1>4 DEF Logger, ChannelObjects, FirstLevel, RegistryTypes
  <2>2. /\ Len(objects') = last /\ objects'[last] = new
        /\ \A i \in 1 .. Len(objects) : objects'[i] = objects[i]
    BY <2>1, AppendProperties DEF RegistryTypes
  <2>3. /\ channels' = [channels EXCEPT ![n] = last]
        /\ view' = [view EXCEPT ![l] = last] /\ view[l] = 0
        /\ channels[n] = 0
        /\ UNCHANGED <<default_level, own, forgotten, interrupted>>
    BY <1>4, <2>2 DEF Logger, MustMake, RegistryTypes
  <2>4. new.name = n /\ new.level = default_level
    BY DEF FirstLevel
  <2>5. Named'
    BY <2>2, <2>3, <2>4 DEF RegistryTypes
  <2>6. Sharing'
    <3>1. channels'[objects'[last].name] = last
      BY <2>2, <2>3, <2>4 DEF RegistryTypes
    <3>2. ASSUME NEW k \in Loggers \ {l}, view'[k] # 0, view'[k] \notin forgotten
          PROVE  channels'[objects'[view'[k]].name] = view'[k]
      <4>1. view'[k] = view[k] /\ view[k] \in 1 .. Len(objects)
        BY <2>3, <3>2 DEF RegistryTypes
      <4>2. channels[objects[view[k]].name] = view[k] /\ objects[view[k]].name # n
        BY <2>3, <3>2, <4>1
      <4> QED
        BY <2>2, <2>3, <4>1, <4>2 DEF RegistryTypes
    <3> QED
      BY <2>3, <3>1, <3>2 DEF RegistryTypes
  <2>7. LevelsFollowDefault'
    <3>1. Registered' \subseteq Registered \cup {last} /\ Registered \subseteq 1 .. Len(objects)
      BY <2>3 DEF Registered, RegistryTypes
    <3> QED
      BY <2>2, <2>3, <2>4, <3>1
  <2> QED
    BY <2>5, <2>6, <2>7
<1>5. ASSUME NEW l \in Loggers, NEW n \in Names, Logger(l, n), ~MustMake(n)
      PROVE  Registry'
  <2>1. /\ view' = [view EXCEPT ![l] = channels[n]] /\ channels[n] # 0
        /\ UNCHANGED <<objects, channels, default_level, own, forgotten, interrupted>>
    BY <1>5 DEF Logger, MustMake
  <2>2. Registered' = Registered
    BY <2>1 DEF Registered
  <2>3. Named' /\ LevelsFollowDefault'
    BY <2>1, <2>2
  <2>4. Sharing'
    BY <2>1 DEF RegistryTypes
  <2> QED
    BY <2>3, <2>4
<1>6. ASSUME NEW l \in Loggers, DestroyLogger(l) PROVE Registry'
  <2>1. view' = [view EXCEPT ![l] = 0] /\ UNCHANGED registry
    BY <1>6 DEF DestroyLogger
  <2> QED
    BY <2>1 DEF registry, Registered, RegistryTypes
<1>7. CASE UNCHANGED <<registry, view>>
  BY <1>7 DEF registry, Registered
<1>8. ASSUME NEW v \in Levels, NEW throws \in BOOLEAN, configure(v, throws)
      PROVE  Registry'
  <2>1. CASE throws
    BY <1>8, <2>1 DEF configure, Registered, loggers
  <2>2. CASE ~throws
    BY <1>3, <1>8, <2>2 DEF configure, loggers
  <2> QED
    BY <2>1, <2>2
<1>9. CASE clear_channels
  <2>1. /\ channels' = [n \in Names |-> 0] /\ forgotten' = forgotten \cup Registered
        /\ UNCHANGED <<objects, view>>
    BY <1>9 DEF clear_channels, loggers
  <2>2. Registered' = {}
    BY <2>1 DEF Registered
  <2>3. \A l \in Loggers : view[l] # 0 => view[l] \in forgotten'
    <3>1. SUFFICES ASSUME NEW l \in Loggers, view[l] # 0, view[l] \notin forgotten
                   PROVE  view[l] \in Registered
      BY <2>1
    <3>2. view[l] \in 1 .. Len(objects) /\ objects[view[l]] \in ChannelObjects
      BY <3>1, ElementOfSeq DEF RegistryTypes
    <3>3. channels[objects[view[l]].name] = view[l]
      BY <3>1
    <3> QED
      BY <3>1, <3>2, <3>3 DEF Registered, ChannelObjects
  <2> QED
    BY <2>1, <2>2, <2>3
<1>10. ASSUME NEW l \in Loggers, NEW v \in Levels, editable_logger_channel(l, v)
       PROVE  view[l] \in 1 .. Len(objects) /\ SetLevel(view[l], v)
  BY <1>10 DEF editable_logger_channel, RegistryTypes
<1>11. ASSUME NEW n \in Names, NEW v \in Levels, editable_channel(n, v)
       PROVE  channels[n] \in 1 .. Len(objects) /\ SetLevel(channels[n], v)
  BY <1>11 DEF editable_channel, RegistryTypes
<1>12. ASSUME NEW n \in Names, mute_channel(n)
       PROVE  channels[n] \in 1 .. Len(objects) /\ SetLevel(channels[n], QUIET)
  BY <1>12 DEF mute_channel, RegistryTypes
<1>13. ASSUME NEW v \in Levels, set_log_level(v) PROVE Registry'
  BY <1>3, <1>13 DEF set_log_level, loggers
<1>14. ASSUME NEW l \in Loggers, change_context(l) PROVE UNCHANGED <<registry, view>>
  BY <1>14 DEF change_context
<1>15. CASE Configuring
  <2>1. QUIET \in Levels
    BY LevelsAssumption
  <2> QED
    BY <1>2, <1>4, <1>5, <1>6, <1>7, <1>8, <1>9, <1>10, <1>11, <1>12, <1>13, <1>14, <1>15,
       <2>1 DEF Configuring
<1> QED
  BY <1>7, <1>15, StepLeaves DEF Next, vars, registry, loggers

-----------------------------------------------------------------------------
(* Logs.                                                                     *)

LEMMA DecisionsKept == Types /\ Decisions /\ [Next]_vars => Decisions'
<1> SUFFICES ASSUME Types, Decisions, [Next]_vars PROVE Decisions'
  OBVIOUS
<1> USE DEF Types, LogTypes, Decisions, StreamIsDecision, DecidedWhenMade
<1>1. ASSUME UNCHANGED log, record' = NoRecord PROVE Decisions'
  BY <1>1
<1>2. CASE Configuring
  BY <1>1, <1>2, ConfiguringLeaves DEF Begin
<1>3. ASSUME NEW t \in Threads, NEW l \in Loggers, NEW v \in Levels, Log(t, l, v)
      PROVE  Decisions'
  <2>1. objects[view[l]].level \in LogLevels /\ v \in LogLevels
    <3>1. view[l] \in 1 .. Len(objects)
      BY <1>3 DEF Log, RegistryTypes
    <3>2. objects[view[l]] \in ChannelObjects
      BY <3>1, ElementOfSeq DEF RegistryTypes
    <3> QED
      BY <3>2, LevelsAssumption DEF ChannelObjects
  <2>2. HasStream(v, objects[view[l]].level) <=> Enabled(v, objects[view[l]].level)
    BY <2>1, StreamIsEnabled
  <2>3. /\ record' = NoRecord
        /\ log' = [log EXCEPT ![t] =
             [stage |-> "open", logger |-> l, level |-> v,
              stream |-> HasStream(v, objects[view[l]].level),
              wanted |-> Enabled(v, objects[view[l]].level)]]
    BY <1>3 DEF Log, Begin
  <2> QED
    BY <2>2, <2>3
<1>4. ASSUME NEW t \in Threads, DestroyLog(t) PROVE Decisions'
  <2>1. log[t] \in OpenLogs /\ (log[t].stream <=> log[t].wanted)
    BY <1>4 DEF DestroyLog, NoLog, DumpingLogs
  <2>2. CASE log[t].stream
    <3>1. /\ log' = [log EXCEPT ![t] =
               [stage |-> "dumping", logger |-> log[t].logger, level |-> log[t].level,
                wanted |-> log[t].wanted, handle |-> context]]
          /\ record' = NoRecord
      BY <1>4, <2>2 DEF DestroyLog, WillDump
    <3> QED
      BY <2>1, <2>2, <3>1
  <2>3. CASE ~log[t].stream
    <3>1. /\ log' = [log EXCEPT ![t] = NoLog]
          /\ record' = [log |-> log[t], dumped |-> FALSE]
      BY <1>4, <2>3 DEF DestroyLog, WillDump
    <3> QED
      BY <2>1, <2>3, <3>1 DEF NoLog
  <2> QED
    BY <2>2, <2>3
<1>5. ASSUME NEW t \in Threads, Dump(t) PROVE Decisions'
  <2>1. log[t].wanted /\ log' = [log EXCEPT ![t] = NoLog]
    BY <1>5 DEF Dump
  <2>2. record'.dumped /\ record'.log = log[t]
    BY <1>5 DEF Dump
  <2> QED
    BY <2>1, <2>2 DEF NoLog
<1>6. ASSUME NEW t \in Threads, Fork(t) PROVE Decisions'
  BY <1>6 DEF Fork, NoLog
<1>7. ASSUME NEW t \in Threads, EndUpdate(t) \/ Write(t) PROVE UNCHANGED log /\ record' = NoRecord
  BY <1>7 DEF EndUpdate, Write, Begin
<1>8. CASE UNCHANGED <<log, record>>
  BY <1>8
<1> QED
  BY <1>1, <1>2, <1>3, <1>4, <1>5, <1>6, <1>7, <1>8
     DEF Next, Step, replace_global_context_info, BeginUpdate, vars, ProcessTypes

-----------------------------------------------------------------------------
(* The global context.                                                       *)

LEMMA ContentsKept == Types /\ Contents /\ [Next]_vars => Contents'
<1> SUFFICES ASSUME Types, Contents, [Next]_vars PROVE Contents'
  OBVIOUS
<1> USE DEF Types, LogTypes, ContextTypes, Contents, WholeContexts, OnlyOverlapLoses,
            CopiesFollow
<1>1. CASE UNCHANGED <<contexts, log>>
  BY <1>1 DEF contexts
<1>2. ASSUME NEW t \in Threads, NEW l \in Loggers, NEW v \in Levels, Log(t, l, v)
      PROVE  Contents'
  <2>1. /\ UNCHANGED contexts
        /\ \A u \in Threads \ {t} : log'[u] = log[u]
        /\ log'[t].stage = "open"
    BY <1>2 DEF Log
  <2> QED
    BY <2>1 DEF contexts
<1>3. ASSUME NEW t \in Threads, DestroyLog(t) PROVE Contents'
  <2>1. /\ UNCHANGED contexts
        /\ \A u \in Threads \ {t} : log'[u] = log[u]
        /\ log'[t] = NoLog \/ log'[t].handle = context
    BY <1>3 DEF DestroyLog
  <2> QED
    BY <2>1 DEF contexts, NoLog
<1>4. ASSUME NEW t \in Threads, Dump(t) PROVE Contents'
  <2>1. UNCHANGED contexts /\ log' = [log EXCEPT ![t] = NoLog]
    BY <1>4 DEF Dump
  <2> QED
    BY <2>1 DEF contexts, NoLog
<1>5. ASSUME NEW t \in alive, NEW ks \in SUBSET Keys, replace_global_context_info(t, ks)
      PROVE  Contents'
  <2>1. /\ expected' = context' /\ published' = published \cup {context'}
        /\ contended' = Others(t) /\ copy[t] = Idle
        /\ UNCHANGED <<copy, log>>
    BY <1>5 DEF replace_global_context_info, Write, InCall
  <2>2. ~contended' => \A u \in Threads : copy[u] = Idle
    BY <2>1 DEF Others, ProcessTypes
  <2> QED
    BY <2>1, <2>2
<1>6. ASSUME NEW t \in alive, NEW ks \in SUBSET Keys, BeginUpdate(t, ks) PROVE Contents'
  <2>1. /\ UNCHANGED <<context, published, expected, contended, log>>
        /\ \A u \in Threads \ {t} : copy'[u] = copy[u]
        /\ copy'[t].info = Update(context, ks, calls')
        /\ copy'[t].keys = ks /\ copy'[t].write = calls'
    BY <1>6 DEF BeginUpdate, LeavesShared, Write, ProcessTypes
  <2> QED
    BY <2>1
<1>7. ASSUME NEW t \in alive, EndUpdate(t) PROVE Contents'
  <2>1. /\ copy[t] # Idle /\ context' = copy[t].info
        /\ published' = published \cup {context'}
        /\ expected' = Update(expected, copy[t].keys, copy[t].write)
        /\ contended' = (contended \/ Others(t))
        /\ copy' = [copy EXCEPT ![t] = Idle] /\ UNCHANGED log
    BY <1>7 DEF EndUpdate, NewContext
  <2>2. ~contended' => ~contended /\ \A u \in Threads : copy'[u] = Idle
    BY <2>1 DEF Others, ProcessTypes
  <2> QED
    BY <2>1, <2>2 DEF ProcessTypes
<1>8. ASSUME NEW t \in alive, Fork(t) PROVE Contents'
  BY <1>8 DEF Fork, NoLog
<1> QED
  BY <1>1, <1>2, <1>3, <1>4, <1>5, <1>6, <1>7, <1>8, ConfiguringLeaves
     DEF Next, Step, vars, ProcessTypes

-----------------------------------------------------------------------------
(* Records.                                                                  *)

(* What a key shows is looked up in the sources from the most local one on.  *)
LEMMA Precedence ==
  ASSUME NEW ks \in SUBSET Keys, NEW ls \in SUBSET Keys, NEW c \in Contexts,
         NEW extra \in BOOLEAN, NEW k \in Keys
  PROVE  LET json == init_context_info_impl(Values("log", ks), Values("logger", ls),
                                            GlobalValues(c), extra)
             identified == k = "session_id" /\ extra
             Shows(v)   == k \in DOMAIN json /\ json[k] = v
         IN  /\ identified => Shows(<<"extra_identifier">>)
             /\ k \in ks /\ ~identified => Shows(<<"log", k>>)
             /\ k \in ls /\ k \notin ks /\ ~identified => Shows(<<"logger", k>>)
             /\ c[k] # 0 /\ k \notin ls /\ k \notin ks /\ ~identified => Shows(<<"global", c[k]>>)
             /\ k \in DOMAIN json => identified \/ k \in ks \/ k \in ls \/ c[k] # 0
<1> DEFINE gs == {g \in Keys : c[g] # 0}
           m1 == Insert(Values("log", ks), Values("logger", ls))
           m2 == Insert(m1, GlobalValues(c))
<1>1. m1 = [g \in ks \cup ls |-> IF g \in ks THEN <<"log", g>> ELSE <<"logger", g>>]
  BY DEF Insert, Values
<1>2. GlobalValues(c) = [g \in gs |-> <<"global", c[g]>>]
  BY DEF GlobalValues
<1> HIDE DEF m1, gs
<1>3. DOMAIN m1 = ks \cup ls /\ DOMAIN GlobalValues(c) = gs
  BY <1>1, <1>2
<1>4. m2 = [g \in ks \cup ls \cup gs |-> IF g \in ks \cup ls THEN m1[g] ELSE <<"global", c[g]>>]
  BY <1>2, <1>3 DEF Insert
<1>5. DOMAIN m2 = ks \cup ls \cup gs
  BY <1>4
<1>6. /\ k \in ks => m2[k] = <<"log", k>>
      /\ k \in ls /\ k \notin ks => m2[k] = <<"logger", k>>
      /\ k \in gs /\ k \notin ls /\ k \notin ks => m2[k] = <<"global", c[k]>>
  BY <1>1, <1>4
<1>7. k \in gs <=> c[k] # 0
  BY DEF gs
<1> HIDE DEF m2
<1> QED
  BY <1>5, <1>6, <1>7 DEF init_context_info_impl, m1, m2

LEMMA MostLocalWinsKept == Types /\ MostLocalWins /\ [Next]_vars => MostLocalWins'
<1> SUFFICES ASSUME Types, MostLocalWins, [Next]_vars PROVE MostLocalWins'
  OBVIOUS
<1>1. CASE record' = NoRecord
  BY <1>1 DEF MostLocalWins
<1>2. CASE UNCHANGED record
  BY <1>2 DEF MostLocalWins
<1>3. ASSUME NEW t \in Threads, DestroyLog(t) PROVE MostLocalWins'
  <2>1. record' = NoRecord \/ ~record'.dumped
    BY <1>3 DEF DestroyLog
  <2> QED
    BY <2>1 DEF MostLocalWins
<1>4. ASSUME NEW t \in Threads, Dump(t) PROVE MostLocalWins'
  <2> DEFINE g == log[t]
             ls == logger_context[log[t].logger]
  <2>1. g \in DumpingLogs /\ g.handle \in Contexts /\ ls \in SUBSET Keys
    BY <1>4 DEF Dump, Types, LogTypes, RegistryTypes, OpenLogs, DumpingLogs, NoLog
  <2>2. PICK ks \in SUBSET Keys, extra \in BOOLEAN :
          record' = [log |-> g, dumped |-> TRUE, own_keys |-> ks, extra |-> extra,
                     logger_keys |-> ls,
                     json |-> init_context_info_impl(Values("log", ks), Values("logger", ls),
                                                     GlobalValues(g.handle), extra)]
    BY <1>4 DEF Dump
  <2>3. /\ record'.log = g /\ record'.own_keys = ks /\ record'.extra = extra
        /\ record'.logger_keys = ls
        /\ record'.json = init_context_info_impl(Values("log", ks), Values("logger", ls),
                                                 GlobalValues(g.handle), extra)
    BY <2>2
  <2> HIDE DEF g, ls
  <2> QED
    BY <2>1, <2>3, Precedence DEF MostLocalWins
<1> QED
  BY <1>1, <1>2, <1>3, <1>4, ConfiguringLeaves
     DEF Next, Step, Log, EndUpdate, Fork, replace_global_context_info, BeginUpdate, Write,
         Begin, vars, Types, ProcessTypes

LEMMA InitIInv == Init => IInv
<1> SUFFICES ASSUME Init PROVE IInv
  OBVIOUS
<1>1. Types
  BY InitTypes
<1>2. Registry
  <2>1. objects[1].name = "GLOBAL" /\ objects[1].level = default_level
    BY DEF Init
  <2> QED
    BY <2>1, NamesAssumption DEF Init, Registry, Named, Sharing, LevelsFollowDefault, Registered
<1>3. Decisions
  BY DEF Init, Decisions, StreamIsDecision, DecidedWhenMade, NoLog
<1>4. Contents
  BY DEF Init, Contents, WholeContexts, OnlyOverlapLoses, CopiesFollow, NoLog
<1>5. MostLocalWins
  BY DEF Init, MostLocalWins
<1> QED
  BY <1>1, <1>2, <1>3, <1>4, <1>5 DEF IInv

LEMMA IInvInductive == IInv /\ [Next]_vars => IInv'
  BY TypesKept, RegistryKept, DecisionsKept, ContentsKept, MostLocalWinsKept DEF IInv

-----------------------------------------------------------------------------
(* The theorems.                                                             *)

(* Loggers, Logs and contexts keep to IInv in every behaviour.               *)
THEOREM Invariance == Spec => []IInv
<1>1. Init => IInv
  BY InitIInv
<1>2. IInv /\ [Next]_vars => IInv'
  BY IInvInductive
<1> QED
  BY <1>1, <1>2, PTL DEF Spec

(* Every variable keeps its type; a Log never refers to a Logger that has    *)
(* been destroyed.                                                           *)
THEOREM TypeCorrect == Spec => []TypeOK
<1>1. IInv => TypeOK
  <2> SUFFICES ASSUME IInv PROVE TypeOK
    OBVIOUS
  <2>1. \A t \in Threads : log[t] # NoLog =>
          /\ log[t].logger \in Loggers /\ view[log[t].logger] # 0 /\ log[t].level \in Levels
          /\ log[t].stage = "dumping" => log[t].handle \in Contexts
    BY DEF IInv, Types, LogTypes, OpenLogs, DumpingLogs
  <2>2. context \in Contexts /\ \A t \in Threads : copy[t] # Idle => copy[t].info \in Contexts
    BY DEF IInv, Types, ContextTypes, Copies
  <2>3. alive \in (SUBSET Threads) \ {{}}
    BY DEF IInv, Types, ProcessTypes
  <2> QED
    BY <2>1, <2>2, <2>3 DEF IInv, Types, RegistryTypes, ChannelObjects, TypeOK
<1> QED
  BY <1>1, Invariance, PTL

(* Loggers of one name share the channel of the registry, unless             *)
(* clear_channels has removed the channel of the older one.                  *)
THEOREM ChannelsAreShared == Spec => []Sharing
<1>1. IInv => Sharing
  BY DEF IInv, Registry
<1> QED
  BY <1>1, Invariance, PTL

(* After any sequence of set_log_level, configure and per-channel changes, a *)
(* channel without a level of its own has the default one.                   *)
THEOREM DefaultReachesAll == Spec => []LevelsFollowDefault
<1>1. IInv => LevelsFollowDefault
  BY DEF IInv, Registry
<1> QED
  BY <1>1, Invariance, PTL

(* A Log is dumped exactly when its level was enabled when it was made.      *)
THEOREM JudgedOnce == Spec => []DecidedWhenMade
<1>1. IInv => DecidedWhenMade
  BY DEF IInv, Decisions
<1> QED
  BY <1>1, Invariance, PTL

(* The context a destructor holds was the global one as a whole.             *)
THEOREM ContextsAreWhole == Spec => []WholeContexts
<1>1. IInv => WholeContexts
  BY DEF IInv, Contents
<1> QED
  BY <1>1, Invariance, PTL

(* No write of the global context is lost as long as writes do not overlap,  *)
(* whatever else the threads and their forks do.                             *)
THEOREM NothingElseLoses == Spec => []OnlyOverlapLoses
<1>1. IInv => OnlyOverlapLoses
  BY DEF IInv, Contents
<1> QED
  BY <1>1, Invariance, PTL

(* Of the contexts of a Log, its Logger and the program, the most local one  *)
(* that has a key decides what a JSON record shows for it.                   *)
THEOREM PrecedenceHolds == Spec => []MostLocalWins
<1>1. IInv => MostLocalWins
  BY DEF IInv
<1> QED
  BY <1>1, Invariance, PTL
=============================================================================

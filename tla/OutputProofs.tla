---------------------------- MODULE OutputProofs ----------------------------
(***************************************************************************)
(* From options to lines in Output: for any settings, any logs and any     *)
(* number of sinks.                                                        *)
(*                                                                         *)
(* The inductive invariant keeps every configuration in the form in which  *)
(* each option is the text of what was asked for (Configured), and says of *)
(* each log that was dumped that a sink has written what it writes of the  *)
(* log alone, on a terminal without a color (LogsWritten).  The properties *)
(* follow from these two by what the constructors and the formats do.      *)
(***************************************************************************)
EXTENDS SdkLogProofs

OptionNames == {s[2] : s \in Settings}
NamesOfSinks == {SinkName[t] : t \in SinkTypes}

SomeOptions(S) == UNION {[D -> S] : D \in SUBSET OptionNames}

(* A configuration keeps the texts of the values that were asked for.        *)
Configs ==
    {c \in [name : NamesOfSinks, type : SinkTypes, options : SomeOptions(Texts), asked : SomeOptions(Values)] :
        c.options = [o \in DOMAIN c.asked |-> convert_from(c.asked[o])]}

(* The flags and the format of a sink are those that were asked for.         *)
Honoured(s) ==
    /\ s.type = CONSOLE_SINK =>
         /\ FormatHonoured(s, PLAINTEXT_LONG)
         /\ FlagHonoured(s, "CONSOLE_DISABLE_COLOR", FALSE, s.no_color)
         /\ FlagHonoured(s, "CONSOLE_DISABLE_CONTEXT_INFO", TRUE, s.no_context)
    /\ s.type = FILE_SINK =>
         /\ FormatHonoured(s, PLAINTEXT_LONG)
         /\ FlagHonoured(s, "FILE_DISABLE_CONTEXT_INFO", TRUE, s.no_context)
         /\ s.dated = ~({"FILE_NO_DATE_ON_NAME", "FILE_NO_TIME_ON_NAME"} \subseteq DOMAIN s.asked)
    /\ s.type = SYSLOG_SINK => FormatHonoured(s, PLAINTEXT_SHORT)
    /\ s.type = CONSOLE_JSON_SINK => FlagHonoured(s, "LOG_THREAD_ID", FALSE, s.thread_id)
    /\ s.type = CUSTOM_SINK /\ ~s.thread_id => FlagHonoured(s, "LOG_THREAD_ID", FALSE, FALSE)

Sinks ==
    {s \in [name : NamesOfSinks, type : SinkTypes, asked : SomeOptions(Values), format : 0 .. 255,
            no_color : BOOLEAN, no_context : BOOLEAN, thread_id : BOOLEAN, dated : BOOLEAN,
            stream : Streams \cup {NO_STREAM}] : Honoured(s)}

-----------------------------------------------------------------------------
(* Options                                                                   *)

LEMMA ConvertFacts ==
  ASSUME NEW v \in Values
  PROVE  /\ convert_from(v) \in Texts
         /\ v[1] \in {"bool", "int", "text"}
         /\ v[1] = "bool" => v[2] \in {0, 1} /\ convert_from(v) = Numeral(v[2])
         /\ v[1] = "int" => v[2] \in Int /\ convert_from(v) = Numeral(v[2])
         /\ v[1] = "text" => convert_from(v) = v[2]
  BY DEF Values, Texts, convert_from, Numeral

LEMMA ReadFacts ==
  ASSUME NEW t \in Texts
  PROVE  /\ ReadInt(t) \subseteq Int /\ ReadBool(t) \subseteq BOOLEAN
         /\ \A n \in Int : t = Numeral(n) => ReadInt(t) = {n} /\ \A b \in ReadBool(t) : b = (n # 0)
         /\ t = Word => ReadInt(t) = {0} /\ \A b \in ReadBool(t) : ~b
<1>1. CASE t \in {"numeral"} \X Int
  <2>1. PICK m \in Int : t = <<"numeral", m>>
    BY <1>1
  <2>2. t[1] = "numeral" /\ t[2] = m
    BY <2>1
  <2>3. ReadInt(t) = {m}
    BY <2>2 DEF ReadInt
  <2>4. ReadBool(t) = {m # 0}
    BY <2>2 DEF ReadBool
  <2>5. t # Word /\ \A n \in Int : t = Numeral(n) => n = m
    BY <2>1 DEF Word, Numeral
  <2>6. \A b \in ReadBool(t) : b = (m # 0)
    BY <2>4, Zenon
  <2>7. (m # 0) \in BOOLEAN
    OBVIOUS
  <2>8. ReadBool(t) \subseteq BOOLEAN
    BY <2>6, <2>7, Zenon
  <2> QED
    BY <2>1, <2>3, <2>5, <2>6, <2>8
<1>2. CASE t = Word
  <2>1. t[1] = "word" /\ \A n : t # Numeral(n)
    BY <1>2 DEF Word, Numeral
  <2>2. ReadInt(t) = {0} /\ ReadBool(t) = {FALSE}
    BY <2>1 DEF ReadInt, ReadBool
  <2>3. ReadBool(t) \subseteq BOOLEAN /\ \A b \in ReadBool(t) : ~b
    BY <2>2, Zenon
  <2>4. ReadInt(t) = {0} /\ ReadInt(t) \subseteq Int
    BY <2>2
  <2> QED
    BY <2>1, <2>3, <2>4, Zenon
<1>3. CASE t = Blank
  <2>1. t[1] = "blank" /\ t # Word /\ \A n : t # Numeral(n)
    BY <1>3 DEF Blank, Word, Numeral
  <2>2. ReadInt(t) = Uninitialised /\ ReadBool(t) = BOOLEAN
    BY <2>1 DEF ReadInt, ReadBool
  <2> QED
    BY <2>1, <2>2, UninitialisedAssumption
<1> QED
  BY <1>1, <1>2, <1>3 DEF Texts

LEMMA OptionsType ==
  ASSUME NEW S, NEW f
  PROVE  f \in SomeOptions(S) <=> DOMAIN f \subseteq OptionNames /\ f \in [DOMAIN f -> S]
<1>1. ASSUME f \in SomeOptions(S) PROVE DOMAIN f \subseteq OptionNames /\ f \in [DOMAIN f -> S]
  <2>1. PICK D \in SUBSET OptionNames : f \in [D -> S]
    BY <1>1 DEF SomeOptions
  <2>2. DOMAIN f = D
    BY <2>1
  <2> QED
    BY <2>1, <2>2
<1>2. ASSUME DOMAIN f \subseteq OptionNames, f \in [DOMAIN f -> S] PROVE f \in SomeOptions(S)
  BY <1>2 DEF SomeOptions
<1> QED
  BY <1>1, <1>2

LEMMA AskedFacts ==
  ASSUME NEW c \in Configs
  PROVE  /\ c.name \in NamesOfSinks /\ c.type \in SinkTypes /\ c.asked \in SomeOptions(Values)
         /\ c.options \in SomeOptions(Texts)
         /\ DOMAIN c.options = DOMAIN c.asked
         /\ \A o \in DOMAIN c.asked : c.asked[o] \in Values /\ c.options[o] = convert_from(c.asked[o])
<1>1. /\ c.name \in NamesOfSinks /\ c.type \in SinkTypes /\ c.asked \in SomeOptions(Values)
      /\ c.options \in SomeOptions(Texts)
      /\ c.options = [o \in DOMAIN c.asked |-> convert_from(c.asked[o])]
  BY DEF Configs
<1>2. c.asked \in [DOMAIN c.asked -> Values]
  BY <1>1, OptionsType
<1> QED
  BY <1>1, <1>2

(* What is read of an option: the value asked for, or the default.           *)
LEMMA FlagRead ==
  ASSUME NEW c \in Configs, NEW o, NEW default \in {0, 1}, NEW flag \in BoolOption(c, o, default), NEW s, s.asked = c.asked
  PROVE  flag \in BOOLEAN /\ FlagHonoured(s, o, default = 1, flag)
<1> DEFINE t == OptionText(c, o, <<"bool", default>>)
<1>1. flag \in ReadBool(t)
  BY DEF BoolOption
<1>2. CASE o \notin DOMAIN c.asked
  <2>1. t = Numeral(default)
    BY <1>2, AskedFacts DEF OptionText, has_option, convert_from
  <2>2. t \in Texts /\ default \in Int
    BY <2>1 DEF Texts, Numeral
  <2>3. flag = (default # 0)
    BY <1>1, <2>1, <2>2, ReadFacts
  <2>4. flag \in BOOLEAN
    BY <1>1, <2>2, ReadFacts
  <2> QED
    BY <1>2, <2>3, <2>4 DEF FlagHonoured
<1>3. CASE o \in DOMAIN c.asked
  <2> DEFINE v == c.asked[o]
  <2>1. t = convert_from(v) /\ v \in Values
    BY <1>3, AskedFacts DEF OptionText, has_option
  <2> HIDE DEF t, v
  <2>2. t \in Texts
    BY <2>1, ConvertFacts
  <2>3. flag \in BOOLEAN
    BY <1>1, <2>2, ReadFacts
  <2>4. v[1] = "bool" => flag = (v[2] = 1)
    <3>1. SUFFICES ASSUME v[1] = "bool" PROVE flag = (v[2] = 1)
      OBVIOUS
    <3>2. v[2] \in {0, 1} /\ t = Numeral(v[2])
      BY <2>1, <3>1, ConvertFacts
    <3>3. flag = (v[2] # 0)
      BY <1>1, <2>2, <3>2, ReadFacts
    <3> QED
      BY <3>2, <3>3
  <2>5. v = <<"text", Word>> => ~flag
    <3>1. SUFFICES ASSUME v = <<"text", Word>> PROVE ~flag
      OBVIOUS
    <3>2. t = Word
      BY <2>1, <3>1 DEF convert_from
    <3> QED
      BY <1>1, <2>2, <3>2, ReadFacts
  <2> QED
    BY <1>3, <2>3, <2>4, <2>5 DEF FlagHonoured, v
<1> QED
  BY <1>2, <1>3

LEMMA FormatRead ==
  ASSUME NEW c \in Configs, NEW default \in LineFormats, NEW f \in extract_format_with_default(c, default),
         NEW s, s.asked = c.asked, s.format = f
  PROVE  f \in 0 .. 255 /\ FormatHonoured(s, default)
<1> DEFINE t == OptionText(c, "LINE_FORMAT", <<"int", default>>)
<1>0. default \in 0 .. 255
  BY DEF LineFormats, PLAINTEXT_LONG, PLAINTEXT_SHORT, JSON
<1>1. PICK i \in ReadInt(t) : f = i % 256
  BY DEF IntOption, extract_format_with_default
<1>2. CASE "LINE_FORMAT" \notin DOMAIN c.asked
  <2>1. t = Numeral(default)
    BY <1>2, AskedFacts DEF OptionText, has_option, convert_from
  <2>2. t \in Texts /\ default \in Int
    BY <1>0, <2>1 DEF Texts, Numeral
  <2>3. i = default
    BY <1>1, <2>1, <2>2, ReadFacts
  <2> QED
    BY <1>0, <1>1, <1>2, <2>3 DEF FormatHonoured
<1>3. CASE "LINE_FORMAT" \in DOMAIN c.asked
  <2> DEFINE v == c.asked["LINE_FORMAT"]
  <2>1. t = convert_from(v) /\ v \in Values
    BY <1>3, AskedFacts DEF OptionText, has_option
  <2> HIDE DEF t, v
  <2>2. t \in Texts
    BY <2>1, ConvertFacts
  <2>3. i \in Int /\ f \in 0 .. 255
    <3>1. i \in Int
      BY <1>1, <2>2, ReadFacts
    <3> QED
      BY <1>1, <3>1
  <2>4. v \in {"int"} \X (0 .. 255) => f = v[2]
    <3>1. SUFFICES ASSUME v \in {"int"} \X (0 .. 255) PROVE f = v[2]
      OBVIOUS
    <3>2. v[1] = "int" /\ v[2] \in 0 .. 255
      BY <3>1
    <3>3. v[2] \in Int /\ t = Numeral(v[2])
      BY <2>1, <3>2, ConvertFacts
    <3>4. i = v[2]
      BY <1>1, <2>2, <3>3, ReadFacts
    <3> QED
      BY <1>1, <3>2, <3>4
  <2> QED
    BY <1>3, <2>3, <2>4 DEF FormatHonoured, v
<1> QED
  BY <1>2, <1>3

-----------------------------------------------------------------------------
(* The constructors honour what was asked for.                               *)

LEMMA SinkFacts ==
  ASSUME NEW c \in Configs, NEW f \in 0 .. 255, NEW b \in BOOLEAN, NEW h \in BOOLEAN, NEW t \in BOOLEAN, NEW d \in BOOLEAN
  PROVE  LET s == Sink(c, f, b, h, t, d)
         IN  /\ s.asked = c.asked /\ s.format = f /\ s.type = c.type /\ s.no_color = b /\ s.no_context = h
             /\ s.thread_id = t /\ s.dated = d
             /\ Honoured(s) => s \in Sinks
<1> DEFINE s == Sink(c, f, b, h, t, d)
<1>1. c.name \in NamesOfSinks /\ c.type \in SinkTypes /\ c.asked \in SomeOptions(Values)
  BY AskedFacts
<1>2. s = [name |-> c.name, type |-> c.type, asked |-> c.asked, format |-> f, no_color |-> b,
           no_context |-> h, thread_id |-> t, dated |-> d, stream |-> NO_STREAM]
  BY DEF Sink
<1> HIDE DEF s
<1>3. s \in [name : NamesOfSinks, type : SinkTypes, asked : SomeOptions(Values), format : 0 .. 255,
             no_color : BOOLEAN, no_context : BOOLEAN, thread_id : BOOLEAN, dated : BOOLEAN,
             stream : Streams \cup {NO_STREAM}]
  BY <1>1, <1>2
<1>4. Honoured(s) => s \in Sinks
  BY <1>3, Zenon DEF Sinks
<1>5. /\ s.asked = c.asked /\ s.format = f /\ s.type = c.type /\ s.no_color = b /\ s.no_context = h
      /\ s.thread_id = t /\ s.dated = d
  BY <1>2
<1> QED
  BY <1>4, <1>5 DEF s

LEMMA TypesDiffer ==
  /\ CONSOLE_SINK \notin {FILE_SINK, SYSLOG_SINK, CONSOLE_JSON_SINK, CUSTOM_SINK}
  /\ FILE_SINK \notin {SYSLOG_SINK, CONSOLE_JSON_SINK, CUSTOM_SINK}
  /\ SYSLOG_SINK \notin {CONSOLE_JSON_SINK, CUSTOM_SINK}
  /\ CONSOLE_JSON_SINK # CUSTOM_SINK
  BY DEF CONSOLE_SINK, FILE_SINK, SYSLOG_SINK, CONSOLE_JSON_SINK, CUSTOM_SINK

LEMMA ConsoleHonoured ==
  ASSUME NEW c \in Configs, c.type = CONSOLE_SINK, NEW s \in ConsoleSink(c)
  PROVE  s \in Sinks
<1>1. PICK f \in extract_format_with_default(c, PLAINTEXT_LONG),
           b \in BoolOption(c, "CONSOLE_DISABLE_COLOR", 0),
           h \in BoolOption(c, "CONSOLE_DISABLE_CONTEXT_INFO", 1) : s = Sink(c, f, b, h, FALSE, FALSE)
  BY DEF ConsoleSink, Sink
<1>2. s.asked = c.asked /\ s.format = f /\ s.type = c.type /\ s.no_color = b /\ s.no_context = h
  BY <1>1 DEF Sink
<1>3. f \in 0 .. 255 /\ FormatHonoured(s, PLAINTEXT_LONG)
  BY <1>2, FormatRead DEF LineFormats
<1>4. b \in BOOLEAN /\ FlagHonoured(s, "CONSOLE_DISABLE_COLOR", FALSE, b)
  <2>1. b \in BOOLEAN /\ FlagHonoured(s, "CONSOLE_DISABLE_COLOR", 0 = 1, b)
    BY <1>2, FlagRead
  <2>2. (0 = 1) = FALSE
    OBVIOUS
  <2> QED
    BY <2>1, <2>2
<1>5. h \in BOOLEAN /\ FlagHonoured(s, "CONSOLE_DISABLE_CONTEXT_INFO", TRUE, h)
  <2>1. h \in BOOLEAN /\ FlagHonoured(s, "CONSOLE_DISABLE_CONTEXT_INFO", 1 = 1, h)
    BY <1>2, FlagRead
  <2>2. (1 = 1) = TRUE
    OBVIOUS
  <2> QED
    BY <2>1, <2>2
<1>6. Honoured(s)
  BY <1>2, <1>3, <1>4, <1>5, TypesDiffer DEF Honoured
<1> QED
  BY <1>1, <1>3, <1>4, <1>5, <1>6, SinkFacts

LEMMA FileHonoured ==
  ASSUME NEW c \in Configs, c.type = FILE_SINK, NEW s \in FileSink(c)
  PROVE  s \in Sinks
<1> DEFINE d == ~(has_option(c, "FILE_NO_DATE_ON_NAME") /\ has_option(c, "FILE_NO_TIME_ON_NAME"))
<1>1. PICK f \in extract_format_with_default(c, PLAINTEXT_LONG),
           h \in BoolOption(c, "FILE_DISABLE_CONTEXT_INFO", 1) : s = Sink(c, f, TRUE, h, FALSE, d)
  BY DEF FileSink, Sink
<1>2. s.asked = c.asked /\ s.format = f /\ s.type = c.type /\ s.no_context = h /\ s.dated = d
  BY <1>1 DEF Sink
<1>3. f \in 0 .. 255 /\ FormatHonoured(s, PLAINTEXT_LONG)
  BY <1>2, FormatRead DEF LineFormats
<1>4. h \in BOOLEAN /\ FlagHonoured(s, "FILE_DISABLE_CONTEXT_INFO", TRUE, h)
  <2>1. h \in BOOLEAN /\ FlagHonoured(s, "FILE_DISABLE_CONTEXT_INFO", 1 = 1, h)
    BY <1>2, FlagRead
  <2>2. (1 = 1) = TRUE
    OBVIOUS
  <2> QED
    BY <2>1, <2>2
<1>5. d = ~({"FILE_NO_DATE_ON_NAME", "FILE_NO_TIME_ON_NAME"} \subseteq DOMAIN s.asked)
  <2>1. DOMAIN c.options = DOMAIN s.asked
    BY <1>2, AskedFacts
  <2> QED
    BY <2>1 DEF has_option
<1>6. Honoured(s)
  <2> HIDE DEF d
  <2> QED
    BY <1>2, <1>3, <1>4, <1>5, TypesDiffer DEF Honoured
<1>7. d \in BOOLEAN
  OBVIOUS
<1> HIDE DEF d
<1> QED
  BY <1>1, <1>3, <1>4, <1>6, <1>7, SinkFacts

LEMMA SysLogHonoured ==
  ASSUME NEW c \in Configs, c.type = SYSLOG_SINK, NEW s \in SysLogSink(c)
  PROVE  s \in Sinks
<1>1. PICK f \in extract_format_with_default(c, PLAINTEXT_SHORT) : s = Sink(c, f, TRUE, FALSE, FALSE, FALSE)
  BY DEF SysLogSink
<1>2. s.asked = c.asked /\ s.format = f /\ s.type = c.type
  BY <1>1 DEF Sink
<1>3. f \in 0 .. 255 /\ FormatHonoured(s, PLAINTEXT_SHORT)
  BY <1>2, FormatRead DEF LineFormats
<1>4. Honoured(s)
  BY <1>2, <1>3, TypesDiffer DEF Honoured
<1> QED
  BY <1>1, <1>3, <1>4, SinkFacts

LEMMA ThreadRead ==
  ASSUME NEW c \in Configs, NEW t \in BoolOption(c, "LOG_THREAD_ID", 0), NEW s, s.asked = c.asked
  PROVE  t \in BOOLEAN /\ FlagHonoured(s, "LOG_THREAD_ID", FALSE, t)
<1>1. t \in BOOLEAN /\ FlagHonoured(s, "LOG_THREAD_ID", 0 = 1, t)
  BY FlagRead
<1>2. (0 = 1) = FALSE
  OBVIOUS
<1> QED
  BY <1>1, <1>2

LEMMA JsonHonoured ==
  ASSUME NEW c \in Configs, c.type = CONSOLE_JSON_SINK, NEW s \in ConsoleJSONSink(c)
  PROVE  s \in Sinks
<1>1. PICK t \in BoolOption(c, "LOG_THREAD_ID", 0) : s = Sink(c, JSON, TRUE, FALSE, t, FALSE)
  BY DEF ConsoleJSONSink
<1>2. s.asked = c.asked /\ s.type = c.type /\ s.thread_id = t
  BY <1>1 DEF Sink
<1>3. t \in BOOLEAN /\ FlagHonoured(s, "LOG_THREAD_ID", FALSE, t)
  BY <1>2, ThreadRead
<1>4. Honoured(s)
  BY <1>2, <1>3, TypesDiffer DEF Honoured
<1>5. JSON \in 0 .. 255
  BY DEF JSON
<1> QED
  BY <1>1, <1>3, <1>4, <1>5, SinkFacts

LEMMA CloudWatchHonoured ==
  ASSUME NEW c \in Configs, c.type = CUSTOM_SINK, NEW log_thread_id \in BOOLEAN, NEW stream \in Streams,
         NEW s \in CloudWatchSink(c, log_thread_id, stream)
  PROVE  s \in Sinks /\ s.type = CUSTOM_SINK
<1>1. PICK t \in BoolOption(c, "LOG_THREAD_ID", 0) :
        s = [Sink(c, JSON, TRUE, FALSE, log_thread_id \/ t, FALSE) EXCEPT !.stream = stream]
  BY DEF CloudWatchSink
<1> DEFINE h == log_thread_id \/ t
<1>2. s = [name |-> c.name, type |-> c.type, asked |-> c.asked, format |-> JSON, no_color |-> TRUE,
           no_context |-> FALSE, thread_id |-> h, dated |-> FALSE, stream |-> stream]
  <2> HIDE DEF h
  <2> QED
    BY <1>1 DEF Sink, h
<1>3. s.asked = c.asked /\ s.type = c.type /\ s.thread_id = h
  <2> HIDE DEF h
  <2> QED
    BY <1>2
<1>4. t \in BOOLEAN /\ FlagHonoured(s, "LOG_THREAD_ID", FALSE, t)
  BY <1>3, ThreadRead
<1>5. Honoured(s)
  <2>1. ~s.thread_id => t = FALSE
    BY <1>3, <1>4
  <2> QED
    BY <1>3, <1>4, <2>1, TypesDiffer DEF Honoured
<1>6. JSON \in 0 .. 255 /\ h \in BOOLEAN /\ stream \in Streams \cup {NO_STREAM}
  BY DEF JSON
<1>7. c.name \in NamesOfSinks /\ c.type \in SinkTypes /\ c.asked \in SomeOptions(Values)
  BY AskedFacts
<1> HIDE DEF h
<1>8. s \in [name : NamesOfSinks, type : SinkTypes, asked : SomeOptions(Values), format : 0 .. 255,
             no_color : BOOLEAN, no_context : BOOLEAN, thread_id : BOOLEAN, dated : BOOLEAN,
             stream : Streams \cup {NO_STREAM}]
  BY <1>2, <1>6, <1>7
<1>9. s \in Sinks
  BY <1>5, <1>8, Zenon DEF Sinks
<1> QED
  BY <1>3, <1>9

(* Whatever configure makes of configurations was asked for.                 *)
LEMMA CreatedHonoured ==
  ASSUME NEW c \in Configs, HasFactory(c)
  PROVE  create_sink(c) \subseteq Sinks
<1>1. c.type \in {CONSOLE_SINK, FILE_SINK, SYSLOG_SINK, CONSOLE_JSON_SINK}
  BY AskedFacts DEF HasFactory, SinkTypes
<1>2. CASE c.type = CONSOLE_SINK
  BY <1>2, ConsoleHonoured, TypesDiffer DEF create_sink
<1>3. CASE c.type = FILE_SINK
  BY <1>3, FileHonoured, TypesDiffer DEF create_sink
<1>4. CASE c.type = SYSLOG_SINK
  BY <1>4, SysLogHonoured, TypesDiffer DEF create_sink
<1>5. CASE c.type = CONSOLE_JSON_SINK
  BY <1>5, JsonHonoured, TypesDiffer DEF create_sink
<1> QED
  BY <1>1, <1>2, <1>3, <1>4, <1>5

-----------------------------------------------------------------------------
(* Every list of sinks that configure may make consists of such sinks.       *)

LEMMA SinksMadeHonoured ==
  ASSUME NEW configs \in Seq(Configs)
  PROVE  SinksMade(configs) \subseteq Seq(Sinks)
<1> DEFINE N == Len(configs)
           S == SUBSET Seq(Sinks)
           base == {<<>>}
           More(n, lists) == IF HasFactory(configs[n])
                             THEN {Append(s, k) : s \in lists, k \in create_sink(configs[n])}
                             ELSE lists
           F == [p \in (1 .. N) \X S |-> More(p[1], p[2])]
           made == CHOOSE f : f = [n \in 0 .. N |-> IF n = 0 THEN base ELSE More(n, f[n - 1])]
<1>1. N \in Nat /\ \A n \in 1 .. N : configs[n] \in Configs /\ n # 0 /\ n \in 0 .. N /\ n - 1 \in 0 .. N
  OBVIOUS
<1>2. SinksMade(configs) = made[N]
  BY DEF SinksMade
<1>3. base \in S
  OBVIOUS
<1>4. ASSUME NEW n \in 1 .. N, NEW lists \in S PROVE More(n, lists) \in S
  <2>1. CASE HasFactory(configs[n])
    <3>1. create_sink(configs[n]) \subseteq Sinks
      BY <1>1, <2>1, CreatedHonoured
    <3>2. \A s \in lists, k \in create_sink(configs[n]) : Append(s, k) \in Seq(Sinks)
      BY <3>1
    <3>3. More(n, lists) = {Append(s, k) : s \in lists, k \in create_sink(configs[n])}
      BY <2>1
    <3> HIDE DEF More
    <3>4. \A x \in More(n, lists) : x \in Seq(Sinks)
      BY <3>2, <3>3
    <3> QED
      BY <3>4
  <2>2. CASE ~HasFactory(configs[n])
    BY <2>2
  <2> QED
    BY <2>1, <2>2
<1> HIDE DEF N, S, More, base
<1>5. F \in [(1 .. N) \X S -> S]
  BY <1>4
<1>6. \E f : f = [n \in 0 .. N |-> IF n = 0 THEN base ELSE More(n, f[n - 1])]
  <2>0. PICK g : Recurses(N, S, base, F, g)
    <3> HIDE DEF F
    <3> QED
      BY <1>1, <1>3, <1>5, Recursion
  <2>1. g \in [0 .. N -> S] /\ g[0] = base /\ \A i \in 1 .. N : g[i] = F[<<i, g[i - 1]>>]
    BY <2>0, Zenon DEF Recurses
  <2>2. \A i \in 1 .. N : F[<<i, g[i - 1]>>] = More(i, g[i - 1])
    <3> SUFFICES ASSUME NEW i \in 1 .. N PROVE F[<<i, g[i - 1]>>] = More(i, g[i - 1])
      OBVIOUS
    <3> DEFINE p == <<i, g[i - 1]>>
    <3>1. p \in (1 .. N) \X S /\ p[1] = i /\ p[2] = g[i - 1]
      BY <1>1, <2>1
    <3> HIDE DEF p
    <3>2. F[p] = More(p[1], p[2])
      BY <3>1
    <3>3. F[p] = More(i, g[i - 1])
      BY <3>1, <3>2
    <3> QED
      BY <3>3, Zenon DEF p
  <2> HIDE DEF F
  <2>3. g = [n \in 0 .. N |-> IF n = 0 THEN base ELSE More(n, g[n - 1])]
    <3>1. \A n \in 0 .. N : n # 0 => n \in 1 .. N
      BY <1>1
    <3>2. \A n \in 0 .. N : g[n] = IF n = 0 THEN base ELSE More(n, g[n - 1])
      BY <2>1, <2>2, <3>1
    <3>3. g = [n \in 0 .. N |-> g[n]]
      BY <2>1
    <3> QED
      BY <3>2, <3>3
  <2> QED
    BY <2>3
<1>7. made = [n \in 0 .. N |-> IF n = 0 THEN base ELSE More(n, made[n - 1])]
  BY <1>6
<1> HIDE DEF made, F
<1> DEFINE T == {n \in 0 .. N : made[n] \in S}
<1>8. 0 \in T
  BY <1>1, <1>3, <1>7
<1>9. ASSUME NEW n \in 1 .. N, n - 1 \in T PROVE n \in T
  <2>1. made[n] = IF n = 0 THEN base ELSE More(n, made[n - 1])
    BY <1>1, <1>7, Zenon
  <2> QED
    BY <1>1, <1>4, <1>9, <2>1
<1> HIDE DEF T
<1>10. 0 .. N \subseteq T
  BY <1>1, <1>8, <1>9, Induction
<1>11. made[N] \in S
  BY <1>1, <1>10 DEF T
<1> QED
  BY <1>2, <1>11 DEF S

-----------------------------------------------------------------------------
(* A log is dumped to every sink in turn.                                    *)

LinesTo(s, r) == DumpTo(s, r, DEFAULT).lines

LinesIf(outcome, s, r) == IF outcome = "written" THEN LinesTo(s, r) ELSE <<>>

LEMMA ColorIsReset ==
  ASSUME NEW s, s.type \in SinkTypes, NEW r
  PROVE  DumpTo(s, r, DEFAULT).color = DEFAULT
<1>1. CASE s.type = CONSOLE_SINK
  <2>1. DumpTo(s, r, DEFAULT) = ConsoleDump(s, r, DEFAULT)
    BY <1>1, TypesDiffer DEF DumpTo
  <2>2. ConsoleDump(s, r, DEFAULT).color = DEFAULT
    BY DEF ConsoleDump, reset_log_color
  <2> QED
    BY <2>1, <2>2
<1>2. CASE s.type # CONSOLE_SINK
  <2>1. \E lines : DumpTo(s, r, DEFAULT) = [lines |-> lines, color |-> DEFAULT]
    BY <1>2, TypesDiffer DEF DumpTo, SinkTypes
  <2> QED
    BY <2>1
<1> QED
  BY <1>1, <1>2

(* What is known after n sinks.                                              *)
After(n, st, r, outcomes) ==
    /\ st.color = DEFAULT /\ st.complaints \in {complaints, 1}
    /\ Len(st.lines) = n
    /\ \A j \in 1 .. n : st.lines[j] = LinesIf(outcomes[j], sinks[j], r)
    /\ \A j \in 1 .. n : sinks[j].format \notin LineFormats /\ outcomes[j] # "over" => st.complaints = 1

LEMMA DumpedFacts ==
  ASSUME sinks \in Seq(Sinks), color = DEFAULT, complaints \in {0, 1}, NEW r, NEW outcomes
  PROVE  /\ After(Len(sinks), Dumped(r, outcomes), r, outcomes)
         /\ DOMAIN Dumped(r, outcomes).lines = 1 .. Len(sinks)
<1> DEFINE N == Len(sinks)
           L == {LinesIf(outcomes[j], sinks[j], r) : j \in 1 .. N}
           S == [lines : Seq(L), color : {DEFAULT}, complaints : {0, 1}]
           base == [lines |-> <<>>, color |-> color, complaints |-> complaints]
           F == [p \in (1 .. N) \X S |-> AfterSink(p[2], sinks[p[1]], r, outcomes[p[1]])]
           after == CHOOSE f : f = [n \in 0 .. N |-> IF n = 0 THEN base ELSE AfterSink(f[n - 1], sinks[n], r, outcomes[n])]
<1>1. N \in Nat /\ \A n \in 1 .. N : sinks[n] \in Sinks /\ n # 0 /\ n \in 0 .. N /\ n - 1 \in 0 .. N
  OBVIOUS
<1>2. Dumped(r, outcomes) = after[N]
  BY DEF Dumped
<1>3. base \in S
  OBVIOUS
<1>4. ASSUME NEW n \in 1 .. N, NEW st \in S
      PROVE  LET next == AfterSink(st, sinks[n], r, outcomes[n])
             IN  /\ next \in S /\ next.lines = Append(st.lines, LinesIf(outcomes[n], sinks[n], r))
                 /\ next.complaints \in {st.complaints, 1}
                 /\ sinks[n].format \notin LineFormats /\ outcomes[n] # "over" => next.complaints = 1
  <2> DEFINE d == DumpTo(sinks[n], r, st.color)
             next == AfterSink(st, sinks[n], r, outcomes[n])
  <2>1. st.color = DEFAULT /\ st.lines \in Seq(L) /\ st.complaints \in {0, 1}
    OBVIOUS
  <2>2. sinks[n].type \in SinkTypes
    BY <1>1 DEF Sinks
  <2>3. d.color = DEFAULT /\ d.lines = LinesTo(sinks[n], r)
    BY <2>1, <2>2, ColorIsReset DEF LinesTo
  <2>4. LinesIf(outcomes[n], sinks[n], r) \in L
    OBVIOUS
  <2>5. next = [lines |-> Append(st.lines, IF outcomes[n] = "written" THEN d.lines ELSE <<>>), color |-> d.color,
                complaints |-> IF outcomes[n] # "over" /\ Complains(sinks[n], st.complaints)
                               THEN st.complaints + 1 ELSE st.complaints]
    BY DEF AfterSink
  <2> HIDE DEF d, next, L
  <2>6. next.lines = Append(st.lines, LinesIf(outcomes[n], sinks[n], r)) /\ next.color = DEFAULT
    BY <2>3, <2>5 DEF LinesIf
  <2>7. next.lines \in Seq(L)
    BY <2>1, <2>4, <2>6
  <2>8. next.complaints = IF outcomes[n] # "over" /\ sinks[n].format \notin LineFormats /\ st.complaints = 0 THEN st.complaints + 1 ELSE st.complaints
    BY <2>5 DEF Complains
  <2>9. /\ next.complaints \in {0, 1} /\ next.complaints \in {st.complaints, 1}
        /\ sinks[n].format \notin LineFormats /\ outcomes[n] # "over" => next.complaints = 1
    BY <2>1, <2>8
  <2>10. next \in S
    BY <2>5, <2>6, <2>7, <2>9
  <2> QED
    BY <2>6, <2>9, <2>10 DEF next
<1>5. base.lines = <<>> /\ base.color = DEFAULT /\ base.complaints = complaints
  OBVIOUS
<1> HIDE DEF N, L, base
<1>6. F \in [(1 .. N) \X S -> S]
  <2> HIDE DEF S
  <2> QED
    BY <1>4
<1>7. \A st \in S : st.lines \in Seq(L) /\ st.color = DEFAULT /\ st.complaints \in {0, 1}
  OBVIOUS
<1> HIDE DEF S
<1>8. \E f : f = [n \in 0 .. N |-> IF n = 0 THEN base ELSE AfterSink(f[n - 1], sinks[n], r, outcomes[n])]
  <2>0. PICK g : Recurses(N, S, base, F, g)
    <3> HIDE DEF F
    <3> QED
      BY <1>1, <1>3, <1>6, Recursion
  <2>1. g \in [0 .. N -> S] /\ g[0] = base /\ \A i \in 1 .. N : g[i] = F[<<i, g[i - 1]>>]
    BY <2>0, Zenon DEF Recurses
  <2>2. \A i \in 1 .. N : F[<<i, g[i - 1]>>] = AfterSink(g[i - 1], sinks[i], r, outcomes[i])
    <3> SUFFICES ASSUME NEW i \in 1 .. N PROVE F[<<i, g[i - 1]>>] = AfterSink(g[i - 1], sinks[i], r, outcomes[i])
      OBVIOUS
    <3> DEFINE p == <<i, g[i - 1]>>
    <3>1. p \in (1 .. N) \X S /\ p[1] = i /\ p[2] = g[i - 1]
      BY <1>1, <2>1
    <3> HIDE DEF p
    <3>2. F[p] = AfterSink(p[2], sinks[p[1]], r, outcomes[p[1]])
      BY <3>1
    <3>3. F[p] = AfterSink(g[i - 1], sinks[i], r, outcomes[i])
      BY <3>1, <3>2
    <3> QED
      BY <3>3, Zenon DEF p
  <2> HIDE DEF F
  <2>3. g = [n \in 0 .. N |-> IF n = 0 THEN base ELSE AfterSink(g[n - 1], sinks[n], r, outcomes[n])]
    <3>1. \A n \in 0 .. N : n # 0 => n \in 1 .. N
      BY <1>1
    <3>2. \A n \in 0 .. N : g[n] = IF n = 0 THEN base ELSE AfterSink(g[n - 1], sinks[n], r, outcomes[n])
      BY <2>1, <2>2, <3>1
    <3>3. g = [n \in 0 .. N |-> g[n]]
      BY <2>1
    <3> QED
      BY <3>2, <3>3
  <2> QED
    BY <2>3
<1>9. after = [n \in 0 .. N |-> IF n = 0 THEN base ELSE AfterSink(after[n - 1], sinks[n], r, outcomes[n])]
  BY <1>8
<1> HIDE DEF after, F
<1> DEFINE T == {n \in 0 .. N : after[n] \in S /\ After(n, after[n], r, outcomes)}
<1>10. 0 \in T
  <2>1. after[0] = base
    BY <1>1, <1>9
  <2>2. After(0, base, r, outcomes)
    BY <1>5 DEF After
  <2> QED
    BY <1>1, <1>3, <2>1, <2>2
<1>11. ASSUME NEW n \in 1 .. N, n - 1 \in T PROVE n \in T
  <2> DEFINE st == after[n - 1]
             next == after[n]
  <2>1. next = IF n = 0 THEN base ELSE AfterSink(st, sinks[n], r, outcomes[n])
    BY <1>1, <1>9, Zenon
  <2>2. st \in S /\ After(n - 1, st, r, outcomes)
    BY <1>11
  <2>3. /\ next \in S /\ next.lines = Append(st.lines, LinesIf(outcomes[n], sinks[n], r))
        /\ next.complaints \in {st.complaints, 1}
        /\ sinks[n].format \notin LineFormats /\ outcomes[n] # "over" => next.complaints = 1
    BY <1>1, <1>4, <2>1, <2>2
  <2>4. st.lines \in Seq(L) /\ Len(st.lines) = n - 1 /\ next.color = DEFAULT
    BY <1>7, <2>2, <2>3 DEF After
  <2> HIDE DEF st, next
  <2>5. Len(next.lines) = n /\ \A j \in 1 .. n : next.lines[j] = LinesIf(outcomes[j], sinks[j], r)
    <3>1. /\ Len(next.lines) = n /\ next.lines[n] = LinesIf(outcomes[n], sinks[n], r)
          /\ \A j \in 1 .. n - 1 : next.lines[j] = st.lines[j]
      BY <1>1, <2>3, <2>4
    <3>2. \A j \in 1 .. n : j = n \/ j \in 1 .. n - 1
      BY <1>1
    <3> QED
      BY <2>2, <3>1, <3>2 DEF After
  <2>6. After(n, next, r, outcomes)
    <3>1. \A j \in 1 .. n : j = n \/ j \in 1 .. n - 1
      BY <1>1
    <3> QED
      BY <2>2, <2>3, <2>4, <2>5, <3>1 DEF After
  <2> QED
    BY <1>1, <2>3, <2>6 DEF next
<1> HIDE DEF T
<1>12. 0 .. N \subseteq T
  BY <1>1, <1>10, <1>11, Induction
<1>13. after[N] \in S /\ After(N, after[N], r, outcomes)
  BY <1>1, <1>12 DEF T
<1>14. DOMAIN after[N].lines = 1 .. N
  BY <1>7, <1>13 DEF After
<1> QED
  BY <1>2, <1>13, <1>14 DEF N

-----------------------------------------------------------------------------
(* The application's configurations.                                         *)

LEMMA NoOptions ==
  ASSUME NEW S
  PROVE  <<>> \in SomeOptions(S)
<1>1. DOMAIN <<>> = {} /\ <<>> \in [DOMAIN <<>> -> S]
  OBVIOUS
<1> QED
  BY <1>1, OptionsType

LEMMA NewConfig ==
  ASSUME NEW t \in SinkTypes
  PROVE  SinkConfig(SinkName[t], t) \in Configs
<1> DEFINE c == SinkConfig(SinkName[t], t)
<1>1. c = [name |-> SinkName[t], type |-> t, options |-> <<>>, asked |-> <<>>]
  BY DEF SinkConfig
<1>2. SinkName[t] \in NamesOfSinks
  BY DEF NamesOfSinks
<1> HIDE DEF c
<1>3. c \in [name : NamesOfSinks, type : SinkTypes, options : SomeOptions(Texts), asked : SomeOptions(Values)]
  BY <1>1, <1>2, NoOptions
<1>4. <<>> = [o \in DOMAIN <<>> |-> convert_from(<<>>[o])]
  OBVIOUS
<1>5. c.options = [o \in DOMAIN c.asked |-> convert_from(c.asked[o])]
  BY <1>1, <1>4
<1> QED
  BY <1>3, <1>5 DEF Configs, c

LEMMA OverFacts ==
  ASSUME NEW S, NEW f, NEW g, f \in SomeOptions(S), g \in SomeOptions(S)
  PROVE  /\ Over(f, g) \in SomeOptions(S)
         /\ DOMAIN Over(f, g) = DOMAIN f \cup DOMAIN g
<1>1. /\ DOMAIN f \subseteq OptionNames /\ f \in [DOMAIN f -> S]
      /\ DOMAIN g \subseteq OptionNames /\ g \in [DOMAIN g -> S]
  BY OptionsType
<1>2. Over(f, g) = [x \in DOMAIN f \cup DOMAIN g |-> IF x \in DOMAIN f THEN f[x] ELSE g[x]]
  BY DEF Over
<1>3. \A x \in DOMAIN f \cup DOMAIN g : (IF x \in DOMAIN f THEN f[x] ELSE g[x]) \in S
  BY <1>1
<1>4. DOMAIN Over(f, g) \subseteq OptionNames /\ Over(f, g) \in [DOMAIN Over(f, g) -> S]
  BY <1>1, <1>2, <1>3
<1> QED
  BY <1>2, <1>4, OptionsType

LEMMA SetOption ==
  ASSUME NEW c \in Configs, NEW o \in OptionNames, NEW v \in Values
  PROVE  set_option(c, o, v) \in Configs
<1> DEFINE t == convert_from(v)
           d == set_option(c, o, v)
           options == Over(Entry(o, t), c.options)
           asked == Over(Entry(o, v), c.asked)
<1>1. t \in Texts
  BY ConvertFacts
<1>2. d = [c EXCEPT !.options = options, !.asked = asked]
  BY DEF set_option
<1>3. /\ c \in [name : NamesOfSinks, type : SinkTypes, options : SomeOptions(Texts), asked : SomeOptions(Values)]
      /\ c.options = [x \in DOMAIN c.asked |-> convert_from(c.asked[x])]
  BY DEF Configs
<1>4. Entry(o, t) \in SomeOptions(Texts) /\ Entry(o, v) \in SomeOptions(Values)
  <2>1. /\ DOMAIN Entry(o, t) \subseteq OptionNames /\ Entry(o, t) \in [DOMAIN Entry(o, t) -> Texts]
        /\ DOMAIN Entry(o, v) \subseteq OptionNames /\ Entry(o, v) \in [DOMAIN Entry(o, v) -> Values]
    BY <1>1 DEF Entry
  <2> QED
    BY <2>1, OptionsType
<1>5. options \in SomeOptions(Texts) /\ asked \in SomeOptions(Values)
  BY <1>3, <1>4, OverFacts
<1>6. options = [x \in DOMAIN asked |-> convert_from(asked[x])]
  BY <1>3 DEF Over, Entry
<1> HIDE DEF t, d, options, asked
<1>7. /\ d \in [name : NamesOfSinks, type : SinkTypes, options : SomeOptions(Texts), asked : SomeOptions(Values)]
      /\ d.options = options /\ d.asked = asked
  BY <1>2, <1>3, <1>5
<1> QED
  BY <1>6, <1>7 DEF Configs, d

LEMMA RemoveOption ==
  ASSUME NEW c \in Configs, NEW o
  PROVE  remove_option(c, o) \in Configs
<1> DEFINE d == remove_option(c, o)
           options == Restrict(c.options, DOMAIN c.options \ {o})
           asked == Restrict(c.asked, DOMAIN c.asked \ {o})
<1>2. d = [c EXCEPT !.options = options, !.asked = asked]
  BY DEF remove_option
<1>3. /\ c \in [name : NamesOfSinks, type : SinkTypes, options : SomeOptions(Texts), asked : SomeOptions(Values)]
      /\ c.options = [x \in DOMAIN c.asked |-> convert_from(c.asked[x])]
  BY DEF Configs
<1>4. /\ options = [x \in DOMAIN c.options \ {o} |-> c.options[x]]
      /\ asked = [x \in DOMAIN c.asked \ {o} |-> c.asked[x]]
  BY DEF Restrict
<1>5. options \in SomeOptions(Texts) /\ asked \in SomeOptions(Values)
  <2>1. /\ DOMAIN c.options \subseteq OptionNames /\ c.options \in [DOMAIN c.options -> Texts]
        /\ DOMAIN c.asked \subseteq OptionNames /\ c.asked \in [DOMAIN c.asked -> Values]
    BY <1>3, OptionsType
  <2> HIDE DEF options, asked
  <2>2. /\ DOMAIN options \subseteq OptionNames /\ options \in [DOMAIN options -> Texts]
        /\ DOMAIN asked \subseteq OptionNames /\ asked \in [DOMAIN asked -> Values]
    BY <1>4, <2>1
  <2> QED
    BY <2>2, OptionsType
<1> HIDE DEF options, asked, d
<1>6. options = [x \in DOMAIN asked |-> convert_from(asked[x])]
  BY <1>3, <1>4
<1>7. /\ d \in [name : NamesOfSinks, type : SinkTypes, options : SomeOptions(Texts), asked : SomeOptions(Values)]
      /\ d.options = options /\ d.asked = asked
  BY <1>2, <1>3, <1>5
<1> QED
  BY <1>6, <1>7 DEF Configs, d

LEMMA NamedFacts ==
  ASSUME NEW S, NEW seq \in Seq(S), NEW name
  PROVE  Named(seq, name) \in 0 .. Len(seq)
<1> DEFINE I == {i \in 1 .. Len(seq) : seq[i].name = name}
<1>1. Named(seq, name) = IF I # {} THEN Min(I) ELSE 0
  BY DEF Named, SelectInSeq
<1>2. I \in SUBSET Nat /\ I \subseteq 1 .. Len(seq) /\ Len(seq) \in Nat
  OBVIOUS
<1> HIDE DEF I
<1>3. I # {} => Min(I) \in I
  BY <1>2, Least DEF Min
<1> DEFINE k == Named(seq, name)
<1> HIDE DEF k
<1>4. k = 0 \/ k \in 1 .. Len(seq)
  BY <1>1, <1>2, <1>3 DEF k
<1> QED
  BY <1>2, <1>4 DEF k

LEMMA RemoveFacts ==
  ASSUME NEW S, NEW seq \in Seq(S), NEW i \in 1 .. Len(seq)
  PROVE  RemoveAt(seq, i) \in Seq(S)
<1>1. RemoveAt(seq, i) = SubSeq(seq, 1, i - 1) \o SubSeq(seq, i + 1, Len(seq))
  BY DEF RemoveAt
<1>2. /\ \A j \in 1 .. i - 1 : seq[j] \in S
      /\ \A j \in i + 1 .. Len(seq) : seq[j] \in S
      /\ i - 1 \in Int /\ i + 1 \in Int /\ Len(seq) \in Nat
  OBVIOUS
<1>3. SubSeq(seq, 1, i - 1) \in Seq(S) /\ SubSeq(seq, i + 1, Len(seq)) \in Seq(S)
  BY <1>2, SubSeqProperties
<1> QED
  BY <1>1, <1>3, ConcatProperties

-----------------------------------------------------------------------------
(* The invariant                                                             *)

HasChannel(r) == r.channel \in Seq(Range(r.channel))

CustomSinks == {s \in Sinks : s.type = CUSTOM_SINK}

Managers == [configs : Seq(Configs), custom : Seq(CustomSinks),
             level : {<<>>} \cup {<<t>> : t \in Texts}, level_name : {<<>>} \cup {<<n>> : n \in LevelSpellings}]

(* A level that was set by name is kept as the number of that name.          *)
NameIsKept(m) ==
    m.level_name # <<>> => /\ string_to_level(m.level_name[1]) # NoLevel
                           /\ m.level = <<Numeral(string_to_level(m.level_name[1]))>>

Configured ==
    /\ draft \in Configs /\ manager \in Managers /\ NameIsKept(manager)
    /\ sinks \in Seq(Sinks)
    /\ edits \in 0 .. MaxEdits

LevelsKnown ==
    /\ default_log_level \in 0 .. 255 /\ level \in 0 .. 255
    /\ level_name # <<>> => default_log_level = LevelNamed(level_name[1])

TagsKnown == Range(allowed) \subseteq SanitizerTags

Terminal == color = DEFAULT /\ complaints \in {0, 1}

(* Every sink there was that took the log has all of it.                     *)
Written(e, complained) ==
    /\ e.log.level \in LogLevels \ {QUIET} /\ HasChannel(e.log)
    /\ e.sinks \in Seq(Sinks)
    /\ DOMAIN e.lines = 1 .. Len(e.sinks) /\ Len(e.lines) = Len(e.sinks)
    /\ \A j \in 1 .. Len(e.sinks) :
         /\ e.outcomes[j] \in Outcomes(e.sinks[j])
         /\ e.lines[j] = LinesIf(e.outcomes[j], e.sinks[j], e.log)
         /\ e.sinks[j].format \notin LineFormats /\ e.outcomes[j] # "over" => complained = 1

LogsWritten ==
    \/ out = <<>>
    \/ out = <<out[1]>> /\ Written(out[1], complaints)
    \/ out = <<out[1], out[2]>> /\ Written(out[1], complaints) /\ Written(out[2], complaints)

OutputInv == Configured /\ LevelsKnown /\ TagsKnown /\ Terminal /\ LogsWritten

LEMMA InitOutput == Init => OutputInv
<1> SUFFICES ASSUME Init PROVE OutputInv
  OBVIOUS
<1>1. draft \in Configs
  BY NewConfig DEF Init, SinkTypes
<1>2. manager \in Managers /\ NameIsKept(manager)
  BY DEF Init, ManagerConfig, Managers, NameIsKept
<1>3. sinks \in Seq(Sinks) /\ edits \in 0 .. MaxEdits
  BY EditsAssumption DEF Init
<1>4. LevelsKnown
  BY DEF Init, LevelsKnown, INFO
<1>5. TagsKnown
  BY DEF Init, TagsKnown, SanitizerTags, ALL_TAG, ERROR_MARSHALLER_TAG, Range
<1>6. Terminal /\ LogsWritten
  BY DEF Init, Terminal, LogsWritten
<1> QED
  BY <1>1, <1>2, <1>3, <1>4, <1>5, <1>6 DEF OutputInv, Configured

-----------------------------------------------------------------------------
(* The steps of the application's configuration.                             *)

LEMMA EditDraftKeeps ==
  ASSUME OutputInv, EditDraft
  PROVE  OutputInv'
<1>1. draft' \in Configs
  <2>1. draft \in Configs
    BY DEF OutputInv, Configured
  <2>2. ASSUME NEW s \in Settings, draft' = set_option(draft, s[2], s[3]) PROVE draft' \in Configs
    <3>1. s[2] \in OptionNames /\ s[3] \in Values
      BY SettingsAssumption DEF OptionNames
    <3> QED
      BY <2>1, <2>2, <3>1, SetOption
  <2> QED
    BY <2>1, <2>2, NewConfig, RemoveOption DEF EditDraft
<1>2. edits' \in 0 .. MaxEdits
  BY EditsAssumption DEF OutputInv, Configured, EditDraft, Edit
<1> QED
  BY <1>1, <1>2 DEF OutputInv, Configured, LevelsKnown, TagsKnown, Terminal, LogsWritten, Written, EditDraft, Edit,
     config_vars

LEMMA EditSinksKeeps ==
  ASSUME OutputInv, EditSinks
  PROVE  OutputInv'
<1>1. draft \in Configs /\ manager \in Managers /\ NameIsKept(manager)
  BY DEF OutputInv, Configured
<1>2. manager' \in Managers /\ NameIsKept(manager)'
  <2>1. CASE manager' = add_sink(manager, draft)
    <3>1. Append(manager.configs, draft) \in Seq(Configs)
      BY <1>1 DEF Managers
    <3> QED
      BY <1>1, <2>1, <3>1 DEF Managers, NameIsKept, add_sink
  <2>2. ASSUME draft.type = CUSTOM_SINK, NEW b \in BOOLEAN, NEW stream \in Streams,
               NEW s \in CloudWatchSink(draft, b, stream),
               manager' = add_custom_sink(manager, s)
        PROVE  manager' \in Managers /\ NameIsKept(manager)'
    <3>1. s \in CustomSinks
      <4>1. s \in Sinks /\ s.type = CUSTOM_SINK
        BY <1>1, <2>2, CloudWatchHonoured
      <4> QED
        BY <4>1, Zenon DEF CustomSinks
    <3>2. Append(manager.custom, s) \in Seq(CustomSinks)
      BY <1>1, <3>1 DEF Managers
    <3> QED
      BY <1>1, <2>2, <3>2 DEF Managers, NameIsKept, add_custom_sink
  <2>3. ASSUME NEW name, manager' = remove_sink(manager, name)
        PROVE  manager' \in Managers /\ NameIsKept(manager)'
    <3> DEFINE i == Named(manager.configs, name)
               j == Named(manager.custom, name)
    <3>1. manager.configs \in Seq(Configs) /\ manager.custom \in Seq(CustomSinks)
      BY <1>1 DEF Managers
    <3>2. i \in 0 .. Len(manager.configs) /\ j \in 0 .. Len(manager.custom)
      BY <3>1, NamedFacts
    <3>3. \/ manager' = [manager EXCEPT !.configs = RemoveAt(manager.configs, i)] /\ i # 0
          \/ manager' = [manager EXCEPT !.custom = RemoveAt(manager.custom, j)] /\ j # 0
          \/ manager' = manager
      BY <2>3 DEF remove_sink
    <3> HIDE DEF i, j
    <3>4. /\ i # 0 => RemoveAt(manager.configs, i) \in Seq(Configs)
          /\ j # 0 => RemoveAt(manager.custom, j) \in Seq(CustomSinks)
      <4>1. /\ i # 0 => i \in 1 .. Len(manager.configs)
            /\ j # 0 => j \in 1 .. Len(manager.custom)
        BY <3>1, <3>2
      <4> QED
        BY <3>1, <4>1, RemoveFacts
    <3> QED
      BY <1>1, <3>3, <3>4 DEF Managers, NameIsKept
  <2> QED
    BY <2>1, <2>2, <2>3 DEF EditSinks
<1>3. edits' \in 0 .. MaxEdits
  BY EditsAssumption DEF OutputInv, Configured, EditSinks, Edit
<1> QED
  BY <1>2, <1>3 DEF OutputInv, Configured, LevelsKnown, TagsKnown, Terminal, LogsWritten, Written, EditSinks, Edit

LEMMA LevelOfName ==
  ASSUME NEW n, string_to_level(n) # NoLevel
  PROVE  string_to_level(n) = LevelNamed(n) /\ LevelNamed(n) \in LogLevels
<1>1. LevelNamed(UpperCase(n)) = LevelNamed(n)
  BY DEF LevelNamed, UpperCase
<1>2. string_to_level(n) = LevelNamed(n) /\ n[1] \in Words
  BY <1>1 DEF string_to_level, level_names, UpperCase
<1>3. \A w \in Words : \E l \in LogLevels : level_word(l) = w
  BY DEF Words, LogLevels, level_word, TRACE, DEBUG, INFO, NOTICE, WARNING, ERROR, QUIET
<1> QED
  BY <1>2, <1>3 DEF LevelNamed

LEMMA EditLevelKeeps ==
  ASSUME OutputInv, EditLevel
  PROVE  OutputInv'
<1>1. manager \in Managers /\ NameIsKept(manager)
  BY DEF OutputInv, Configured
<1>2. manager' \in Managers /\ NameIsKept(manager)'
  <2>1. ASSUME NEW v \in LevelSettings, manager' = set_level_option(manager, v, <<>>)
        PROVE  manager' \in Managers /\ NameIsKept(manager)'
    <3>1. convert_from(v) \in Texts
      BY LevelsAssumption, ConvertFacts
    <3>2. manager' = [manager EXCEPT !.level = <<convert_from(v)>>, !.level_name = <<>>]
      BY <2>1 DEF set_level_option
    <3> QED
      BY <1>1, <3>1, <3>2 DEF Managers, NameIsKept
  <2>2. ASSUME NEW n \in LevelSpellings, string_to_level(n) # NoLevel,
               manager' = set_level_option(manager, <<"int", string_to_level(n)>>, <<n>>)
        PROVE  manager' \in Managers /\ NameIsKept(manager)'
    <3> DEFINE l == string_to_level(n)
    <3>1. l \in Int
      BY <2>2, LevelOfName DEF LogLevels, TRACE, DEBUG, INFO, NOTICE, WARNING, ERROR, QUIET
    <3>2. convert_from(<<"int", l>>) = Numeral(l)
      BY DEF convert_from
    <3>3. Numeral(l) \in Texts
      BY <3>1 DEF Numeral, Texts
    <3>4. manager' = [manager EXCEPT !.level = <<Numeral(l)>>, !.level_name = <<n>>]
      BY <2>2, <3>2 DEF set_level_option
    <3>5. l # NoLevel
      BY <2>2
    <3> HIDE DEF l
    <3>6. manager'.level_name = <<n>> /\ manager'.level = <<Numeral(l)>> /\ manager' \in Managers
      BY <1>1, <3>3, <3>4 DEF Managers
    <3> QED
      BY <3>5, <3>6 DEF NameIsKept, l
  <2>3. CASE manager' = remove_level_option(manager)
    BY <1>1, <2>3 DEF remove_level_option, Managers, NameIsKept
  <2> QED
    BY <2>1, <2>2, <2>3 DEF EditLevel
<1>3. edits' \in 0 .. MaxEdits
  BY EditsAssumption DEF OutputInv, Configured, EditLevel, Edit
<1> QED
  BY <1>2, <1>3 DEF OutputInv, Configured, LevelsKnown, TagsKnown, Terminal, LogsWritten, Written, EditLevel, Edit

LEMMA LevelIsByte ==
  ASSUME OutputInv, NEW new \in DefaultLevels(manager, default_log_level)
  PROVE  /\ new \in 0 .. 255
         /\ manager.level = <<>> => new = default_log_level
         /\ manager.level # <<>> /\ manager.level_name # <<>> => new = LevelNamed(manager.level_name[1])
<1>1. manager \in Managers /\ NameIsKept(manager) /\ default_log_level \in 0 .. 255
  BY DEF OutputInv, Configured, LevelsKnown
<1>2. CASE manager.level = <<>>
  <2>1. new = default_log_level
    BY <1>2 DEF DefaultLevels
  <2> QED
    BY <1>1, <1>2, <2>1
<1>3. CASE manager.level # <<>>
  <2>1. PICK t \in Texts : manager.level = <<t>>
    BY <1>1, <1>3 DEF Managers
  <2>2. manager.level[1] = t
    BY <2>1
  <2>3. PICK i \in ReadInt(t) : new = i % 256
    BY <1>3, <2>2 DEF DefaultLevels, ToLogLevel
  <2>4. i \in Int /\ new \in 0 .. 255
    <3>1. i \in Int
      BY <2>3, ReadFacts
    <3> QED
      BY <2>3, <3>1
  <2>5. ASSUME manager.level_name # <<>> PROVE new = LevelNamed(manager.level_name[1])
    <3> DEFINE l == LevelNamed(manager.level_name[1])
    <3>1. l \in LogLevels /\ manager.level = <<Numeral(l)>>
      BY <1>1, <2>5, LevelOfName DEF NameIsKept
    <3>2. l \in Int /\ l % 256 = l
      <4> HIDE DEF l
      <4> QED
        BY <3>1 DEF LogLevels, TRACE, DEBUG, INFO, NOTICE, WARNING, ERROR, QUIET
    <3>3. t = Numeral(l)
      BY <2>2, <3>1
    <3>4. i = l
      BY <2>3, <3>2, <3>3, ReadFacts
    <3> QED
      BY <2>3, <3>2, <3>4
  <2> QED
    BY <1>3, <2>4, <2>5
<1> QED
  BY <1>2, <1>3

LEMMA ConfigureKeeps ==
  ASSUME OutputInv, NEW clear_old_sinks \in BOOLEAN, configure(clear_old_sinks)
  PROVE  OutputInv'
<1>1. sinks' \in Seq(Sinks)
  <2>1. sinks \in Seq(Sinks) /\ manager.configs \in Seq(Configs) /\ manager.custom \in Seq(CustomSinks)
    BY DEF OutputInv, Configured, Managers
  <2>2. PICK made \in SinksMade(manager.configs) :
          sinks' = (IF clear_old_sinks THEN <<>> ELSE sinks) \o made \o manager.custom
    BY DEF configure
  <2>3. made \in Seq(Sinks) /\ manager.custom \in Seq(Sinks)
    <3>1. CustomSinks \subseteq Sinks
      BY Zenon DEF CustomSinks
    <3>2. manager.custom \in Seq(Sinks)
      BY <2>1, <3>1
    <3> QED
      BY <2>1, <2>2, <3>2, SinksMadeHonoured
  <2> DEFINE old == IF clear_old_sinks THEN <<>> ELSE sinks
  <2>4. old \in Seq(Sinks)
    BY <2>1
  <2> HIDE DEF old
  <2>5. old \o made \in Seq(Sinks)
    BY <2>3, <2>4, ConcatProperties
  <2>6. (old \o made) \o manager.custom \in Seq(Sinks)
    BY <2>3, <2>5, ConcatProperties
  <2> QED
    BY <2>2, <2>6 DEF old
<1>2. LevelsKnown'
  <2>1. default_log_level' \in DefaultLevels(manager, default_log_level)
    BY DEF configure
  <2>2. /\ default_log_level' \in 0 .. 255
        /\ manager.level = <<>> => default_log_level' = default_log_level
        /\ manager.level # <<>> /\ manager.level_name # <<>> => default_log_level' = LevelNamed(manager.level_name[1])
    BY <2>1, LevelIsByte
  <2> QED
    BY <2>2 DEF configure, OutputInv, LevelsKnown
<1>3. edits' \in 0 .. MaxEdits
  BY EditsAssumption DEF OutputInv, Configured, configure
<1> QED
  BY <1>1, <1>2, <1>3 DEF OutputInv, Configured, TagsKnown, Terminal, LogsWritten, Written, configure

-----------------------------------------------------------------------------
(* The steps that dump.                                                      *)

LEMMA WrittenKept ==
  ASSUME NEW e, NEW c, NEW d \in {c, 1}, Written(e, c)
  PROVE  Written(e, d)
  BY DEF Written

LEMMA ChannelOfSdk ==
  ASSUME NEW l, NEW extra, NEW message
  PROVE  SdkLog(l, extra, message).level = l /\ HasChannel(SdkLog(l, extra, message))
<1>1. SdkLog(l, extra, message).level = l /\ SdkLog(l, extra, message).channel = <<"AwsLogSystem">>
  BY DEF SdkLog
<1> DEFINE name    == "AwsLogSystem"
           channel == <<name>>
<1> HIDE DEF name
<1>2. DOMAIN channel = {1} /\ channel[1] = name
  OBVIOUS
<1>3. Range(channel) = {name}
  BY <1>2 DEF Range
<1>4. channel \in Seq({name})
  OBVIOUS
<1> QED
  BY <1>1, <1>3, <1>4, Zenon DEF HasChannel, name

LEMMA DumpKeeps ==
  ASSUME OutputInv, NEW r, r.level \in LogLevels, HasChannel(r), NEW floor, NEW before, Dump(r, floor, before)
  PROVE  /\ Terminal' /\ complaints' \in {complaints, 1}
         /\ out' = before \/ \E e : Written(e, complaints') /\ out' = Append(before, e)
<1>1. color = DEFAULT /\ complaints \in {0, 1} /\ sinks \in Seq(Sinks)
  BY DEF OutputInv, Terminal, Configured
<1>2. CASE ~HasStream(r.level, floor)
  BY <1>1, <1>2 DEF Dump, Terminal
<1>3. CASE HasStream(r.level, floor)
  <2>0. PICK outcomes \in SinkOutcomes :
          LET d == Dumped(r, outcomes)
          IN  /\ out' = Append(before, [log |-> r, sinks |-> sinks, outcomes |-> outcomes, lines |-> d.lines])
              /\ color' = d.color /\ complaints' = d.complaints
    BY <1>3, Zenon DEF Dump
  <2> DEFINE d == Dumped(r, outcomes)
             e == [log |-> r, sinks |-> sinks, outcomes |-> outcomes, lines |-> d.lines]
  <2>1. After(Len(sinks), d, r, outcomes) /\ DOMAIN d.lines = 1 .. Len(sinks)
    BY <1>1, DumpedFacts
  <2>2. out' = Append(before, e) /\ color' = d.color /\ complaints' = d.complaints
    BY <2>0
  <2>3. r.level \in LogLevels \ {QUIET} /\ HasChannel(r)
    BY <1>3 DEF HasStream
  <2>4. e.log = r /\ e.sinks = sinks /\ e.outcomes = outcomes /\ e.lines = d.lines
    OBVIOUS
  <2>7. \A j \in 1 .. Len(sinks) : outcomes[j] \in Outcomes(sinks[j])
    BY <1>1, <2>0 DEF SinkOutcomes
  <2> HIDE DEF d, e
  <2>5. Written(e, complaints')
    BY <1>1, <2>1, <2>2, <2>3, <2>4, <2>7 DEF Written, After
  <2>6. Terminal' /\ complaints' \in {complaints, 1}
    BY <1>1, <2>1, <2>2 DEF Terminal, After
  <2> QED
    BY <2>2, <2>5, <2>6
<1> QED
  BY <1>2, <1>3

(* The rest of a step that dumps.                                            *)
LEMMA AfterDump ==
  ASSUME OutputInv, Terminal', complaints' \in {complaints, 1}, UNCHANGED <<config_vars, sinks, default_log_level, level, allowed, level_name>>,
         NEW before, before = <<>> \/ (before = out /\ (out = <<>> \/ out = <<out[1]>>)),
         out' = before \/ \E e : Written(e, complaints') /\ out' = Append(before, e)
  PROVE  OutputInv'
<1>1. LogsWritten'
  <2>1. CASE out' = <<>>
    BY <2>1 DEF LogsWritten
  <2>2. CASE out' = out /\ out = <<out[1]>>
    <3>1. out'[1] = out[1]
      BY <2>2
    <3>2. Written(out[1], complaints)
      BY <2>2 DEF OutputInv, LogsWritten
    <3>3. Written(out'[1], complaints')
      BY <3>1, <3>2, WrittenKept
    <3> QED
      BY <2>2, <3>3 DEF LogsWritten
  <2>3. ASSUME NEW e, Written(e, complaints'), out' = Append(<<>>, e) PROVE LogsWritten'
    <3>1. out' = <<out'[1]>> /\ out'[1] = e
      BY <2>3
    <3> QED
      BY <2>3, <3>1 DEF LogsWritten
  <2>4. ASSUME NEW e, Written(e, complaints'), out' = Append(out, e), out = <<out[1]>> PROVE LogsWritten'
    <3>1. out' = <<out'[1], out'[2]>> /\ out'[1] = out[1] /\ out'[2] = e
      BY <2>4, Second
    <3>2. Written(out[1], complaints)
      BY <2>4 DEF OutputInv, LogsWritten
    <3>3. Written(out'[1], complaints') /\ Written(out'[2], complaints')
      BY <2>4, <3>1, <3>2, WrittenKept
    <3> QED
      BY <3>1, <3>3 DEF LogsWritten
  <2> QED
    BY <2>1, <2>2, <2>3, <2>4
<1> QED
  BY <1>1 DEF OutputInv, Configured, LevelsKnown, TagsKnown, config_vars

LEMMA LoggedKeeps ==
  ASSUME OutputInv, NEW r \in LoggedRecords, Logged(r)
  PROVE  OutputInv'
<1>1. Dump(r, default_log_level, <<>>) /\ r.level \in LogLevels /\ HasChannel(r)
  BY RecordsAssumption DEF Logged, HasChannel
<1>2. UNCHANGED <<config_vars, sinks, default_log_level, level, allowed, level_name>>
  BY DEF Logged
<1>3. /\ Terminal' /\ complaints' \in {complaints, 1}
      /\ out' = <<>> \/ \E e : Written(e, complaints') /\ out' = Append(<<>>, e)
  BY <1>1, DumpKeeps
<1> QED
  BY <1>2, <1>3, AfterDump

LEMMA VaLogKeeps ==
  ASSUME OutputInv, vaLog
  PROVE  OutputInv'
<1> DEFINE r == SdkLog(WARNING, "AwsLogSystem", <<UNSUPPORTED_TEXT>>)
<1>1. Dump(r, level, <<>>)
  BY Zenon DEF vaLog
<1>2. r.level \in LogLevels /\ HasChannel(r)
  BY ChannelOfSdk DEF LogLevels
<1> HIDE DEF r
<1>3. UNCHANGED <<config_vars, sinks, default_log_level, level, allowed, level_name>>
  BY DEF vaLog
<1>4. /\ Terminal' /\ complaints' \in {complaints, 1}
      /\ out' = <<>> \/ \E e : Written(e, complaints') /\ out' = Append(<<>>, e)
  BY <1>1, <1>2, DumpKeeps
<1> QED
  BY <1>3, <1>4, AfterDump

LEMMA FailureKeeps ==
  ASSUME OutputInv, SdkInv, FailedToProcess
  PROVE  OutputInv'
<1> DEFINE r == SdkLog(FailureLevel, NO_EXTRA, <<FAILED_TEXT, sdk.tag>>)
<1>1. Dump(r, level, out)
  BY Zenon DEF FailedToProcess
<1>2. r.level \in LogLevels /\ HasChannel(r)
  BY ChannelOfSdk DEF FailureLevel, LogLevels
<1> HIDE DEF r
<1>3. UNCHANGED <<config_vars, sinks, default_log_level, level, allowed, level_name>>
  BY DEF FailedToProcess
<1>4. out = <<>>
  BY IdleIsNoCall DEF FailedToProcess, SdkInv, SdkTypes, CallIsFollowed, Idle
<1>5. /\ Terminal' /\ complaints' \in {complaints, 1}
      /\ out' = out \/ \E e : Written(e, complaints') /\ out' = Append(out, e)
  BY <1>1, <1>2, DumpKeeps
<1> QED
  BY <1>3, <1>4, <1>5, AfterDump

LEMMA MessageKeeps ==
  ASSUME OutputInv, SdkInv, LogMessage
  PROVE  OutputInv'
<1> DEFINE r == SdkLog(aws_log_level_to_octo(sdk.level), sdk.tag, sdk.text)
<1>1. Dump(r, level, out)
  BY Zenon DEF LogMessage
<1>2. sdk \in Calls /\ sdk # Idle
  BY IdleIsNoCall DEF LogMessage, SdkInv, SdkTypes, Idle
<1>3. r.level \in LogLevels /\ HasChannel(r)
  BY <1>2, LevelsOfSdk, ChannelOfSdk DEF Calls
<1> HIDE DEF r
<1>4. UNCHANGED <<config_vars, sinks, default_log_level, level, allowed, level_name>>
  BY DEF LogMessage
<1>5. out = <<>> \/ out = <<out[1]>>
  BY <1>2 DEF LogMessage, SdkInv, CallIsFollowed
<1>6. /\ Terminal' /\ complaints' \in {complaints, 1}
      /\ out' = out \/ \E e : Written(e, complaints') /\ out' = Append(out, e)
  BY <1>1, <1>3, DumpKeeps
<1> QED
  BY <1>4, <1>5, <1>6, AfterDump

LEMMA TagsKeep ==
  ASSUME OutputInv, NEW names \in TagLists, set_allowed_sanitizers_tags(names)
  PROVE  OutputInv'
<1>1. TagsKnown'
  <2>1. \A s \in TagNames : string_to_sanitizer_tag(s) \in SanitizerTags
    BY DEF TagNames, string_to_sanitizer_tag
  <2>2. allowed' = [i \in DOMAIN names |-> string_to_sanitizer_tag(names[i])] /\ Range(names) \subseteq TagNames
    BY DEF set_allowed_sanitizers_tags
  <2>3. \A i \in DOMAIN names : names[i] \in TagNames
    BY <2>2 DEF Range
  <2>4. DOMAIN allowed' = DOMAIN names /\ \A i \in DOMAIN names : allowed'[i] \in SanitizerTags
    BY <2>1, <2>2, <2>3
  <2> QED
    BY <2>4 DEF TagsKnown, Range
<1> QED
  BY <1>1 DEF OutputInv, Configured, LevelsKnown, Terminal, LogsWritten, Written, set_allowed_sanitizers_tags,
     config_vars

LEMMA SetLevelKeeps ==
  ASSUME OutputInv, NEW a \in SdkLevels, SetLogLevel(a)
  PROVE  OutputInv'
<1>1. level' \in 0 .. 255
  <2>1. level' \in LogLevels
    BY SdkAssumption, LevelsOfSdk DEF SetLogLevel
  <2> QED
    BY <2>1 DEF LogLevels, TRACE, DEBUG, INFO, NOTICE, WARNING, ERROR, QUIET
<1> QED
  BY <1>1 DEF OutputInv, Configured, LevelsKnown, TagsKnown, Terminal, LogsWritten, Written, SetLogLevel, config_vars

LEMMA LogStreamLeaves ==
  ASSUME OutputInv, NEW a, NEW tag, NEW message, LogStream(a, tag, message)
  PROVE  OutputInv'
<1>1. UNCHANGED <<config_vars, sinks, default_log_level, level, allowed, color, complaints, out, named, level_name>>
  BY DEF LogStream
<1> QED
  BY <1>1 DEF OutputInv, Configured, LevelsKnown, TagsKnown, Terminal, LogsWritten, Written, config_vars

LEMMA ReturnKeeps ==
  ASSUME OutputInv, Return
  PROVE  OutputInv'
  BY DEF OutputInv, Configured, LevelsKnown, TagsKnown, Terminal, LogsWritten, Written, Return, config_vars

LEMMA NextOutput == OutputInv /\ SdkInv /\ [Next]_vars => OutputInv'
<1> SUFFICES ASSUME OutputInv, SdkInv, [Next]_vars PROVE OutputInv'
  OBVIOUS
<1>1. CASE UNCHANGED vars
  BY <1>1 DEF vars, OutputInv, Configured, LevelsKnown, TagsKnown, Terminal, LogsWritten, Written, config_vars
<1> QED
  BY <1>1, EditDraftKeeps, EditSinksKeeps, EditLevelKeeps, ConfigureKeeps, LoggedKeeps, VaLogKeeps, FailureKeeps,
     MessageKeeps, TagsKeep, SetLevelKeeps, LogStreamLeaves, ReturnKeeps DEF Next

(* Configurations and sinks keep what was asked for, and what was dumped is  *)
(* what each sink writes of the log on its own.                              *)
THEOREM OutputInvariance == Spec => []OutputInv
BY InitOutput, NextOutput, SdkInvariance, PTL DEF Spec

-----------------------------------------------------------------------------
(* What the invariant says.                                                  *)

LEMMA EntriesWritten ==
  ASSUME OutputInv, NEW i \in DOMAIN out
  PROVE  Written(out[i], complaints) /\ Len(out) <= 2
<1>1. CASE out = <<>>
  BY <1>1
<1>2. CASE out = <<out[1]>> /\ Written(out[1], complaints)
  <2>1. DOMAIN out = {1} /\ Len(out) = 1
    BY <1>2
  <2> QED
    BY <1>2, <2>1
<1>3. CASE out = <<out[1], out[2]>> /\ Written(out[1], complaints) /\ Written(out[2], complaints)
  <2>1. DOMAIN out = {1, 2} /\ Len(out) = 2
    BY <1>3
  <2> QED
    BY <1>3, <2>1
<1> QED
  BY <1>1, <1>2, <1>3 DEF OutputInv, LogsWritten

LEMMA TypeHolds == OutputInv /\ SdkInv => TypeOK
<1> SUFFICES ASSUME OutputInv, SdkInv PROVE TypeOK
  OBVIOUS
<1>1. ASSUME NEW i \in DOMAIN sinks
      PROVE  /\ sinks[i].type \in SinkTypes /\ sinks[i].format \in 0 .. 255
             /\ {sinks[i].no_color, sinks[i].no_context, sinks[i].thread_id, sinks[i].dated} \subseteq BOOLEAN
  <2>1. sinks[i] \in Sinks
    BY DEF OutputInv, Configured
  <2> DEFINE s == sinks[i]
  <2> HIDE DEF s
  <2>2. /\ s.type \in SinkTypes /\ s.format \in 0 .. 255
        /\ s.no_color \in BOOLEAN /\ s.no_context \in BOOLEAN /\ s.thread_id \in BOOLEAN /\ s.dated \in BOOLEAN
    BY <2>1 DEF Sinks, s
  <2> QED
    BY <2>2 DEF s
<1>2. sdk.pc \in {"idle", "announce", "record", "done"}
  BY DEF SdkInv, SdkTypes, Calls, Idle
<1>3. Len(out) <= 2
  <2>1. CASE out = <<>>
    BY <2>1
  <2>2. CASE out # <<>>
    <3>1. 1 \in DOMAIN out
      BY <2>2 DEF OutputInv, LogsWritten
    <3> QED
      BY <3>1, EntriesWritten
  <2> QED
    BY <2>1, <2>2
<1>4. \A i \in DOMAIN out : out[i].log.level \in LogLevels \ {QUIET} /\ Len(out[i].lines) = Len(out[i].sinks)
  BY EntriesWritten DEF Written
<1>5. /\ default_log_level \in 0 .. 255 /\ level \in 0 .. 255
      /\ Range(allowed) \subseteq SanitizerTags
      /\ complaints \in Nat /\ edits \in 0 .. MaxEdits
  BY DEF OutputInv, Configured, LevelsKnown, TagsKnown, Terminal
<1> QED
  BY <1>1, <1>2, <1>3, <1>4, <1>5 DEF TypeOK

LEMMA OptionsHold == OutputInv => OptionsHonoured
<1> SUFFICES ASSUME OutputInv PROVE OptionsHonoured
  OBVIOUS
<1>1. ASSUME NEW i \in DOMAIN sinks PROVE Honoured(sinks[i]) /\ sinks[i].type \in SinkTypes
  <2>1. sinks[i] \in Sinks
    BY DEF OutputInv, Configured
  <2> QED
    BY <2>1 DEF Sinks
<1>2. level_name # <<>> => default_log_level = LevelNamed(level_name[1])
  BY DEF OutputInv, LevelsKnown
<1> QED
  BY <1>1, <1>2, TypesDiffer DEF OptionsHonoured, Honoured, SinkTypes

LEMMA ComplaintsHold == OutputInv => ComplainsOnce
<1> SUFFICES ASSUME OutputInv PROVE ComplainsOnce
  OBVIOUS
<1>1. complaints <= 1
  BY DEF OutputInv, Terminal
<1>2. ASSUME NEW i \in DOMAIN out, NEW j \in DOMAIN out[i].sinks,
             out[i].sinks[j].format \notin LineFormats, out[i].outcomes[j] # "over"
      PROVE  complaints = 1
  <2>1. Written(out[i], complaints)
    BY EntriesWritten
  <2>2. j \in 1 .. Len(out[i].sinks)
    BY <2>1 DEF Written
  <2> QED
    BY <1>2, <2>1, <2>2 DEF Written
<1> QED
  BY <1>1, <1>2 DEF ComplainsOnce

-----------------------------------------------------------------------------
(* The lines of one sink.                                                    *)

(* The layouts of a log.                                                     *)
InJson(r, line) == \E thread \in BOOLEAN : line = formatted_json(r, thread)

InLong(r, line) == \E b \in BOOLEAN : line = formatted_log_plaintext_long(r, b)

InShort(r, line) == line = formatted_log_plaintext_short(r)

OneLine(r, line) == InJson(r, line) \/ InLong(r, line) \/ InShort(r, line)

LEMMA SameContext ==
  ASSUME NEW r
  PROVE  init_context_info_impl(r) = init_context_info(r, FALSE)
<1>1. init_context_info(r, FALSE) = Over(<<>>, init_context_info_impl(r))
  BY DEF init_context_info, init_context_info_impl, WithThread
<1>2. DOMAIN <<>> = {}
  OBVIOUS
<1> DEFINE g == init_context_info_impl(r)
<1>3. g = [x \in DOMAIN g |-> g[x]]
  BY DEF init_context_info_impl, Over
<1> HIDE DEF g
<1>4. Over(<<>>, g) = g
  BY <1>2, <1>3 DEF Over
<1> QED
  BY <1>1, <1>4 DEF g

LEMMA JsonLine ==
  ASSUME NEW r
  PROVE  construct_log_json(r) = formatted_json(r, FALSE) /\ OneLine(r, construct_log_json(r))
<1>1. construct_log_json(r) = formatted_json(r, FALSE)
  BY SameContext DEF construct_log_json, formatted_json
<1> QED
  BY <1>1, Zenon DEF OneLine, InJson

LEMMA FormattedLine ==
  ASSUME NEW s, s.no_context \in BOOLEAN, NEW r
  PROVE  OneLine(r, formatted_log(s, r))
<1>1. \/ formatted_log(s, r) = formatted_log_plaintext_short(r)
      \/ formatted_log(s, r) = construct_log_json(r)
      \/ formatted_log(s, r) = formatted_log_plaintext_long(r, s.no_context)
  BY DEF formatted_log, PLAINTEXT_SHORT, JSON
<1>2. CASE formatted_log(s, r) = formatted_log_plaintext_short(r)
  BY <1>2, Zenon DEF OneLine, InShort
<1>3. CASE formatted_log(s, r) = construct_log_json(r)
  BY <1>3, JsonLine
<1>4. CASE formatted_log(s, r) = formatted_log_plaintext_long(r, s.no_context)
  BY <1>4, Zenon DEF OneLine, InLong
<1> QED
  BY <1>1, <1>2, <1>3, <1>4

LEMMA DocumentWithThread ==
  ASSUME NEW r, NEW t
  PROVE  [construct_log_json(r) EXCEPT !.context = Over(WithThread(t), @)] = formatted_json(r, t)
<1> DEFINE c == init_context_info_impl(r)
<1>1. init_context_info(r, t) = Over(WithThread(t), c)
  BY DEF init_context_info, init_context_info_impl
<1>2. construct_log_json(r) = Document(r, c)
  BY DEF construct_log_json
<1> HIDE DEF c
<1>3. [Document(r, c) EXCEPT !.context = Over(WithThread(t), @)] = Document(r, Over(WithThread(t), c))
  BY DEF Document
<1> QED
  BY <1>1, <1>2, <1>3 DEF formatted_json

(* A sequence of one line, in a color.                                       *)
OneIn(lines, r, color_) ==
    Len(lines) = 1 /\ DOMAIN lines = {1} /\ OneLine(r, lines[1].line) /\ lines[1].color = color_

LEMMA InColorFacts ==
  ASSUME NEW x, NEW r, NEW c, OneLine(r, x)
  PROVE  OneIn(InColor(<<x>>, c), r, c)
<1> DEFINE f == InColor(<<x>>, c)
<1>1. f = [i \in {1} |-> [color |-> c, line |-> x]]
  <2>1. DOMAIN <<x>> = {1} /\ <<x>>[1] = x
    OBVIOUS
  <2> QED
    BY <2>1 DEF InColor
<1> HIDE DEF f
<1>2. f[1] = [color |-> c, line |-> x] /\ DOMAIN f = {1}
  BY <1>1
<1>3. {1} = 1 .. 1
  OBVIOUS
<1>4. Len(f) = 1
  BY <1>1, <1>2, <1>3
<1>5. f[1].line = x /\ f[1].color = c
  BY <1>2
<1> QED
  BY <1>2, <1>4, <1>5 DEF OneIn, f

ColorOf(s, r) == IF s.type = CONSOLE_SINK /\ ~s.no_color THEN configure_log_color(r.level, DEFAULT) ELSE DEFAULT

(* Every sink writes one line of a log, in its color; only the CloudWatch    *)
(* sink drops a log, if its document cannot be encoded or its stream has no  *)
(* name.                                                                     *)
Dropped(s, r) ==
    s.type = CUSTOM_SINK /\ ((\E t \in BOOLEAN : ~Encodable(formatted_json(r, t))) \/ log_stream_name(s, r) = <<>>)

LEMMA LinesFacts ==
  ASSUME NEW s \in Sinks, NEW r
  PROVE  \/ OneIn(LinesTo(s, r), r, ColorOf(s, r))
         \/ LinesTo(s, r) = <<>> /\ Dropped(s, r)
<1>0. s.type \in SinkTypes /\ s.no_context \in BOOLEAN /\ s.no_color \in BOOLEAN /\ s.thread_id \in BOOLEAN
  BY DEF Sinks
<1>1. CASE s.type = CONSOLE_SINK
  <2> DEFINE x == formatted_log(s, r)
             c == ColorOf(s, r)
             lines == <<[color |-> c, line |-> x]>>
  <2>1. DumpTo(s, r, DEFAULT) = ConsoleDump(s, r, DEFAULT)
    BY <1>1, TypesDiffer DEF DumpTo
  <2>2. ConsoleDump(s, r, DEFAULT).lines = lines
    BY <1>1 DEF ConsoleDump, ColorOf
  <2>3. OneLine(r, x)
    BY <1>0, FormattedLine
  <2> HIDE DEF x, c
  <2>4. Len(lines) = 1 /\ DOMAIN lines = {1} /\ lines[1].line = x /\ lines[1].color = c
    OBVIOUS
  <2> HIDE DEF lines
  <2>5. OneIn(lines, r, c)
    BY <2>3, <2>4 DEF OneIn
  <2> QED
    BY <2>1, <2>2, <2>5 DEF LinesTo, c
<1>2. CASE s.type = CONSOLE_JSON_SINK
  <2> DEFINE doc == formatted_json(r, s.thread_id)
  <2>1. LinesTo(s, r) = InColor(ConsoleJSONLines(s, r), DEFAULT) /\ ColorOf(s, r) = DEFAULT
    BY <1>2, TypesDiffer DEF LinesTo, DumpTo, ColorOf
  <2>2. ConsoleJSONLines(s, r) = <<doc>> \/ ConsoleJSONLines(s, r) = <<formatted_log_plaintext_long(r, FALSE)>>
    BY DocumentWithThread DEF ConsoleJSONLines, Fallback
  <2>3. OneLine(r, doc) /\ OneLine(r, formatted_log_plaintext_long(r, FALSE))
    BY <1>0, Zenon DEF OneLine, InJson, InLong
  <2> HIDE DEF doc
  <2> QED
    BY <2>1, <2>2, <2>3, InColorFacts
<1>3. CASE s.type = CUSTOM_SINK
  <2> DEFINE doc == formatted_json(r, s.thread_id)
  <2>1. LinesTo(s, r) = InColor(CloudWatchLines(s, r), DEFAULT) /\ ColorOf(s, r) = DEFAULT
    BY <1>3, TypesDiffer DEF LinesTo, DumpTo, ColorOf
  <2>2. CASE Encodable(doc) /\ log_stream_name(s, r) # <<>>
    <3>1. CloudWatchLines(s, r) = <<doc>>
      BY <2>2 DEF CloudWatchLines
    <3>2. OneLine(r, doc)
      BY <1>0, Zenon DEF OneLine, InJson
    <3> HIDE DEF doc
    <3> QED
      BY <2>1, <3>1, <3>2, InColorFacts
  <2>3. CASE ~Encodable(doc) \/ log_stream_name(s, r) = <<>>
    <3>1. CloudWatchLines(s, r) = <<>>
      BY <2>3 DEF CloudWatchLines
    <3>2. InColor(<<>>, DEFAULT) = <<>>
      BY DEF InColor
    <3>3. Dropped(s, r)
      BY <1>0, <1>3, <2>3, Zenon DEF Dropped
    <3> QED
      BY <2>1, <3>1, <3>2, <3>3
  <2> QED
    BY <2>2, <2>3
<1>4. CASE s.type \in {SYSLOG_SINK, FILE_SINK}
  <2>1. LinesTo(s, r) = InColor(SysLogLines(s, r), DEFAULT) /\ ColorOf(s, r) = DEFAULT
    BY <1>4, TypesDiffer DEF LinesTo, DumpTo, ColorOf
  <2>2. SysLogLines(s, r) = <<formatted_log(s, r)>> /\ OneLine(r, formatted_log(s, r))
    BY <1>0, FormattedLine DEF SysLogLines
  <2> QED
    BY <2>1, <2>2, InColorFacts
<1> QED
  BY <1>0, <1>1, <1>2, <1>3, <1>4 DEF SinkTypes

-----------------------------------------------------------------------------
(* What is read of a line.                                                   *)

LEMMA MalformedText ==
  ASSUME NEW r, NEW t, ~Encodable(formatted_json(r, t))
  PROVE  NotInJson(r)
<1> DEFINE context == init_context_info(r, t)
<1>1. formatted_json(r, t).message = r.message /\ formatted_json(r, t).context = context
  BY DEF formatted_json, Document
<1>2. PICK text \in Malformed : text \in Range(r.message) \/ text \in DOMAIN context \/ text \in Range(context)
  BY <1>1 DEF Encodable
<1>3. r.own \in Range(Contexts(r)) /\ r.info \in Range(Contexts(r)) /\ r.global \in Range(Contexts(r))
  <2>1. /\ DOMAIN Contexts(r) = 1 .. 3
        /\ Contexts(r)[1] = r.own /\ Contexts(r)[2] = r.info /\ Contexts(r)[3] = r.global
    BY DEF Contexts
  <2> QED
    BY <2>1 DEF Range
<1>4. ASSUME NEW k \in DOMAIN context
      PROVE  \/ k \in DOMAIN WithThread(t) /\ context[k] = WithThread(t)[k]
             \/ k \in DOMAIN Session(r) /\ context[k] = Session(r)[k]
             \/ k \in DOMAIN r.own /\ context[k] = r.own[k]
             \/ k \in DOMAIN r.info /\ context[k] = r.info[k]
             \/ k \in DOMAIN r.global /\ context[k] = r.global[k]
  BY DEF init_context_info, Merged, Over
<1> HIDE DEF context
<1>5. DOMAIN <<>> = {}
  OBVIOUS
<1>6. \A k \in DOMAIN WithThread(t) : k \notin Malformed /\ WithThread(t)[k] \notin Malformed
  BY <1>5, ThreadAssumption DEF WithThread, Entry
<1>7. \A k \in DOMAIN Session(r) : k \notin Malformed /\ Session(r)[k] = r.extra
  BY <1>5, ThreadAssumption DEF Session, Entry
<1>8. CASE text \in DOMAIN context
  <2>1. text \in DOMAIN r.own \/ text \in DOMAIN r.info \/ text \in DOMAIN r.global
    BY <1>4, <1>6, <1>7, <1>8
  <2> QED
    BY <1>3, <2>1 DEF NotInJson
<1>9. CASE text \in Range(context)
  <2>1. PICK k \in DOMAIN context : text = context[k]
    BY <1>9 DEF Range
  <2>2. \A c, x : x \in DOMAIN c => c[x] \in Range(c)
    BY DEF Range
  <2>3. \/ text = r.extra
        \/ text \in Range(r.own) \/ text \in Range(r.info) \/ text \in Range(r.global)
    BY <1>4, <1>6, <1>7, <2>1, <2>2
  <2> QED
    BY <1>3, <2>3 DEF NotInJson
<1>10. CASE text \in Range(r.message)
  BY <1>10 DEF NotInJson
<1> QED
  BY <1>2, <1>8, <1>9, <1>10

LEMMA SeqMonotone ==
  ASSUME NEW S, NEW T, S \subseteq T, NEW c \in Seq(S)
  PROVE  c \in Seq(T)
OBVIOUS

LEMMA NotEmpty ==
  ASSUME NEW T, NEW c \in Seq(T), NEW d \in Seq(T), Len(d) = 1
  PROVE  c \o d # <<>>
<1>1. Len(c \o d) = Len(c) + Len(d) /\ Len(c) \in Nat
  BY ConcatProperties
<1>2. Len(c \o d) # 0 /\ Len(<<>>) = 0
  BY <1>1
<1> QED
  BY <1>2

LEMMA NamelessStream ==
  ASSUME NEW s, NEW r, log_stream_name(s, r) = <<>>, HasChannel(r)
  PROVE  Nameless(s, r)
<1> DEFINE extra == IF r.extra # NO_EXTRA THEN <<r.extra>> ELSE <<>>
<1>1. r.extra # NO_EXTRA => extra # <<>>
  OBVIOUS
<1>2. extra = <<>> => r.extra = NO_EXTRA
  BY <1>1
<1>3. log_stream_name(s, r) =
        CASE s.stream.by = BY_CHANNEL -> r.channel
          [] s.stream.by = BY_EXTRA_ID -> IF extra # <<>> THEN extra ELSE s.stream.origin
          [] s.stream.by = BY_BOTH -> r.channel \o extra
          [] OTHER -> <<"AWS_LAMBDA_LOG_STREAM_NAME">>
  BY DEF log_stream_name
<1>4. r.channel \o extra = <<>> => r.channel = <<>> /\ extra = <<>>
  <2>1. CASE r.extra = NO_EXTRA
    <3>1. extra = <<>>
      BY <2>1
    <3> QED
      BY <3>1 DEF HasChannel
  <2>2. CASE r.extra # NO_EXTRA
    <3>1. extra = <<r.extra>>
      BY <2>2
    <3> DEFINE T == Range(r.channel) \cup {r.extra}
    <3>2. Range(r.channel) \subseteq T
      OBVIOUS
    <3>3. <<r.extra>> \in Seq(T) /\ Len(<<r.extra>>) = 1
      OBVIOUS
    <3> HIDE DEF extra, T
    <3> DEFINE c == r.channel
    <3>4. c \in Seq(T)
      BY <3>2, SeqMonotone DEF HasChannel
    <3> HIDE DEF c
    <3>5. extra \in Seq(T) /\ Len(extra) = 1
      BY <3>1, <3>3, Zenon
    <3>6. c \o extra # <<>>
      BY <3>4, <3>5, NotEmpty, Zenon
    <3> QED
      BY <3>6 DEF c
  <2> QED
    BY <2>1, <2>2
<1>5. <<"AWS_LAMBDA_LOG_STREAM_NAME">> # <<>>
  OBVIOUS
<1> HIDE DEF extra
<1> QED
  BY <1>2, <1>3, <1>4, <1>5 DEF Nameless, BY_CHANNEL, BY_EXTRA_ID, BY_BOTH

LEMMA WrittenLines ==
  ASSUME OutputInv, NEW i \in DOMAIN out, NEW j \in DOMAIN out[i].sinks
  PROVE  /\ out[i].sinks[j] \in Sinks /\ out[i].lines[j] = LinesIf(out[i].outcomes[j], out[i].sinks[j], out[i].log)
         /\ out[i].outcomes[j] \in Outcomes(out[i].sinks[j])
         /\ out[i].log.level \in LogLevels /\ HasChannel(out[i].log)
         /\ DOMAIN out[i].lines = DOMAIN out[i].sinks
<1>1. Written(out[i], complaints)
  BY EntriesWritten
<1> QED
  BY <1>1 DEF Written

LEMMA EveryLogHolds == OutputInv => EveryLogWritten
<1> SUFFICES ASSUME OutputInv, NEW i \in DOMAIN out, NEW j \in DOMAIN out[i].sinks
             PROVE  LET s    == out[i].sinks[j]
                        r    == out[i].log
                        lost == \/ s.type = FILE_SINK /\ out[i].outcomes[j] # "written"
                                \/ s.type = CUSTOM_SINK /\ (NotInJson(r) \/ Nameless(s, r))
                    IN  Len(out[i].lines[j]) <= 1 /\ (out[i].lines[j] = <<>> => lost)
  BY DEF EveryLogWritten
<1> DEFINE s       == out[i].sinks[j]
           r       == out[i].log
           outcome == out[i].outcomes[j]
           lines   == out[i].lines[j]
<1>1. s \in Sinks /\ lines = LinesIf(outcome, s, r) /\ outcome \in Outcomes(s) /\ HasChannel(r)
  BY WrittenLines
<1> HIDE DEF s, r, outcome, lines
<1>2. CASE outcome # "written"
  <2>1. lines = <<>> /\ s.type = FILE_SINK
    BY <1>1, <1>2 DEF LinesIf, Outcomes
  <2>2. Len(lines) = 0
    BY <2>1
  <2> QED
    BY <1>2, <2>1, <2>2 DEF s, r, outcome, lines
<1>3. CASE outcome = "written"
  <2>1. lines = LinesTo(s, r)
    BY <1>1, <1>3 DEF LinesIf
  <2>2. OneIn(lines, r, ColorOf(s, r)) \/ (lines = <<>> /\ Dropped(s, r))
    BY <1>1, <2>1, LinesFacts
  <2>3. OneIn(lines, r, ColorOf(s, r)) => Len(lines) = 1 /\ lines # <<>>
    BY DEF OneIn
  <2>4. lines = <<>> => Len(lines) = 0
    OBVIOUS
  <2>5. Dropped(s, r) => s.type = CUSTOM_SINK /\ (NotInJson(r) \/ Nameless(s, r))
    BY <1>1, MalformedText, NamelessStream DEF Dropped
  <2>6. Len(lines) <= 1
    <3>1. Len(lines) = 1 \/ Len(lines) = 0
      BY <2>2, <2>3, <2>4
    <3>2. \A n : n = 1 \/ n = 0 => n <= 1
      OBVIOUS
    <3> QED
      BY <3>1, <3>2, Zenon
  <2>7. lines = <<>> => s.type = CUSTOM_SINK /\ (NotInJson(r) \/ Nameless(s, r))
    BY <2>2, <2>3, <2>5
  <2> QED
    BY <2>6, <2>7, Zenon DEF s, r, outcome, lines
<1> QED
  BY <1>2, <1>3

LEMMA ColorsHold == OutputInv => LinesInTheirColor
<1> SUFFICES ASSUME OutputInv, NEW i \in DOMAIN out, NEW j \in DOMAIN out[i].lines, NEW n \in DOMAIN out[i].lines[j]
             PROVE  out[i].lines[j][n].color = IF out[i].sinks[j].type = CONSOLE_SINK /\ ~out[i].sinks[j].no_color
                                               THEN LevelColor[out[i].log.level] ELSE DEFAULT
  BY DEF LinesInTheirColor
<1>0. j \in DOMAIN out[i].sinks
  BY EntriesWritten DEF Written
<1>1. /\ out[i].sinks[j] \in Sinks /\ out[i].lines[j] \in {LinesTo(out[i].sinks[j], out[i].log), <<>>}
      /\ out[i].log.level \in LogLevels
  BY <1>0, WrittenLines DEF LinesIf
<1> DEFINE s == out[i].sinks[j]
           r == out[i].log
           lines == out[i].lines[j]
<1>2. \/ OneIn(lines, r, ColorOf(s, r))
      \/ lines = <<>>
  BY <1>1, LinesFacts
<1>3. LevelColor[r.level] = configure_log_color(r.level, DEFAULT)
  BY <1>1 DEF LevelColor
<1> HIDE DEF s, r, lines
<1>4. n \in DOMAIN lines
  BY DEF lines
<1>5. lines[n].color = ColorOf(s, r)
  BY <1>2, <1>4 DEF OneIn
<1>6. lines[n].color = IF s.type = CONSOLE_SINK /\ ~s.no_color THEN LevelColor[r.level] ELSE DEFAULT
  BY <1>3, <1>5 DEF ColorOf
<1> QED
  BY <1>6 DEF s, r, lines

-----------------------------------------------------------------------------
(* The formats agree: each says of a log what is in the log.                 *)

AllKeys(r) == DOMAIN r.own \cup DOMAIN r.info \cup DOMAIN r.global

SaysOfLog(r, line) ==
    /\ LevelRead(line) = r.level /\ line.message = r.message
    /\ HasContext(line) => /\ KeysRead(line) \ Overridden(r) = AllKeys(r) \ Overridden(r)
                           /\ \A k \in AllKeys(r) \ Overridden(r) : ValueRead(line, k) = Merged(r)[k]
    /\ line.layout = "json" /\ r.extra # NO_EXTRA => ValueRead(line, "session_id") = r.extra
    /\ line.layout # "json" => line.extra = r.extra

LEMMA WordsDiffer ==
  \A l, m \in LogLevels : level_word(l) = level_word(m) => l = m
  BY DEF LogLevels, level_word, TRACE, DEBUG, INFO, NOTICE, WARNING, ERROR, QUIET

LEMMA JsonSays ==
  ASSUME NEW r, r.level \in LogLevels, NEW line, InJson(r, line)
  PROVE  SaysOfLog(r, line)
<1>1. PICK t \in BOOLEAN : line = formatted_json(r, t)
  BY DEF InJson
<1> DEFINE context == init_context_info(r, t)
<1>2. /\ line.layout = "json" /\ line.level = level_to_string_upper(r.level) /\ line.message = r.message
      /\ line.context = context
  BY <1>1 DEF formatted_json, Document
<1>3. LevelRead(line) = r.level
  <2> DEFINE name == level_to_string_upper(r.level)
  <2>1. name[1] = level_word(r.level) /\ name = <<level_word(r.level), "UPPER">>
    BY DEF level_to_string_upper
  <2>2. level_word(r.level) \in Words
    BY DEF level_word, Words, LogLevels, TRACE, DEBUG, INFO, NOTICE, WARNING, ERROR, QUIET
  <2>3. name \in level_names
    BY <2>1, <2>2 DEF level_names, KnownSpellings
  <2> HIDE DEF name
  <2>4. LevelNamed(name) = r.level
    BY <2>1, WordsDiffer DEF LevelNamed
  <2> QED
    BY <1>2, <2>3, <2>4 DEF LevelRead, string_to_level, name
<1>4. DOMAIN <<>> = {}
  OBVIOUS
<1>5. /\ DOMAIN WithThread(t) \subseteq {"thread_id"}
      /\ r.extra = NO_EXTRA => DOMAIN Session(r) = {}
      /\ r.extra # NO_EXTRA => DOMAIN Session(r) = {"session_id"} /\ Session(r)["session_id"] = r.extra
  BY <1>4 DEF WithThread, Session, Entry
<1>6. DOMAIN Merged(r) = AllKeys(r)
  BY DEF Merged, Over, AllKeys
<1>7. /\ DOMAIN context = DOMAIN WithThread(t) \cup (DOMAIN Session(r) \cup AllKeys(r))
      /\ \A k \in AllKeys(r) : k \notin DOMAIN WithThread(t) /\ k \notin DOMAIN Session(r) => context[k] = Merged(r)[k]
      /\ \A k \in DOMAIN Session(r) : k \notin DOMAIN WithThread(t) => context[k] = Session(r)[k]
  BY <1>6 DEF init_context_info, Over
<1> HIDE DEF context
<1>8. /\ DOMAIN WithThread(t) \subseteq Overridden(r) /\ DOMAIN Session(r) \subseteq Overridden(r)
  BY <1>5 DEF Overridden
<1>9. KeysRead(line) = DOMAIN context /\ \A k : ValueRead(line, k) = context[k]
  BY <1>2 DEF KeysRead, ValueRead
<1>10. r.extra # NO_EXTRA => ValueRead(line, "session_id") = r.extra
  BY <1>5, <1>7, <1>9
<1>11. KeysRead(line) \ Overridden(r) = AllKeys(r) \ Overridden(r)
  BY <1>7, <1>8, <1>9
<1>12. \A k \in AllKeys(r) \ Overridden(r) : ValueRead(line, k) = Merged(r)[k]
  BY <1>7, <1>8, <1>9
<1> QED
  BY <1>2, <1>3, <1>10, <1>11, <1>12 DEF SaysOfLog

LEMMA LetterSays ==
  ASSUME NEW l \in LogLevels
  PROVE  (CHOOSE m \in LogLevels : level_to_string_short(m) = level_to_string_short(l)) = l
<1>1. \A m \in LogLevels : level_to_string_short(m) = level_to_string_short(l) => m = l
  BY DEF level_to_string_short, LogLevels, TRACE, DEBUG, INFO, NOTICE, WARNING, ERROR, QUIET
<1> QED
  BY <1>1

LEMMA FirstContext ==
  ASSUME NEW r, NEW k \in AllKeys(r)
  PROVE  Contexts(r)[SelectInSeq(Contexts(r), LAMBDA c : k \in DOMAIN c)][k] = Merged(r)[k]
<1> DEFINE c == Contexts(r)
           I == {i \in 1 .. Len(c) : k \in DOMAIN c[i]}
           n == SelectInSeq(c, LAMBDA x : k \in DOMAIN x)
<1>1. Len(c) = 3 /\ c[1] = r.own /\ c[2] = r.info /\ c[3] = r.global
  BY DEF Contexts
<1>2. n = IF I # {} THEN Min(I) ELSE 0
  BY DEF SelectInSeq
<1>3. \A i : i \in I <=> i \in {1, 2, 3} /\ k \in DOMAIN c[i]
  BY <1>1
<1>4. I # {} /\ I \in SUBSET Nat
  BY <1>1, <1>3 DEF AllKeys
<1> HIDE DEF I, c, n
<1>5. n \in I /\ \A y \in I : n <= y
  BY <1>2, <1>4, Least DEF Min
<1>6. Merged(r)[k] = IF k \in DOMAIN r.own THEN r.own[k] ELSE IF k \in DOMAIN r.info THEN r.info[k] ELSE r.global[k]
  BY DEF Merged, Over, AllKeys
<1>7. CASE k \in DOMAIN r.own
  <2>1. n = 1
    BY <1>1, <1>3, <1>5, <1>7
  <2> QED
    BY <1>1, <1>6, <1>7, <2>1 DEF n, c
<1>8. CASE k \notin DOMAIN r.own /\ k \in DOMAIN r.info
  <2>1. n = 2
    BY <1>1, <1>3, <1>5, <1>8
  <2> QED
    BY <1>1, <1>6, <1>8, <2>1 DEF n, c
<1>9. CASE k \notin DOMAIN r.own /\ k \notin DOMAIN r.info
  <2>1. n = 3
    BY <1>1, <1>3, <1>5, <1>9
  <2> QED
    BY <1>1, <1>6, <1>9, <2>1 DEF n, c
<1> QED
  BY <1>7, <1>8, <1>9

LEMMA LongSays ==
  ASSUME NEW r, r.level \in LogLevels, NEW line, InLong(r, line)
  PROVE  SaysOfLog(r, line)
<1>1. PICK b \in BOOLEAN : line = formatted_log_plaintext_long(r, b)
  BY DEF InLong
<1>2. /\ line.layout = "long" /\ line.level = level_to_string_short(r.level) /\ line.message = r.message
      /\ line.extra = r.extra
      /\ line.context = <<>> \/ line.context = Contexts(r)
  BY <1>1 DEF formatted_log_plaintext_long, formatted_context_info
<1>3. LevelRead(line) = r.level
  BY <1>2, LetterSays DEF LevelRead
<1>4. HasContext(line) => line.context = Contexts(r)
  BY <1>2 DEF HasContext
<1>5. ASSUME line.context = Contexts(r)
      PROVE  /\ KeysRead(line) = AllKeys(r)
             /\ \A k \in AllKeys(r) : ValueRead(line, k) = Merged(r)[k]
  <2>1. KeysRead(line) = UNION {DOMAIN Contexts(r)[i] : i \in DOMAIN Contexts(r)}
    BY <1>2, <1>5 DEF KeysRead
  <2>2. /\ DOMAIN Contexts(r) = {1, 2, 3}
        /\ Contexts(r)[1] = r.own /\ Contexts(r)[2] = r.info /\ Contexts(r)[3] = r.global
    BY DEF Contexts
  <2>3. KeysRead(line) = AllKeys(r)
    <3>1. {Contexts(r)[i] : i \in DOMAIN Contexts(r)} = {r.own, r.info, r.global}
      BY <2>2
    <3>2. \A k : k \in KeysRead(line) <=> \E i \in DOMAIN Contexts(r) : k \in DOMAIN Contexts(r)[i]
      BY <2>1
    <3>3. \A k : k \in KeysRead(line) <=> k \in AllKeys(r)
      BY <2>2, <3>2 DEF AllKeys
    <3> QED
      BY <3>3
  <2>4. ASSUME NEW k \in AllKeys(r) PROVE ValueRead(line, k) = Merged(r)[k]
    <3>1. ValueRead(line, k) = Contexts(r)[SelectInSeq(Contexts(r), LAMBDA c : k \in DOMAIN c)][k]
      BY <1>2, <1>5 DEF ValueRead
    <3> QED
      BY <3>1, FirstContext
  <2> QED
    BY <2>3, <2>4
<1> QED
  BY <1>2, <1>3, <1>4, <1>5 DEF SaysOfLog

LEMMA ShortSays ==
  ASSUME NEW r, r.level \in LogLevels, NEW line, InShort(r, line)
  PROVE  SaysOfLog(r, line)
<1>1. line = [layout |-> "short", level |-> level_to_string_short(r.level), extra |-> r.extra, message |-> r.message]
  BY DEF InShort, formatted_log_plaintext_short
<1>2. /\ line.layout = "short" /\ line.level = level_to_string_short(r.level) /\ line.message = r.message
      /\ line.extra = r.extra
      /\ "context" \notin DOMAIN line
  BY <1>1
<1>3. LevelRead(line) = r.level
  BY <1>2, LetterSays DEF LevelRead
<1> QED
  BY <1>2, <1>3 DEF SaysOfLog, HasContext

LEMMA FormatsHold == OutputInv => FormatsAgree
<1> SUFFICES ASSUME OutputInv, NEW i \in DOMAIN out, NEW a \in LinesOf(out[i]), NEW b \in LinesOf(out[i])
             PROVE  LET o == Overridden(out[i].log)
                    IN  /\ LevelRead(a) = LevelRead(b) /\ a.message = b.message
                        /\ HasContext(a) /\ HasContext(b) =>
                             /\ KeysRead(a) \ o = KeysRead(b) \ o
                             /\ \A k \in KeysRead(a) \ o : ValueRead(a, k) = ValueRead(b, k)
                        /\ a.layout = "json" /\ b.layout # "json" /\ b.extra # NO_EXTRA =>
                             ValueRead(a, "session_id") = b.extra
  BY DEF FormatsAgree
<1> DEFINE r == out[i].log
<1>1. ASSUME NEW line \in LinesOf(out[i]) PROVE SaysOfLog(r, line)
  <2>1. PICK j \in DOMAIN out[i].lines : out[i].lines[j] # <<>> /\ line = out[i].lines[j][1].line
    BY DEF LinesOf
  <2>2. j \in DOMAIN out[i].sinks
    BY EntriesWritten DEF Written
  <2>3. /\ out[i].sinks[j] \in Sinks /\ out[i].lines[j] = LinesTo(out[i].sinks[j], r) /\ r.level \in LogLevels
    BY <2>1, <2>2, WrittenLines DEF LinesIf
  <2>4. OneIn(out[i].lines[j], r, ColorOf(out[i].sinks[j], r))
    BY <2>1, <2>3, LinesFacts
  <2>5. OneLine(r, line)
    BY <2>1, <2>4 DEF OneIn
  <2> HIDE DEF r
  <2> QED
    BY <2>3, <2>5, JsonSays, LongSays, ShortSays DEF OneLine
<1>2. SaysOfLog(r, a) /\ SaysOfLog(r, b)
  BY <1>1
<1> HIDE DEF r
<1>3. /\ LevelRead(a) = LevelRead(b) /\ a.message = b.message
      /\ HasContext(a) /\ HasContext(b) =>
           /\ KeysRead(a) \ Overridden(r) = KeysRead(b) \ Overridden(r)
           /\ \A k \in KeysRead(a) \ Overridden(r) : ValueRead(a, k) = ValueRead(b, k)
      /\ a.layout = "json" /\ b.layout # "json" /\ b.extra # NO_EXTRA => ValueRead(a, "session_id") = b.extra
  BY <1>2 DEF SaysOfLog
<1> QED
  BY <1>3 DEF r

-----------------------------------------------------------------------------
(* The theorems                                                              *)

(* Formats and levels are bytes, flags Boolean, and every log that was       *)
(* dumped has lines for each of the sinks there were.                        *)
THEOREM TypeCorrect == Spec => []TypeOK
BY OutputInvariance, SdkInvariance, TypeHolds, PTL

(* Every sink there is was made as asked for, through drafts that went on to *)
(* change, options set again or removed, and texts that are not what they    *)
(* should be; the default level is the one that was named last.              *)
THEOREM OptionsHonouredAlways == Spec => []OptionsHonoured
BY OutputInvariance, OptionsHold, PTL

(* A log that is dumped is one line of every sink, but for a file that does  *)
(* not take it, and for a CloudWatch sink if JSON cannot hold the log or its *)
(* stream has no name.                                                       *)
THEOREM EveryLogWrittenAlways == Spec => []EveryLogWritten
BY OutputInvariance, EveryLogHolds, PTL

(* A reader of any two lines of a log finds the same in both.                *)
THEOREM FormatsAgreeAlways == Spec => []FormatsAgree
BY OutputInvariance, FormatsHold, PTL

(* Every line is in the color of its level if its sink writes in colors, and *)
(* leaves the terminal in none.                                              *)
THEOREM LinesInTheirColorAlways == Spec => []LinesInTheirColor
BY OutputInvariance, ColorsHold, PTL

(* The complaint about a format that is none is made once, and not later     *)
(* than the first line in it.                                                *)
THEOREM ComplainsOnceAlways == Spec => []ComplainsOnce
BY OutputInvariance, ComplaintsHold, PTL
=============================================================================

--------------------------- MODULE Configuration ---------------------------
(***************************************************************************)
(* Configurations and the sinks made from them: SinkConfig, ConfigUtils,   *)
(* ManagerConfig, SinkFactory and the constructors of the sinks, as far as *)
(* they read options (src/src/sink-config.cpp, manager-config.cpp,         *)
(* sink-factory.cpp, sinks/ and their headers).                            *)
(*                                                                         *)
(* Options are kept as texts and read back as numbers.  A value given to   *)
(* set_option is a pair: "bool" or "int" (enumerations are cast to int)    *)
(* and a number, or "text" and a text.  A text is a numeral, a word that   *)
(* is none, or blank.                                                      *)
(***************************************************************************)
EXTENDS LevelNames, SequencesExt

CONSTANT Uninitialised   \* what an int may hold that nothing was assigned to

ASSUME UninitialisedAssumption == Uninitialised \subseteq Int /\ Uninitialised # {}

Numeral(n) == <<"numeral", n>>
Word       == <<"word", 0>>
Blank      == <<"blank", 0>>

Texts  == ({"numeral"} \X Int) \cup {Word, Blank}
Values == ({"bool"} \X {0, 1}) \cup ({"int"} \X Int) \cup ({"text"} \X Texts)

-----------------------------------------------------------------------------
(* ConfigUtils                                                               *)

convert_from(v) == IF v[1] = "text" THEN v[2] ELSE Numeral(v[2])

(* The values convert_to<int> may give.  A stream gives 0 for a word, and    *)
(* leaves the variable, which has no initial value, alone for a blank text.  *)
ReadInt(text) ==
    CASE text[1] = "numeral" -> {text[2]} [] text[1] = "word" -> {0} [] text[1] = "blank" -> Uninitialised

(* convert_to<bool>: anything but 0 and 1 is an error that leaves TRUE.      *)
ReadBool(text) ==
    CASE text[1] = "numeral" -> {text[2] # 0} [] text[1] = "word" -> {FALSE} [] text[1] = "blank" -> BOOLEAN

-----------------------------------------------------------------------------
(* SinkConfig                                                                *)

CONSOLE_SINK      == "CONSOLE_SINK"
FILE_SINK         == "FILE_SINK"
SYSLOG_SINK       == "SYSLOG_SINK"
CONSOLE_JSON_SINK == "CONSOLE_JSON_SINK"
CUSTOM_SINK       == "CUSTOM_SINK"

SinkTypes == {CONSOLE_SINK, FILE_SINK, SYSLOG_SINK, CONSOLE_JSON_SINK, CUSTOM_SINK}

(* asked is no part of the code: the values given to set_option, kept for    *)
(* the properties and handed on to the sink.                                 *)
SinkConfig(name, type) == [name |-> name, type |-> type, options |-> <<>>, asked |-> <<>>]

(* One entry of a map, and a map over another: its entries hide those of the *)
(* other one.                                                                *)
Entry(k, v) == [x \in {k} |-> v]
Over(f, g)  == [x \in DOMAIN f \cup DOMAIN g |-> IF x \in DOMAIN f THEN f[x] ELSE g[x]]

has_option(c, o) == o \in DOMAIN c.options

(* Mutant: an option that is set already keeps its text.                     *)
Insert(c, o, v) ==
    [c EXCEPT !.options = Over(@, Entry(o, convert_from(v))), !.asked = Over(Entry(o, v), @)]

set_option(c, o, v) ==
    [c EXCEPT !.options = Over(Entry(o, convert_from(v)), @), !.asked = Over(Entry(o, v), @)]

remove_option(c, o) ==
    [c EXCEPT !.options = Restrict(@, DOMAIN @ \ {o}), !.asked = Restrict(@, DOMAIN @ \ {o})]

(* option_default writes the default as a text too, and reads it back.       *)
OptionText(c, o, default) == IF has_option(c, o) THEN c.options[o] ELSE convert_from(default)

BoolOption(c, o, default) == ReadBool(OptionText(c, o, <<"bool", default>>))
IntOption(c, o, default)  == ReadInt(OptionText(c, o, <<"int", default>>))

-----------------------------------------------------------------------------
(* The constructors of the sinks                                             *)

PLAINTEXT_LONG  == 0
PLAINTEXT_SHORT == 1
JSON            == 2

LineFormats == {PLAINTEXT_LONG, PLAINTEXT_SHORT, JSON}

(* The cast to LineFormat, a one-byte enumeration, takes any byte.           *)
extract_format_with_default(c, default) == {i % 256 : i \in IntOption(c, "LINE_FORMAT", default)}

NO_STREAM == <<>>

(* A sink: its format, and whether it writes without color, leaves the       *)
(* contexts out, adds the thread, and puts the date and time on file names.  *)
Sink(c, format, no_color, no_context, thread_id, dated) ==
    [name |-> c.name, type |-> c.type, asked |-> c.asked, format |-> format, no_color |-> no_color,
     no_context |-> no_context, thread_id |-> thread_id, dated |-> dated, stream |-> NO_STREAM]

ConsoleSink(c) ==
    {Sink(c, f, b, h, FALSE, FALSE) :
        f \in extract_format_with_default(c, PLAINTEXT_LONG),
        b \in BoolOption(c, "CONSOLE_DISABLE_COLOR", 0),
        h \in BoolOption(c, "CONSOLE_DISABLE_CONTEXT_INFO", 1)}

(* Three options of the file sink have no value: they count when present.    *)
FileSink(c) ==
    {Sink(c, f, TRUE, h, FALSE, ~(has_option(c, "FILE_NO_DATE_ON_NAME") /\ has_option(c, "FILE_NO_TIME_ON_NAME"))) :
        f \in extract_format_with_default(c, PLAINTEXT_LONG),
        h \in BoolOption(c, "FILE_DISABLE_CONTEXT_INFO", 1)}

SysLogSink(c) ==
    {Sink(c, f, TRUE, FALSE, FALSE, FALSE) : f \in extract_format_with_default(c, PLAINTEXT_SHORT)}

ConsoleJSONSink(c) ==
    {Sink(c, JSON, TRUE, FALSE, t, FALSE) : t \in BoolOption(c, "LOG_THREAD_ID", 0)}

(* Made by the application; the thread can also be asked for by argument,    *)
(* and stream, a record of a LogStreamType and the origin, says how the log  *)
(* streams are named.                                                        *)
BY_CHANNEL  == "BY_CHANNEL"
BY_EXTRA_ID == "BY_EXTRA_ID"
BY_BOTH     == "BY_BOTH"

CloudWatchSink(c, log_thread_id, stream) ==
    {[Sink(c, JSON, TRUE, FALSE, log_thread_id \/ t, FALSE) EXCEPT !.stream = stream] :
        t \in BoolOption(c, "LOG_THREAD_ID", 0)}

(* SinkFactory makes no custom sinks: it returns null, which configure skips. *)
HasFactory(c) == c.type # CUSTOM_SINK

create_sink(c) ==
    CASE c.type = CONSOLE_SINK -> ConsoleSink(c) [] c.type = FILE_SINK -> FileSink(c)
      [] c.type = SYSLOG_SINK -> SysLogSink(c)   [] c.type = CONSOLE_JSON_SINK -> ConsoleJSONSink(c)

(* The sequences of sinks that configure may make of a list of configs, one  *)
(* after the other.                                                          *)
SinksMade(configs) ==
    LET made[n \in 0 .. Len(configs)] ==
          IF n = 0 THEN {<<>>}
          ELSE IF HasFactory(configs[n])
          THEN {Append(s, k) : s \in made[n - 1], k \in create_sink(configs[n])}
          ELSE made[n - 1]
    IN  made[Len(configs)]

-----------------------------------------------------------------------------
(* ManagerConfig: configs of sinks, custom sinks, and the level option       *)

Named(seq, name) == SelectInSeq(seq, LAMBDA c : c.name = name)

add_sink(m, c)        == [m EXCEPT !.configs = Append(@, c)]
add_custom_sink(m, s) == [m EXCEPT !.custom = Append(@, s)]

(* The first sink of that name, the custom ones last.                        *)
remove_sink(m, name) ==
    LET i == Named(m.configs, name)
        j == Named(m.custom, name)
    IN  IF i # 0 THEN [m EXCEPT !.configs = RemoveAt(@, i)]
        ELSE IF j # 0 THEN [m EXCEPT !.custom = RemoveAt(@, j)] ELSE m

(* DEFAULT_CHANNEL_LEVEL: none, or one text.  level_name is kept for the     *)
(* properties: the name of the level, if it was set by one.                  *)
set_level_option(m, v, name) == [m EXCEPT !.level = <<convert_from(v)>>, !.level_name = name]
remove_level_option(m)       == [m EXCEPT !.level = <<>>, !.level_name = <<>>]

(* The levels configure may take as its default.                             *)
DefaultLevels(m, old) == IF m.level = <<>> THEN {old} ELSE {ToLogLevel(i) : i \in ReadInt(m.level[1])}

ManagerConfig == [configs |-> <<>>, custom |-> <<>>, level |-> <<>>, level_name |-> <<>>]
=============================================================================

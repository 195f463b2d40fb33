------------------------------- MODULE Output -------------------------------
(***************************************************************************)
(* The way of a log from the application, or from the AWS SDK through      *)
(* AwsLogSystem (src/src/aws/aws-log-system.cpp), to what the sinks that   *)
(* were configured write.  The application edits a configuration and       *)
(* applies it, and logs; a thread of the SDK logs, in several steps,       *)
(* between which the level of AwsLogSystem may change.                     *)
(***************************************************************************)
EXTENDS Records, SdkMessages

CONSTANTS SinkName,        \* the name the application gives a sink of a type
          Streams,         \* how the streams of its CloudWatch sinks are named
          Settings,        \* <<type, option, value>>: the options it sets
          LevelSettings,   \* values it sets DEFAULT_CHANNEL_LEVEL to
          LevelSpellings,  \* names of levels it sets it by
          TagLists,        \* lists of names it allows sanitizer tags by
          LoggedRecords,   \* the logs it makes
          SdkLevels, SdkMessagesOf, \* levels, and pairs <<tag, message>>, of the SDK
          GlobalContext,   \* the global context
          MaxSinks,        \* bound: sinks in a configuration
          MaxEdits,        \* bound: changes and uses of the configuration
          SdkEdits         \* bound: of these, before the SDK logs

ASSUME SinkNameAssumption == SinkName \in [SinkTypes -> STRING]
ASSUME SdkAssumption      == SdkLevels \subseteq AwsLogLevels
ASSUME MessagesAssumption == \A p \in SdkMessagesOf : p[1] # NO_EXTRA /\ p[2] \in Seq(Range(p[2]))
ASSUME TagsAssumption     == \A names \in TagLists : names \in Seq(Range(names))
ASSUME RecordsAssumption  == \A r \in LoggedRecords : r.level \in LogLevels /\ r.channel \in Seq(Range(r.channel))
ASSUME SettingsAssumption == \A s \in Settings : s[3] \in Values
ASSUME LevelsAssumption   == LevelSettings \subseteq Values
ASSUME EditsAssumption    == MaxSinks \in Nat /\ MaxEdits \in Nat /\ SdkEdits \in Nat

VARIABLES draft,      \* a SinkConfig of the application
          manager,    \* the ManagerConfig of the application
          sinks,      \* Manager::sinks_
          default_log_level,
          level,      \* of the channel of AwsLogSystem
          allowed,    \* allowed_sanitizer_tags_
          sdk,        \* the call of the SDK in progress, or done last
          color,      \* of the terminal
          complaints, \* on stderr about formats that are none: error_logged
          out,        \* the logs dumped by the last call: log, sinks, outcomes, lines
          edits,
          named,      \* history: the names allowed_sanitizer_tags_ was set by
          level_name  \* history: the name the default level was set by, if any

config_vars == <<draft, manager, edits>>
vars == <<draft, manager, sinks, default_log_level, level, allowed, sdk, color, complaints, out, edits,
          named, level_name>>

Idle == [pc |-> "idle"]

Init ==
    /\ draft = SinkConfig(SinkName[CONSOLE_SINK], CONSOLE_SINK)
    /\ manager = ManagerConfig
    /\ sinks = <<>> /\ out = <<>> /\ edits = 0 /\ complaints = 0
    /\ default_log_level = INFO /\ level = INFO /\ color = DEFAULT
    /\ allowed = <<ALL_TAG>> /\ named = <<"ALL">> /\ level_name = <<>>
    /\ sdk = Idle

(* One call at a time, except that the level may be set during one of the    *)
(* SDK.                                                                      *)
Ready == sdk = Idle /\ out = <<>>

(* The caller goes on: what the call logged is forgotten.                    *)
Return ==
    /\ sdk.pc = "done" \/ (sdk = Idle /\ out # <<>>)
    /\ sdk' = Idle /\ out' = <<>>
    /\ UNCHANGED <<config_vars, sinks, default_log_level, level, allowed, color, complaints, named, level_name>>

-----------------------------------------------------------------------------
(* The application edits its configuration                                   *)

Edit ==
    /\ Ready
    /\ edits < MaxEdits /\ edits' = edits + 1
    /\ UNCHANGED <<sinks, default_log_level, level, allowed, sdk, color, complaints, out, named, level_name>>

EditDraft ==
    /\ Edit
    /\ \/ \E t \in SinkTypes : draft' = SinkConfig(SinkName[t], t)
       \/ \E s \in Settings : s[1] = draft.type /\ draft' = set_option(draft, s[2], s[3])
       \/ \E o \in DOMAIN draft.options : draft' = remove_option(draft, o)
    /\ UNCHANGED manager

(* add_sink copies the SinkConfig: the draft may change afterwards.          *)
EditSinks ==
    /\ Edit
    /\ \/ /\ Len(manager.configs) < MaxSinks
          /\ manager' = add_sink(manager, draft)
       \/ /\ draft.type = CUSTOM_SINK /\ Len(manager.custom) < 1
          /\ \E log_thread_id \in BOOLEAN, stream \in Streams : \E s \in CloudWatchSink(draft, log_thread_id, stream) :
               manager' = add_custom_sink(manager, s)
       \/ \E t \in SinkTypes : manager' = remove_sink(manager, SinkName[t]) /\ manager' # manager
    /\ UNCHANGED draft

(* An unknown name of a level is an exception before anything is set.        *)
EditLevel ==
    /\ Edit
    /\ \/ \E v \in LevelSettings : manager' = set_level_option(manager, v, <<>>)
       \/ \E n \in LevelSpellings :
            /\ string_to_level(n) # NoLevel
            /\ manager' = set_level_option(manager, <<"int", string_to_level(n)>>, <<n>>)
       \/ manager.level # <<>> /\ manager' = remove_level_option(manager)
    /\ UNCHANGED draft

(* Manager::configure.  Every channel gets the default level, that of        *)
(* AwsLogSystem too.                                                         *)
configure(clear_old_sinks) ==
    /\ Ready
    /\ edits < MaxEdits /\ edits' = edits + 1
    /\ clear_old_sinks \/ Len(sinks) + Len(manager.configs) + Len(manager.custom) <= MaxSinks + 1
    /\ \E made \in SinksMade(manager.configs) :
         sinks' = (IF clear_old_sinks THEN <<>> ELSE sinks) \o made \o manager.custom
    /\ default_log_level' \in DefaultLevels(manager, default_log_level)
    /\ level' = default_log_level'
    /\ level_name' = IF manager.level = <<>> THEN level_name ELSE manager.level_name
    /\ UNCHANGED <<draft, manager, allowed, sdk, color, complaints, out, named>>

-----------------------------------------------------------------------------
(* Manager::dump: every sink in turn                                         *)

AfterSink(st, s, r, outcome) ==
    LET d == DumpTo(s, r, st.color)
    IN  [lines |-> Append(st.lines, IF outcome = "written" THEN d.lines ELSE <<>>), color |-> d.color,
         complaints |-> IF outcome # "over" /\ Complains(s, st.complaints) THEN st.complaints + 1
                        ELSE st.complaints]

Dumped(r, outcomes) ==
    LET after[n \in 0 .. Len(sinks)] ==
          IF n = 0 THEN [lines |-> <<>>, color |-> color, complaints |-> complaints]
          ELSE AfterSink(after[n - 1], sinks[n], r, outcomes[n])
    IN  after[Len(sinks)]

SinkOutcomes == {f \in [DOMAIN sinks -> {"written", "failed", "over"}] : \A n \in DOMAIN f : f[n] \in Outcomes(sinks[n])}

(* A log of that level and channel, dumped if it has a stream.               *)
Dump(r, floor, before) ==
    IF HasStream(r.level, floor)
    THEN \E outcomes \in SinkOutcomes :
           LET d == Dumped(r, outcomes)
           IN  /\ out' = Append(before, [log |-> r, sinks |-> sinks, outcomes |-> outcomes, lines |-> d.lines])
               /\ color' = d.color /\ complaints' = d.complaints
    ELSE out' = before /\ UNCHANGED <<color, complaints>>

(* The application makes a log on a channel with the default level.          *)
Logged(r) ==
    /\ Ready
    /\ sinks # <<>>
    /\ Dump(r, default_log_level, <<>>)
    /\ UNCHANGED <<config_vars, sinks, default_log_level, level, allowed, sdk, named, level_name>>

-----------------------------------------------------------------------------
(* AwsLogSystem                                                              *)

SdkLog(l, extra, message) ==
    [level |-> l, extra |-> extra, channel |-> <<"AwsLogSystem">>, message |-> message, own |-> <<>>,
     info |-> <<>>, global |-> GlobalContext]

MaySdk == edits <= SdkEdits

set_allowed_sanitizers_tags(names) ==
    /\ MaySdk /\ Ready
    /\ Range(names) \subseteq TagNames
    /\ allowed' = [i \in DOMAIN names |-> string_to_sanitizer_tag(names[i])] /\ named' = names
    /\ UNCHANGED <<config_vars, sinks, default_log_level, level, sdk, color, complaints, out, level_name>>

(* By the application, at any time: a call of the SDK in progress goes on.   *)
SetLogLevel(a) ==
    /\ MaySdk
    /\ level' = aws_log_level_to_octo(a)
    /\ \/ Ready /\ UNCHANGED sdk
       \/ sdk.pc \in {"announce", "record"} /\ sdk' = [sdk EXCEPT !.moved = TRUE]
    /\ UNCHANGED <<config_vars, sinks, default_log_level, allowed, color, complaints, out, named, level_name>>

(* Throws for a level that is none, for which the SDK makes no call.         *)
GetLogLevel == octo_log_level_to_aws(level)

(* The SDK makes a message when GetLogLevel lets it; LogStream trims and     *)
(* processes it, which reads the tags but changes nothing shared.            *)
LogStream(a, tag, message) ==
    LET m == trim_white_spaces(message)
        p == process_tag(allowed, tag, m)
    IN  /\ MaySdk /\ Ready /\ sinks # <<>>
        /\ level \in LogLevels /\ a # AwsOff /\ a <= GetLogLevel
        /\ sdk' = [pc |-> IF p.ok THEN "record" ELSE "announce", level |-> a, tag |-> tag,
                   message |-> m, text |-> p.text, moved |-> FALSE]
        /\ UNCHANGED <<config_vars, sinks, default_log_level, level, allowed, color, complaints, out, named,
                       level_name>>

(* Mutant: the failure is something to debug.                                *)
FailureIsMinor == DEBUG

FailureLevel == ERROR

(* A message that could not be processed is replaced, and an error logged.   *)
FailedToProcess ==
    /\ sdk.pc = "announce"
    /\ Dump(SdkLog(FailureLevel, NO_EXTRA, <<FAILED_TEXT, sdk.tag>>), level, out)
    /\ sdk' = [sdk EXCEPT !.pc = "record", !.text = <<REDACTED_TEXT>>]
    /\ UNCHANGED <<config_vars, sinks, default_log_level, level, allowed, named, level_name>>

(* The message is logged at its level, which no message has as QUIET.        *)
LogMessage ==
    /\ sdk.pc = "record"
    /\ Dump(SdkLog(aws_log_level_to_octo(sdk.level), sdk.tag, sdk.text), level, out)
    /\ sdk' = [sdk EXCEPT !.pc = "done"]
    /\ UNCHANGED <<config_vars, sinks, default_log_level, level, allowed, named, level_name>>

(* Log and vaLog: the message is not shown, only that there was one.         *)
vaLog ==
    /\ MaySdk /\ Ready /\ sinks # <<>>
    /\ Dump(SdkLog(WARNING, "AwsLogSystem", <<UNSUPPORTED_TEXT>>), level, <<>>)
    /\ UNCHANGED <<config_vars, sinks, default_log_level, level, allowed, sdk, named, level_name>>

-----------------------------------------------------------------------------

Next ==
    \/ EditDraft \/ EditSinks \/ EditLevel
    \/ \E clear_old_sinks \in BOOLEAN : configure(clear_old_sinks)
    \/ \E r \in LoggedRecords : Logged(r)
    \/ \E names \in TagLists : set_allowed_sanitizers_tags(names)
    \/ \E a \in SdkLevels : SetLogLevel(a)
    \/ \E a \in SdkLevels, p \in SdkMessagesOf : LogStream(a, p[1], p[2])
    \/ FailedToProcess \/ LogMessage \/ vaLog \/ Return

Spec == Init /\ [][Next]_vars

-----------------------------------------------------------------------------
(* Properties                                                                *)

(* Types; a log that was dumped has lines for every sink there was, formats  *)
(* and levels are bytes, and only an enabled level has been dumped.          *)
TypeOK ==
    /\ \A i \in DOMAIN sinks :
         /\ sinks[i].type \in SinkTypes /\ sinks[i].format \in 0 .. 255
         /\ {sinks[i].no_color, sinks[i].no_context, sinks[i].thread_id, sinks[i].dated} \subseteq BOOLEAN
    /\ default_log_level \in 0 .. 255 /\ level \in 0 .. 255
    /\ Range(allowed) \subseteq SanitizerTags
    /\ sdk.pc \in {"idle", "announce", "record", "done"}
    /\ complaints \in Nat /\ edits \in 0 .. MaxEdits
    /\ Len(out) <= 2
    /\ \A i \in DOMAIN out : out[i].log.level \in LogLevels \ {QUIET} /\ Len(out[i].lines) = Len(out[i].sinks)

(* A log JSON cannot hold: one of its texts or keys is malformed.            *)
NotInJson(r) ==
    \E text \in Malformed :
        \/ text \in Range(r.message) \/ text = r.extra
        \/ \E c \in Range(Contexts(r)) : text \in DOMAIN c \cup Range(c)

(* A log for which a CloudWatch sink has no name of a stream: by default one *)
(* without an identifier, if the sink has no origin.                         *)
Nameless(s, r) ==
    \/ s.stream.by = BY_EXTRA_ID /\ r.extra = NO_EXTRA /\ s.stream.origin = <<>>
    \/ s.stream.by = BY_CHANNEL /\ r.channel = <<>>
    \/ s.stream.by = BY_BOTH /\ r.channel = <<>> /\ r.extra = NO_EXTRA

(* No sink takes a log from another, or writes it twice: a log that is       *)
(* dumped is one line of every sink, whatever its texts, its format or what  *)
(* becomes of it in the sinks before, but for what is lost in a file that    *)
(* does not take it, and what CloudWatch is not given: a log JSON cannot     *)
(* hold, or one whose stream has no name.                                    *)
EveryLogWritten ==
    \A i \in DOMAIN out : \A j \in DOMAIN out[i].sinks :
        LET s    == out[i].sinks[j]
            r    == out[i].log
            lost == \/ s.type = FILE_SINK /\ out[i].outcomes[j] # "written"
                    \/ s.type = CUSTOM_SINK /\ (NotInJson(r) \/ Nameless(s, r))
        IN  Len(out[i].lines[j]) <= 1 /\ (out[i].lines[j] = <<>> => lost)

(* What a reader takes from a line: the level by its name or letter, the     *)
(* message, and the first value of a key.                                    *)
LevelRead(line) ==
    IF line.layout = "json" THEN string_to_level(line.level)
    ELSE CHOOSE l \in LogLevels : level_to_string_short(l) = line.level

HasContext(line) == "context" \in DOMAIN line /\ line.context # <<>>

KeysRead(line) ==
    IF line.layout = "json" THEN DOMAIN line.context
    ELSE UNION {DOMAIN line.context[i] : i \in DOMAIN line.context}

ValueRead(line, k) ==
    IF line.layout = "json" THEN line.context[k]
    ELSE line.context[SelectInSeq(line.context, LAMBDA c : k \in DOMAIN c)][k]

(* The keys JSON adds or replaces: its extra identifier and the thread.      *)
Overridden(r) == {"thread_id"} \cup (IF r.extra # NO_EXTRA THEN {"session_id"} ELSE {})

LinesOf(entry) == {entry.lines[j][1].line : j \in {i \in DOMAIN entry.lines : entry.lines[i] # <<>>}}

(* The lines of one log in different formats say the same: a reader finds    *)
(* the same level, message, keys and values, and as the extra identifier of  *)
(* plain text the session of JSON.                                           *)
FormatsAgree ==
    \A i \in DOMAIN out : \A a, b \in LinesOf(out[i]) :
        LET o == Overridden(out[i].log)
        IN  /\ LevelRead(a) = LevelRead(b) /\ a.message = b.message
            /\ HasContext(a) /\ HasContext(b) =>
                 /\ KeysRead(a) \ o = KeysRead(b) \ o
                 /\ \A k \in KeysRead(a) \ o : ValueRead(a, k) = ValueRead(b, k)
            /\ a.layout = "json" /\ b.layout # "json" /\ b.extra # NO_EXTRA => ValueRead(a, "session_id") = b.extra

(* A flag of a sink is what was asked for last, its default if nothing was,  *)
(* and off for a text that is no number.  A format is asked for as a byte.   *)
FlagHonoured(s, o, default, flag) ==
    IF o \notin DOMAIN s.asked THEN flag = default
    ELSE /\ s.asked[o][1] = "bool" => flag = (s.asked[o][2] = 1)
         /\ s.asked[o] = <<"text", Word>> => ~flag

FormatHonoured(s, default) ==
    IF "LINE_FORMAT" \notin DOMAIN s.asked THEN s.format = default
    ELSE s.asked["LINE_FORMAT"] \in {"int"} \X (0 .. 255) => s.format = s.asked["LINE_FORMAT"][2]

(* Every sink there is was made as asked for, through drafts that went on to *)
(* change, options set again or removed, and texts that are not what they    *)
(* should be; the default level is the one that was named last.              *)
OptionsHonoured ==
    /\ \A i \in DOMAIN sinks :
         LET s == sinks[i]
         IN  CASE s.type = CONSOLE_SINK ->
                    /\ FormatHonoured(s, PLAINTEXT_LONG)
                    /\ FlagHonoured(s, "CONSOLE_DISABLE_COLOR", FALSE, s.no_color)
                    /\ FlagHonoured(s, "CONSOLE_DISABLE_CONTEXT_INFO", TRUE, s.no_context)
               [] s.type = FILE_SINK ->
                    /\ FormatHonoured(s, PLAINTEXT_LONG)
                    /\ FlagHonoured(s, "FILE_DISABLE_CONTEXT_INFO", TRUE, s.no_context)
                    /\ s.dated = ~({"FILE_NO_DATE_ON_NAME", "FILE_NO_TIME_ON_NAME"} \subseteq DOMAIN s.asked)
               [] s.type = SYSLOG_SINK -> FormatHonoured(s, PLAINTEXT_SHORT)
               [] s.type = CONSOLE_JSON_SINK -> FlagHonoured(s, "LOG_THREAD_ID", FALSE, s.thread_id)
               [] s.type = CUSTOM_SINK -> s.asked # <<>> /\ ~s.thread_id => FlagHonoured(s, "LOG_THREAD_ID", FALSE, FALSE)
    /\ level_name # <<>> => default_log_level = LevelNamed(level_name[1])

(* The console line of a log is in the color of its level, or in none if the *)
(* sink has colors disabled; other lines on the terminal are in none.        *)
LevelColor == [l \in LogLevels |-> configure_log_color(l, DEFAULT)]

LinesInTheirColor ==
    \A i \in DOMAIN out : \A j \in DOMAIN out[i].lines : \A n \in DOMAIN out[i].lines[j] :
        LET s == out[i].sinks[j]
        IN  out[i].lines[j][n].color = IF s.type = CONSOLE_SINK /\ ~s.no_color
                                       THEN LevelColor[out[i].log.level] ELSE DEFAULT

(* sink.cpp:209 "Log an error only once so that it doesn't spam": once for   *)
(* all sinks and configurations, but not later than the first line a sink    *)
(* makes in a format that is none.                                           *)
ComplainsOnce ==
    /\ complaints <= 1
    /\ \A i \in DOMAIN out : \A j \in DOMAIN out[i].sinks :
         out[i].sinks[j].format \notin LineFormats /\ out[i].outcomes[j] # "over" => complaints = 1

(* What the SDK asks AwsLogSystem before it makes a message agrees with what *)
(* becomes of the message: none is held back that would be shown, and only   *)
(* Info messages for a channel at NOTICE are made in vain.                   *)
GateAgrees ==
    level \in LogLevels =>
        \A a \in AwsLogLevels \ {AwsOff} :
            LET made  == a <= GetLogLevel
                shown == HasStream(aws_log_level_to_octo(a), level)
            IN  made = shown \/ (made /\ a = AwsInfo /\ level = NOTICE)

(* What the names in named switch on for a tag of the SDK.                   *)
Sanitizes(tag) ==
    LET names == Range(named)
    IN  \/ "ALL" \in names
        \/ tag = "AWSAuthV4Signer" /\ "AUTHV4" \in names
        \/ tag = "AWSClient" /\ "AWSCLIENT" \in names
        \/ tag = "Aws::Config::ConfigFileProfileFSM" /\ "CONFIG_FILE_PROFILE" \in names
        \/ tag = "CurlHttpClient" /\ "CURL_HTTP_CLIENT" \in names
        \/ tag = "CURL" /\ "CURL" \in names
        \/ tag = "AWSErrorMarshaller" /\ "ERROR_MARSHALLER" \in names

(* The message that was logged by the last call of the SDK, if it is done.   *)
MessageShown == IF sdk.pc = "done" /\ out # <<>> /\ Last(out).log.extra = sdk.tag THEN Last(out).log.message ELSE <<>>

(* The messages of a sanitised tag that may be shown whole.  A header that   *)
(* was received is named after one character.                                *)
Harmless(tag, m) ==
    \/ tag = "AWSClient" /\ m[1] \in AWSClientPhrases
    \/ /\ tag = "CurlHttpClient"
       /\ \/ m[1] \in CurlClientPhrases \cup WHITE_LISTED_HEADERS
          \/ "bytes written to response" \in Range(m)
    \/ /\ tag = "CURL" /\ m[1] \in {"(SSLDataIn)", "(SSLDataOut)", "(Text)", "(HeaderIn)"}
       /\ m[1] = "(HeaderIn)" /\ Len(m) > 1 =>
             Len(m) > 2 /\ m[2] \in OneCharacter /\ m[3] \in WHITE_LISTED_HEADERS

(* What may be shown of a message that is cut after n pieces: the phrase it  *)
(* begins with; a header up to its first colon; its first line; the type of  *)
(* an error, with both quotes and nothing that looks like its end before.    *)
PhraseShown(tag, m, n) ==
    /\ n = 1
    /\ \/ tag = "AWSAuthV4Signer" /\ m[1] \in AuthV4Phrases
       \/ tag = "Aws::Config::ConfigFileProfileFSM" /\ m[1] \in ProfilePhrases
       \/ tag = "AWSClient" /\ m[1] = "HTTP response code:"
       \/ tag = "CURL" /\ m[1] \in {"(DataIn)", "(DataOut)", "(HeaderIn)", "(HeaderOut)"}
       \/ tag = "AWSErrorMarshaller" /\ m[1] \in {"Encountered AWSError", "Error response is"}

HeaderShown(tag, m, n) ==
    /\ tag = "CurlHttpClient" \/ (tag = "CURL" /\ m[1] = "(HeaderIn)")
    /\ m[n] \in WithColon
    /\ \A i \in 1 .. n - 1 : m[i] \notin WithColon

LineShown(tag, m, n) ==
    /\ \/ tag = "AWSClient" /\ m[1] = "HTTP response code:"
       \/ tag = "CURL" /\ m[1] = "(HeaderOut)"
    /\ n < Len(m) /\ m[n + 1] = "\n"
    /\ \A i \in 1 .. n : m[i] # "\n"

TypeShown(tag, m, n) ==
    /\ tag = "AWSErrorMarshaller" /\ m[1] = "Encountered AWSError"
    /\ n \in 3 .. Len(m) - 1 /\ m[3] = "'"
    /\ m[n] = "'" /\ m[n + 1] = ":"
    /\ \A i \in 3 .. n - 1 : ~(m[i] = "'" /\ m[i + 1] = ":")

MayShow(tag, m, n) ==
    PhraseShown(tag, m, n) \/ HeaderShown(tag, m, n) \/ LineShown(tag, m, n) \/ TypeShown(tag, m, n)

(* A message of a tag that is sanitised is shown as a whole only if it is a  *)
(* harmless one; otherwise what is shown ends where the phrase, the name of  *)
(* the header, the line or the type of the error does that it begins with,   *)
(* followed by a mark, or nothing is shown but the mark.  A message of a tag *)
(* that is not sanitised, or whose sanitizer is not switched on, is not      *)
(* changed, and of an unknown tag nothing is shown.                          *)
Sanitized ==
    LET m       == MessageShown
        message == sdk.message
        cut     == \E n \in 1 .. Len(message) :
                       MayShow(sdk.tag, message, n) /\ m = SubSeq(message, 1, n) \o <<BLANK, REDACTED_TEXT>>
    IN  m # <<>> =>
          CASE sdk.tag \in SanitizedTags /\ Sanitizes(sdk.tag) ->
                 m = <<REDACTED_TEXT>> \/ (m = message /\ Harmless(sdk.tag, m)) \/ cut
            [] (sdk.tag \in SanitizedTags /\ ~Sanitizes(sdk.tag)) \/ sdk.tag \in PlainTags -> m = message
            [] OTHER -> m = <<REDACTED_TEXT>>

(* A message replaced as a whole is preceded by the error that says so,      *)
(* unless the level was changed while it was logged.                         *)
FailureAnnounced ==
    MessageShown = <<REDACTED_TEXT>> /\ ~sdk.moved =>
        /\ Len(out) = 2
        /\ out[1].log.message = <<FAILED_TEXT, sdk.tag>>
=============================================================================

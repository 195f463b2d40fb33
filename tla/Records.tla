------------------------------ MODULE Records ------------------------------
(***************************************************************************)
(* From a log to what the sinks write (src/src/sink.cpp, the dump of the   *)
(* console, JSON console and syslog sinks, formatted_json of the           *)
(* CloudWatch sink).  Time, process and channel are left out of the lines. *)
(*                                                                         *)
(* A log is a record: level, extra (the identifier, NO_EXTRA if none),     *)
(* channel (a sequence of its name, <<>> for an empty name), message (a    *)
(* sequence of texts), and own, info and global: its context, that of its  *)
(* logger and the global one, functions from keys to texts.                *)
(***************************************************************************)
EXTENDS Configuration

CONSTANTS Malformed,   \* texts that are not UTF-8: JSON cannot be made of them
          ThreadId     \* this_thread::get_id, as a text

(* The text of a thread is a number, and the keys the code adds are UTF-8.   *)
ASSUME ThreadAssumption == {ThreadId, "thread_id", "session_id"} \cap Malformed = {}

-----------------------------------------------------------------------------
(* JSON                                                                      *)

NO_EXTRA == ""

Contexts(r) == <<r.own, r.info, r.global>>

(* Mutant: the global context comes first.                                   *)
GlobalFirst(r) == Over(r.global, Over(r.own, r.info))

(* A key keeps the value of the most local context.                          *)
Merged(r) == Over(r.own, Over(r.info, r.global))

Session(r) == IF r.extra # NO_EXTRA THEN Entry("session_id", r.extra) ELSE <<>>

init_context_info_impl(r) == Over(Session(r), Merged(r))

Document(r, context) ==
    [layout |-> "json", level |-> level_to_string_upper(r.level), message |-> r.message, context |-> context]

construct_log_json(r) == Document(r, init_context_info_impl(r))

WithThread(thread_id) == IF thread_id THEN Entry("thread_id", ThreadId) ELSE <<>>

(* The CloudWatch sink has a copy of both.                                   *)
init_context_info(r, log_thread_id) == Over(WithThread(log_thread_id), Over(Session(r), Merged(r)))

formatted_json(r, log_thread_id) == Document(r, init_context_info(r, log_thread_id))

(* dump throws for a document that holds a malformed text or key.            *)
Encodable(doc) == (Range(doc.message) \cup DOMAIN doc.context \cup Range(doc.context)) \cap Malformed = {}

-----------------------------------------------------------------------------
(* Plain text                                                                *)

(* A key that is in several contexts is written as often.                    *)
formatted_context_info(r) == Contexts(r)

formatted_log_plaintext_long(r, disable_context_info) ==
    [layout |-> "long", level |-> level_to_string_short(r.level), extra |-> r.extra, message |-> r.message,
     context |-> IF disable_context_info \/ \A i \in DOMAIN Contexts(r) : DOMAIN Contexts(r)[i] = {}
                 THEN <<>> ELSE formatted_context_info(r)]

formatted_log_plaintext_short(r) ==
    [layout |-> "short", level |-> level_to_string_short(r.level), extra |-> r.extra, message |-> r.message]

(* A JSON sink falls back to plain text when dump throws, and so does a sink *)
(* with a format that is none.                                               *)
formatted_log(s, r) ==
    LET doc == construct_log_json(r)
    IN  CASE s.format = PLAINTEXT_SHORT -> formatted_log_plaintext_short(r)
          [] s.format = JSON /\ Encodable(doc) -> doc
          [] OTHER -> formatted_log_plaintext_long(r, s.no_context)

(* Mutant: a complaint about a format that is none is made for every line.   *)
ComplainsAlways(s, complaints) == s.format \notin LineFormats

(* error_logged: it is made once.                                            *)
Complains(s, complaints) == s.format \notin LineFormats /\ complaints = 0

-----------------------------------------------------------------------------
(* The sinks: the lines they write of a log.  color is what the terminal     *)
(* writes in.                                                                *)

DEFAULT == "default"

configure_log_color(l, color) ==
    CASE l \in {TRACE, DEBUG} -> "green" [] l = INFO -> "cyan" [] l = NOTICE -> "blue"
      [] l = WARNING -> "yellow" [] l = ERROR -> "red" [] OTHER -> color

(* Mutant: the color stays.                                                  *)
KeepsColor(color) == color

reset_log_color(color) == DEFAULT

(* The color is set, the line written, and the color reset.                  *)
ConsoleDump(s, r, color) ==
    LET shown == IF s.no_color THEN color ELSE configure_log_color(r.level, color)
    IN  [lines |-> <<[color |-> shown, line |-> formatted_log(s, r)]>>,
         color |-> IF s.no_color THEN color ELSE reset_log_color(shown)]

(* Mutant: a document that cannot be written is dropped.                     *)
DropsFailed(r) == <<>>

(* What the JSON console writes for a log that cannot be a document; the     *)
(* contexts are never left out.                                              *)
Fallback(r) == <<formatted_log_plaintext_long(r, FALSE)>>

ConsoleJSONLines(s, r) ==
    LET doc == [construct_log_json(r) EXCEPT !.context = Over(WithThread(s.thread_id), @)]
    IN  IF Encodable(doc) THEN <<doc>> ELSE Fallback(r)

(* The name of the log stream, a sequence of its parts.  Any other kind of   *)
(* stream is that of AWS Lambda, which has a name of its own.                *)
log_stream_name(s, r) ==
    LET extra == IF r.extra # NO_EXTRA THEN <<r.extra>> ELSE <<>>
    IN  CASE s.stream.by = BY_CHANNEL -> r.channel
          [] s.stream.by = BY_EXTRA_ID -> IF extra # <<>> THEN extra ELSE s.stream.origin
          [] s.stream.by = BY_BOTH -> r.channel \o extra
          [] OTHER -> <<"AWS_LAMBDA_LOG_STREAM_NAME">>

(* What a running sink queues.  formatted_json throws, and dump swallows it: *)
(* the log is not queued, and neither is one whose stream has no name.  A    *)
(* document is never an empty text.                                          *)
CloudWatchLines(s, r) ==
    LET doc == formatted_json(r, s.thread_id)
    IN  IF Encodable(doc) /\ log_stream_name(s, r) # <<>> THEN <<doc>> ELSE <<>>

InColor(lines, color) == [i \in DOMAIN lines |-> [color |-> color, line |-> lines[i]]]

(* The system log, and a file that takes the log (see Outcomes).             *)
SysLogLines(s, r) == <<formatted_log(s, r)>>

(* A file takes the log; or its sink formats the log for a stream that has   *)
(* failed; or it is over its limit, and the sink returns at once.  When that *)
(* is, is told by FileSink: here it may be at any time.                      *)
Outcomes(s) == IF s.type = FILE_SINK THEN {"written", "failed", "over"} ELSE {"written"}

(* What a sink writes of a log it takes, and makes of the terminal.          *)
DumpTo(s, r, color) ==
    CASE s.type = CONSOLE_SINK -> ConsoleDump(s, r, color)
      [] s.type = CONSOLE_JSON_SINK -> [lines |-> InColor(ConsoleJSONLines(s, r), color), color |-> color]
      [] s.type = CUSTOM_SINK -> [lines |-> InColor(CloudWatchLines(s, r), DEFAULT), color |-> color]
      [] s.type \in {SYSLOG_SINK, FILE_SINK} -> [lines |-> InColor(SysLogLines(s, r), DEFAULT), color |-> color]
=============================================================================

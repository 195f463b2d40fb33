----------------------------- MODULE LevelNames -----------------------------
(***************************************************************************)
(* The levels of a log, the names and letters they are written with        *)
(* (include/octo-logger-cpp/log-level.hpp), and their counterparts in the  *)
(* AWS SDK (src/src/aws/aws-log-system.cpp).  A name is a pair of a word   *)
(* and the way it is spelled.                                              *)
(***************************************************************************)
EXTENDS Integers

TRACE   == 1
DEBUG   == 2
INFO    == 4
NOTICE  == 8
WARNING == 16
ERROR   == 32
QUIET   == 255

LogLevels == {TRACE, DEBUG, INFO, NOTICE, WARNING, ERROR, QUIET}

(* Mutant: the number is kept as it is.                                      *)
NoCast(i) == i

(* static_cast<LogLevel>: the enumeration is one byte wide, and the cast     *)
(* gives any byte, the seven levels among them.                              *)
ToLogLevel(i) == i % 256

(* A log is kept if its level reaches that of its channel; QUIET mutes.      *)
HasStream(l, floor) == l >= floor /\ l # QUIET

Words == {"trace", "debug", "info", "notice", "warning", "error", "quiet"}

level_word(l) ==
    CASE l = TRACE -> "trace" [] l = DEBUG -> "debug" [] l = INFO -> "info" [] l = NOTICE -> "notice"
      [] l = WARNING -> "warning" [] l = ERROR -> "error" [] l = QUIET -> "quiet"

level_to_string(l)       == <<level_word(l), "Capitalized">>
level_to_string_lower(l) == <<level_word(l), "lower">>
level_to_string_upper(l) == <<level_word(l), "UPPER">>

level_to_string_short(l) ==
    LET letter == CASE l = TRACE -> "T" [] l = DEBUG -> "D" [] l = INFO -> "I" [] l = NOTICE -> "N"
                    [] l = WARNING -> "W" [] l = ERROR -> "E" [] l = QUIET -> "Q"
    IN  <<letter, "short">>

KnownSpellings == {"Capitalized", "lower", "UPPER"}

level_names == Words \X KnownSpellings

UpperCase(name) == <<name[1], "UPPER">>

(* string_to_level throws for a name that even in upper case is none.        *)
NoLevel == -1

LevelNamed(name) == CHOOSE l \in LogLevels : level_word(l) = name[1]

string_to_level(name) ==
    IF name \in level_names THEN LevelNamed(name)
    ELSE IF UpperCase(name) \in level_names THEN LevelNamed(UpperCase(name))
    ELSE NoLevel

-----------------------------------------------------------------------------
(* The levels of the SDK                                                     *)

AwsOff   == 0
AwsFatal == 1
AwsError == 2
AwsWarn  == 3
AwsInfo  == 4
AwsDebug == 5
AwsTrace == 6

AwsLogLevels == AwsOff .. AwsTrace

(* Mutant: an error is the worst there is.                                   *)
ErrorAsFatal(l) ==
    CASE l = TRACE -> AwsTrace [] l = DEBUG -> AwsDebug [] l \in {INFO, NOTICE} -> AwsInfo
      [] l = WARNING -> AwsWarn [] l = ERROR -> AwsFatal [] l = QUIET -> AwsOff

(* Defined for l in LogLevels: the code throws for any other byte.           *)
octo_log_level_to_aws(l) ==
    CASE l = TRACE -> AwsTrace [] l = DEBUG -> AwsDebug [] l \in {INFO, NOTICE} -> AwsInfo
      [] l = WARNING -> AwsWarn [] l = ERROR -> AwsError [] l = QUIET -> AwsOff

aws_log_level_to_octo(a) ==
    CASE a = AwsOff -> QUIET [] a \in {AwsFatal, AwsError} -> ERROR [] a = AwsWarn -> WARNING
      [] a = AwsInfo -> INFO [] a = AwsDebug -> DEBUG [] a = AwsTrace -> TRACE
=============================================================================

------------------------------ MODULE FileSink ------------------------------
(***************************************************************************)
(* The file sink (src/src/sinks/file-sink.cpp) over the lives of a         *)
(* process: files in a directory, the open file and index of every key     *)
(* (current_files_), rotation by size, the limit on the number of files,   *)
(* and the listing of the directory when the sink is made.  Calls are      *)
(* serialised by Manager::sinks_mutex_, and every log is flushed by        *)
(* std::endl, so that an orderly end and a crash leave the same files.     *)
(*                                                                         *)
(* A file name is <<key, stamp, index>>: the channel, or the combined      *)
(* prefix; what strftime_format_ prints when the file is opened; and the   *)
(* index, 0 standing for a name without one.  Size is counted in logs.     *)
(*                                                                         *)
(* Stamps have no order, since none can be relied on: "%d-%m-%Y" puts      *)
(* 01-02 before 31-01, "%H-%M-%S" without a date begins again every day,   *)
(* and local time goes back in autumn.  A stamp may come again, too.       *)
(***************************************************************************)
EXTENDS Integers, Sequences

CONSTANTS Channels,
          Combined,     \* combined_channels_prefix_
          Modes,        \* values of separate_channels_to_files_ to consider
          Stamped,      \* strftime_format_ is not empty
          Stamps,       \* what strftime may print
          NoStamp,      \* no date and no time on the name
          Apart,        \* no life of the sink prints a stamp of an earlier one
          SizePerFile,  \* size_per_file_
          NoLimit,      \* FILE_MAX_LOG_FILES is not set, -1
          MaxFiles,     \* max_files_
          MaxLogs,      \* bound: logs dumped
          MaxStarts     \* bound: times the sink is made

ASSUME KeysAssumption  == Combined \notin Channels
ASSUME ModeAssumption  == Modes \subseteq BOOLEAN /\ Stamped \in BOOLEAN /\ Apart \in BOOLEAN
ASSUME SizeAssumption  == SizePerFile \in Nat
ASSUME LimitAssumption == MaxFiles \in Nat \cup {NoLimit} /\ NoLimit \notin Nat
ASSUME BoundAssumption == MaxLogs \in Nat /\ MaxStarts \in Nat

VARIABLES separate,   \* separate_channels_to_files_
          up,         \* the sink exists
          current,    \* current_files_: name, index and state of the stream of a key
          disk,       \* the log files and their logs, each a pair <<start, number>>
          now,        \* what strftime prints now
          before,     \* the stamps of the files found when the sink was made
          starts, logs

vars == <<separate, up, current, disk, now, before, starts, logs>>

Keys == Channels \cup {Combined}

FileNames == Keys \X (Stamps \cup {NoStamp}) \X Nat

(* The part of a name between the key and the index.                         *)
Stamp == IF Stamped THEN now ELSE NoStamp

StampsOnDisk == {n[2] : n \in DOMAIN disk}

Init ==
    /\ separate \in Modes
    /\ up = FALSE /\ current = <<>> /\ disk = <<>>
    /\ now \in Stamps /\ before = {} /\ starts = 0 /\ logs = 0

-----------------------------------------------------------------------------
(* switch_stream                                                             *)

(* Mutant: the names carry no date and time.                                 *)
Unstamped(k, i, ok) == [name |-> <<k, NoStamp, i>>, index |-> i, ok |-> ok]

File(k, i, ok) == [name |-> <<k, Stamp, i>>, index |-> i, ok |-> ok]

(* The directory d after the file is opened for appending.                   *)
Opened(d, f) ==
    IF f.ok /\ f.name \notin DOMAIN d
    THEN [n \in DOMAIN d \cup {f.name} |-> IF n = f.name THEN <<>> ELSE d[n]]
    ELSE d

Indices(k) == {n[3] : n \in {m \in DOMAIN disk : m[1] = k /\ m[2] = Stamp}}

(* The values last_index may have after the listing.  readdir promises no    *)
(* order.  A numbered file raises last_index to its index, a file without a  *)
(* number sets it to 1, whatever was found before.                           *)
LastIndices(k) ==
    LET numbered == Indices(k) \ {0}
    IN  IF 0 \in Indices(k) THEN {1} \cup numbered
        ELSE {i \in numbered \cup {0} : \A j \in numbered : j <= i}

(* The index of the first file after a listing.                              *)
AfterListing(last) == IF last > 0 THEN last + 1 ELSE 0

(* Mutant: every rotation goes to the same file.                             *)
FirstIndex(i) == 1

(* The index of a key that has an entry already.                             *)
NextIndex(i) == i + 1

-----------------------------------------------------------------------------
(* The constructor opens the combined file.  Opening may fail; nothing       *)
(* notices.                                                                  *)
FileSinkMade ==
    /\ ~up /\ starts < MaxStarts
    /\ Apart => Stamp \notin StampsOnDisk
    /\ up' = TRUE /\ starts' = starts + 1 /\ before' = StampsOnDisk
    /\ IF separate
       THEN UNCHANGED <<current, disk>>
       ELSE \E last \in LastIndices(Combined), ok \in BOOLEAN :
              LET f == File(Combined, AfterListing(last), ok)
              IN  /\ current' = [k \in {Combined} |-> f]
                  /\ disk' = Opened(disk, f)
    /\ UNCHANGED <<separate, now, logs>>

(* The destructor, or the end of the process.                                *)
Ended ==
    /\ up
    /\ up' = FALSE /\ current' = <<>> /\ before' = {}
    /\ UNCHANGED <<separate, disk, now, starts, logs>>

(* Time passes.                                                              *)
Tick ==
    /\ now' \in Stamps
    /\ up /\ Apart => Stamp' \notin before
    /\ UNCHANGED <<separate, up, current, disk, before, starts, logs>>

-----------------------------------------------------------------------------
(* dump                                                                      *)

(* Mutant: the combined prefix is used for the file name only.               *)
ChannelKey(c) == c

KeyOf(c) == IF separate THEN c ELSE Combined

(* Mutant: the limit is compared with the number of files.                   *)
OverCount(f) == MaxFiles # NoLimit /\ f.index > MaxFiles + 1

OverLimit(f) == MaxFiles # NoLimit /\ f.index > MaxFiles

(* tellp() is -1 for a stream that failed: such a file is never full.        *)
Full(d, f) == f.ok /\ Len(d[f.name]) > SizePerFile

(* A channel without an entry gets one, with index 0, before switch_stream,  *)
(* which then takes it for a channel with an open file.  The limit is        *)
(* compared before the rotation.  Opening and writing may fail, unnoticed.   *)
dump(c) ==
    /\ up /\ logs < MaxLogs /\ logs' = logs + 1
    /\ \E opened, reopened, written \in BOOLEAN :
         LET k == KeyOf(c)
             f == IF k \in DOMAIN current THEN current[k] ELSE File(k, NextIndex(0), opened)
             g == IF ~OverLimit(f) /\ Full(Opened(disk, f), f)
                  THEN File(k, NextIndex(f.index), reopened) ELSE f
             d == Opened(Opened(disk, f), g)
             w == g.ok /\ written /\ ~OverLimit(f)
         IN  /\ current' = [x \in DOMAIN current \cup {k} |->
                              IF x # k THEN current[x]
                              ELSE IF OverLimit(f) THEN f ELSE [g EXCEPT !.ok = w]]
             /\ disk' = IF w THEN [d EXCEPT ![g.name] = Append(@, <<starts, logs + 1>>)] ELSE d
    /\ UNCHANGED <<separate, up, now, before, starts>>

Next == FileSinkMade \/ Ended \/ Tick \/ \E c \in Channels : dump(c)

Spec == Init /\ [][Next]_vars

-----------------------------------------------------------------------------
(* Properties                                                                *)

(* Types; every stream belongs to a key of the mode and has its file.        *)
TypeOK ==
    /\ separate \in BOOLEAN /\ up \in BOOLEAN
    /\ DOMAIN current \subseteq (IF separate THEN Channels ELSE {Combined})
    /\ \A k \in DOMAIN current :
         /\ current[k] \in [name : FileNames, index : Nat, ok : BOOLEAN]
         /\ current[k].name[1] = k /\ current[k].name[3] = current[k].index
         /\ current[k].ok => current[k].name \in DOMAIN disk
    /\ DOMAIN disk \subseteq FileNames
    /\ \A n \in DOMAIN disk : disk[n] \in Seq((1 .. starts) \X (1 .. logs))
    /\ now \in Stamps /\ before \subseteq StampsOnDisk
    /\ starts \in 0 .. MaxStarts /\ logs \in 0 .. MaxLogs

(* The logs of a key: its files in the order they were last written to, as   *)
(* their modification times give it.  Logs are numbered as they are dumped.  *)
FilesOf(k)  == {n \in DOMAIN disk : n[1] = k}
LastLog(n)  == disk[n][Len(disk[n])][2]
Older(m, n) == LastLog(m) < LastLog(n)

ReadBefore(m, i, n, j) == IF m = n THEN i < j ELSE Older(m, n)

RecordsOf(k) == UNION {{disk[n][i] : i \in DOMAIN disk[n]} : n \in FilesOf(k)}

OrderOf(k) == {p \in RecordsOf(k) \X RecordsOf(k) :
    \E m, n \in FilesOf(k) : \E i \in DOMAIN disk[m], j \in DOMAIN disk[n] :
        disk[m][i] = p[1] /\ disk[n][j] = p[2] /\ ReadBefore(m, i, n, j)}

(* The keys that write nothing until the sink is made anew: their stream     *)
(* failed, or their file is over the limit.                                  *)
Silent == {k \in DOMAIN current : ~current[k].ok \/ OverLimit(current[k])}

Record == INSTANCE RecordLog WITH
    records <- [k \in Keys |-> RecordsOf(k)], order <- [k \in Keys |-> OrderOf(k)],
    life <- starts, number <- logs, silent <- Silent

(* The files of a key, read from the one last written to first to the one    *)
(* last written to last, are a log to which records are only appended: its   *)
(* files are written one after the other, whatever the stamps and restarts,  *)
(* and a record is lost only with all that follow in its life, so that a     *)
(* stream that failed or a limit that was reached leaves no hole.  (Nothing  *)
(* of the kind is said of the order of the names.)                           *)
ImplementsRecordLog == Record!Spec

(* A file exceeds size_per_file_ by less than one log.                       *)
SizeBound == \A n \in DOMAIN disk : Len(disk[n]) <= SizePerFile + 1

(* max_files_ is an index: a life of the sink fills the files up to it, and  *)
(* puts a single log into one more, after which it writes nothing.           *)
LastFileGetsOneLog ==
    MaxFiles # NoLimit =>
        \A n \in DOMAIN disk : /\ n[3] <= MaxFiles + 1
                               /\ n[3] = MaxFiles + 1 => Len(disk[n]) <= 1

(* file-sink.cpp:155 "If we found an index file, we just create a new one    *)
(* with the next index": a sink that is made anew begins new files.          *)
OneStartPerFile ==
    \A n \in DOMAIN disk : \A i, j \in DOMAIN disk[n] : disk[n][i][1] = disk[n][j][1]
=============================================================================

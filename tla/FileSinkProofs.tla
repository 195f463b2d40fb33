--------------------------- MODULE FileSinkProofs ---------------------------
(***************************************************************************)
(* FileSink for any channels, stamps, size and limits: the types in        *)
(* general, and what depends on the names of files being new - the bound   *)
(* on their size, the file after the last one, and RecordLog - for sinks   *)
(* whose lives do not share a stamp (Apart).                               *)
(*                                                                         *)
(* The inductive invariant has four parts:                                 *)
(*   Types    the types; a life of the sink has a number;                  *)
(*   Fresh    the files of this life belong to keys that have an entry and *)
(*            their index is at most the one of the entry;                 *)
(*   Bounds   the properties of size and number, with the index of the     *)
(*            open file below the limit;                                   *)
(*   Ordered  the files of a key were written one after the other, and the *)
(*            open one is the last.                                        *)
(***************************************************************************)
EXTENDS FileSink, SequenceTheorems, TLAPS

OpenFiles   == [name : FileNames, index : Nat, ok : BOOLEAN]
RecordPairs == (1 .. starts) \X (1 .. logs)

CounterTypes ==
    /\ separate \in BOOLEAN /\ up \in BOOLEAN
    /\ now \in Stamps /\ starts \in 0 .. MaxStarts /\ logs \in 0 .. MaxLogs
    /\ up => starts > 0
    /\ ~up => DOMAIN current = {}

CurrentTypes ==
    /\ DOMAIN current \subseteq (IF separate THEN Channels ELSE {Combined})
    /\ current \in [DOMAIN current -> OpenFiles]
    /\ \A k \in DOMAIN current :
         /\ current[k].name[1] = k /\ current[k].name[3] = current[k].index
         /\ current[k].ok => current[k].name \in DOMAIN disk

DiskTypes ==
    /\ DOMAIN disk \subseteq FileNames
    /\ disk \in [DOMAIN disk -> Seq(RecordPairs)]

BeforeType == before \subseteq StampsOnDisk

Types == CounterTypes /\ CurrentTypes /\ DiskTypes /\ BeforeType

-----------------------------------------------------------------------------
(* The operators.                                                            *)

LEMMA EmptyDomain == DOMAIN <<>> = {} /\ \A S : <<>> \in [DOMAIN <<>> -> S]
  OBVIOUS

LEMMA StampType == CounterTypes => Stamp \in Stamps \cup {NoStamp}
  BY DEF CounterTypes, Stamp

LEMMA KeyType == \A c \in Channels : /\ KeyOf(c) \in Keys
                                     /\ KeyOf(c) \in (IF separate THEN Channels ELSE {Combined})
  BY DEF KeyOf, Keys

LEMMA FileType ==
  ASSUME CounterTypes, NEW k \in Keys, NEW i \in Nat, NEW ok \in BOOLEAN
  PROVE  /\ File(k, i, ok) \in OpenFiles
         /\ File(k, i, ok).name = <<k, Stamp, i>>
         /\ File(k, i, ok).name[1] = k /\ File(k, i, ok).name[2] = Stamp
         /\ File(k, i, ok).name[3] = i
         /\ File(k, i, ok).index = i /\ File(k, i, ok).ok = ok
  BY StampType DEF File, OpenFiles, FileNames

(* Opening a file adds it, empty, to the directory if it is not there.       *)
LEMMA OpenedType ==
  ASSUME NEW S, NEW d, d \in [DOMAIN d -> Seq(S)], DOMAIN d \subseteq FileNames, NEW f \in OpenFiles
  PROVE  /\ f.ok => DOMAIN Opened(d, f) = DOMAIN d \cup {f.name}
         /\ ~f.ok => DOMAIN Opened(d, f) = DOMAIN d
         /\ DOMAIN d \subseteq DOMAIN Opened(d, f) /\ (f.ok => f.name \in DOMAIN Opened(d, f))
         /\ DOMAIN Opened(d, f) \subseteq FileNames
         /\ Opened(d, f) \in [DOMAIN Opened(d, f) -> Seq(S)]
         /\ \A n \in DOMAIN Opened(d, f) : Opened(d, f)[n] = IF n \in DOMAIN d THEN d[n] ELSE <<>>
<1>1. f.name \in FileNames
  BY DEF OpenFiles
<1>2. CASE f.ok /\ f.name \notin DOMAIN d
  <2>1. Opened(d, f) = [n \in DOMAIN d \cup {f.name} |-> IF n = f.name THEN <<>> ELSE d[n]]
    BY <1>2 DEF Opened
  <2> QED
    BY <1>1, <1>2, <2>1, EmptySeq
<1>3. CASE ~(f.ok /\ f.name \notin DOMAIN d)
  <2>1. Opened(d, f) = d
    BY <1>3 DEF Opened
  <2> QED
    BY <1>3, <2>1
<1> QED
  BY <1>2, <1>3

LEMMA LastIndicesType ==
  ASSUME DiskTypes, NEW k, NEW last \in LastIndices(k)
  PROVE  last \in Nat /\ AfterListing(last) \in Nat
  BY DEF DiskTypes, FileNames, LastIndices, Indices, AfterListing

(* What dump(c) does, once the streams have failed or not: f is the file it  *)
(* finds or opens, g the one it would write to, w says whether it does.      *)
DumpTo(c, f, g, w) ==
    LET k == KeyOf(c)
        d == Opened(Opened(disk, f), g)
    IN  /\ IF k \in DOMAIN current THEN f = current[k] ELSE f.name = <<k, Stamp, 1>> /\ f.index = 1
        /\ g # f => /\ ~OverLimit(f) /\ f.ok
                    /\ g.name = <<k, Stamp, f.index + 1>> /\ g.index = f.index + 1
        /\ g = f /\ ~OverLimit(f) /\ f.ok => Len(Opened(disk, f)[f.name]) <= SizePerFile
        /\ w => g.ok /\ ~OverLimit(f)
        /\ current' = [x \in DOMAIN current \cup {k} |->
                         IF x # k THEN current[x]
                         ELSE IF OverLimit(f) THEN f ELSE [g EXCEPT !.ok = w]]
        /\ disk' = IF w THEN [d EXCEPT ![g.name] = Append(@, <<starts, logs + 1>>)] ELSE d

LEMMA DumpEffect ==
  ASSUME Types, NEW c \in Channels, dump(c)
  PROVE  /\ \E f, g \in OpenFiles, w \in BOOLEAN : DumpTo(c, f, g, w)
         /\ up /\ logs' = logs + 1 /\ logs' \in 0 .. MaxLogs
         /\ UNCHANGED <<separate, up, now, before, starts>>
<1> DEFINE k == KeyOf(c)
<1>1. PICK opened, reopened, written \in BOOLEAN :
        LET f == IF k \in DOMAIN current THEN current[k] ELSE File(k, NextIndex(0), opened)
            g == IF ~OverLimit(f) /\ Full(Opened(disk, f), f)
                 THEN File(k, NextIndex(f.index), reopened) ELSE f
            d == Opened(Opened(disk, f), g)
            w == g.ok /\ written /\ ~OverLimit(f)
        IN  /\ current' = [x \in DOMAIN current \cup {k} |->
                             IF x # k THEN current[x]
                             ELSE IF OverLimit(f) THEN f ELSE [g EXCEPT !.ok = w]]
            /\ disk' = IF w THEN [d EXCEPT ![g.name] = Append(@, <<starts, logs + 1>>)] ELSE d
  BY DEF dump
<1> DEFINE f == IF k \in DOMAIN current THEN current[k] ELSE File(k, NextIndex(0), opened)
           g == IF ~OverLimit(f) /\ Full(Opened(disk, f), f)
                THEN File(k, NextIndex(f.index), reopened) ELSE f
           w == g.ok /\ written /\ ~OverLimit(f)
<1>2. k \in Keys
  BY KeyType
<1>3. /\ f \in OpenFiles
      /\ IF k \in DOMAIN current THEN f = current[k] ELSE f.name = <<k, Stamp, 1>> /\ f.index = 1
  BY <1>2, FileType DEF Types, CurrentTypes, NextIndex
<1> HIDE DEF f
<1>4. f.index + 1 \in Nat
  BY <1>3 DEF OpenFiles
<1>5. Full(Opened(disk, f), f) => f.ok
  BY DEF Full
<1>6. ~Full(Opened(disk, f), f) /\ f.ok => Len(Opened(disk, f)[f.name]) <= SizePerFile
  <2>1. SUFFICES ASSUME ~Full(Opened(disk, f), f), f.ok
                 PROVE  Len(Opened(disk, f)[f.name]) <= SizePerFile
    OBVIOUS
  <2>2. Opened(disk, f)[f.name] \in Seq(RecordPairs)
    <3>1. f.name \in DOMAIN Opened(disk, f)
      <4>1. f \in OpenFiles /\ disk \in [DOMAIN disk -> Seq(RecordPairs)] /\ DOMAIN disk \subseteq FileNames
        BY <1>3 DEF Types, DiskTypes
      <4>2. DOMAIN Opened(disk, f) = DOMAIN disk \cup {f.name}
        BY <2>1, <4>1, OpenedType
      <4> QED
        BY <4>2
    <3>2. Opened(disk, f) \in [DOMAIN Opened(disk, f) -> Seq(RecordPairs)]
      BY <1>3, OpenedType DEF Types, DiskTypes
    <3> QED
      BY <3>1, <3>2
  <2> QED
    BY <2>1, <2>2, LenProperties, SizeAssumption DEF Full
<1>7. /\ g \in OpenFiles
      /\ g # f => /\ ~OverLimit(f) /\ f.ok
                  /\ g.name = <<k, Stamp, f.index + 1>> /\ g.index = f.index + 1
      /\ g = f /\ ~OverLimit(f) /\ f.ok => Len(Opened(disk, f)[f.name]) <= SizePerFile
  <2>1. CASE ~OverLimit(f) /\ Full(Opened(disk, f), f)
    <3>1. g = File(k, f.index + 1, reopened)
      BY <2>1 DEF NextIndex
    <3>2. g.index = f.index + 1 /\ g.name = <<k, Stamp, f.index + 1>> /\ g \in OpenFiles
      BY <1>2, <1>4, <3>1, FileType DEF Types
    <3> QED
      BY <1>3, <1>5, <2>1, <3>2 DEF OpenFiles
  <2>2. CASE ~(~OverLimit(f) /\ Full(Opened(disk, f), f))
    BY <1>3, <1>6, <2>2
  <2> QED
    BY <2>1, <2>2
<1>8. w \in BOOLEAN /\ (w => g.ok /\ ~OverLimit(f))
  BY <1>7 DEF OpenFiles
<1>9. /\ current' = [x \in DOMAIN current \cup {k} |->
                       IF x # k THEN current[x]
                       ELSE IF OverLimit(f) THEN f ELSE [g EXCEPT !.ok = w]]
      /\ disk' = IF w THEN [Opened(Opened(disk, f), g) EXCEPT
                              ![g.name] = Append(@, <<starts, logs + 1>>)]
                 ELSE Opened(Opened(disk, f), g)
  BY <1>1 DEF f
<1> HIDE DEF g, w
<1>10. DumpTo(c, f, g, w)
  BY <1>3, <1>7, <1>8, <1>9 DEF DumpTo
<1>11. up /\ logs' = logs + 1 /\ logs' \in 0 .. MaxLogs /\ UNCHANGED <<separate, up, now, before, starts>>
  BY BoundAssumption DEF dump, Types, CounterTypes
<1> QED
  BY <1>3, <1>7, <1>8, <1>10, <1>11

-----------------------------------------------------------------------------
(* Types is inductive, whatever the names are.                               *)

LEMMA InitTypes == Init => Types
<1> SUFFICES ASSUME Init PROVE Types
  OBVIOUS
<1>1. CounterTypes
  <2>1. separate \in BOOLEAN /\ up \in BOOLEAN /\ ~up /\ DOMAIN current = {}
    BY ModeAssumption, EmptyDomain DEF Init
  <2>2. now \in Stamps /\ starts = 0 /\ logs = 0
    BY DEF Init
  <2> QED
    BY <2>1, <2>2, BoundAssumption DEF CounterTypes
<1>2. CurrentTypes
  BY DEF Init, CurrentTypes
<1>3. DiskTypes /\ BeforeType
  BY DEF Init, DiskTypes, BeforeType
<1> QED
  BY <1>1, <1>2, <1>3 DEF Types

LEMMA TypesKept == Types /\ [Next]_vars => Types'
<1> SUFFICES ASSUME Types, [Next]_vars PROVE Types'
  OBVIOUS
<1>1. CASE FileSinkMade
  <2>1. CounterTypes'
    BY <1>1, BoundAssumption DEF FileSinkMade, Types, CounterTypes
  <2>2. RecordPairs \subseteq RecordPairs'
    BY <1>1 DEF FileSinkMade, Types, CounterTypes, RecordPairs
  <2>3. disk \in [DOMAIN disk -> Seq(RecordPairs')]
    BY <2>2, SeqMonotonic DEF Types, DiskTypes
  <2>4. CASE separate
    <3>1. UNCHANGED <<separate, current, disk>> /\ before' = StampsOnDisk
      BY <1>1, <2>4 DEF FileSinkMade
    <3>2. CurrentTypes' /\ DiskTypes'
      BY <2>3, <3>1 DEF Types, CurrentTypes, DiskTypes
    <3>3. BeforeType'
      BY <3>1 DEF BeforeType, StampsOnDisk
    <3> QED
      BY <2>1, <3>2, <3>3 DEF Types
  <2>5. CASE ~separate
    <3>1. PICK last \in LastIndices(Combined), ok \in BOOLEAN :
            /\ current' = [k \in {Combined} |-> File(Combined, AfterListing(last), ok)]
            /\ disk' = Opened(disk, File(Combined, AfterListing(last), ok))
      BY <1>1, <2>5 DEF FileSinkMade
    <3> DEFINE f == File(Combined, AfterListing(last), ok)
    <3>2. f \in OpenFiles /\ f.name[1] = Combined /\ f.name[3] = f.index
      BY LastIndicesType, FileType DEF Types, Keys
    <3> HIDE DEF f
    <3>3. disk' = Opened(disk, f) /\ current' = [k \in {Combined} |-> f]
      BY <3>1 DEF f
    <3>4. DOMAIN disk \subseteq FileNames
      BY DEF Types, DiskTypes
    <3>5. DiskTypes'
      BY <2>3, <3>2, <3>3, <3>4, OpenedType DEF DiskTypes
    <3>6. f.ok => f.name \in DOMAIN disk'
      BY <2>3, <3>2, <3>3, <3>4, OpenedType
    <3>7. CurrentTypes'
      BY <1>1, <2>5, <3>2, <3>3, <3>6 DEF CurrentTypes, FileSinkMade
    <3>8. DOMAIN disk \subseteq DOMAIN disk'
      BY <2>3, <3>2, <3>3, <3>4, OpenedType
    <3>9. BeforeType'
      BY <1>1, <3>8 DEF FileSinkMade, BeforeType, StampsOnDisk
    <3> QED
      BY <2>1, <3>5, <3>7, <3>9 DEF Types
  <2> QED
    BY <2>4, <2>5
<1>2. CASE Ended
  <2>1. BeforeType'
    BY <1>2 DEF Ended, BeforeType
  <2> QED
    BY <1>2, <2>1, EmptyDomain
      DEF Ended, Types, CounterTypes, CurrentTypes, DiskTypes, RecordPairs
<1>3. CASE Tick
  <2>1. BeforeType'
    BY <1>3 DEF Tick, Types, BeforeType, StampsOnDisk
  <2> QED
    BY <1>3, <2>1 DEF Tick, Types, CounterTypes, CurrentTypes, DiskTypes, RecordPairs
<1>4. ASSUME NEW c \in Channels, dump(c) PROVE Types'
  <2> DEFINE k == KeyOf(c)
  <2>1. PICK f, g \in OpenFiles, w \in BOOLEAN : DumpTo(c, f, g, w)
    BY <1>4, DumpEffect
  <2>2. /\ up /\ logs' = logs + 1 /\ logs' \in 0 .. MaxLogs
        /\ UNCHANGED <<separate, up, now, before, starts>>
    BY <1>4, DumpEffect
  <2> DEFINE e == Opened(disk, f)
             d == Opened(e, g)
             new == IF OverLimit(f) THEN f ELSE [g EXCEPT !.ok = w]
  <2>3. CounterTypes'
    BY <2>2 DEF Types, CounterTypes
  <2>4. RecordPairs \subseteq RecordPairs' /\ <<starts, logs + 1>> \in RecordPairs'
    BY <2>2 DEF Types, CounterTypes, RecordPairs
  <2>5. disk \in [DOMAIN disk -> Seq(RecordPairs')] /\ DOMAIN disk \subseteq FileNames
    BY <2>4, SeqMonotonic DEF Types, DiskTypes
  <2>6. /\ e \in [DOMAIN e -> Seq(RecordPairs')] /\ DOMAIN e \subseteq FileNames
        /\ DOMAIN disk \subseteq DOMAIN e /\ (f.ok => f.name \in DOMAIN e)
    BY <2>5, OpenedType
  <2> HIDE DEF e
  <2>7. /\ d \in [DOMAIN d -> Seq(RecordPairs')] /\ DOMAIN d \subseteq FileNames
        /\ DOMAIN e \subseteq DOMAIN d /\ (g.ok => g.name \in DOMAIN d)
    BY <2>6, OpenedType
  <2> HIDE DEF d
  <2>8. /\ disk' = IF w THEN [d EXCEPT ![g.name] = Append(@, <<starts, logs + 1>>)] ELSE d
        /\ w => g.ok
    BY <2>1 DEF DumpTo, d, e
  <2>9. DiskTypes' /\ DOMAIN disk' = DOMAIN d
    <3>1. CASE w
      <4>1. d[g.name] \in Seq(RecordPairs')
        BY <2>7, <2>8, <3>1
      <4>2. Append(d[g.name], <<starts, logs + 1>>) \in Seq(RecordPairs')
        BY <2>4, <4>1, AppendProperties
      <4> QED
        BY <2>7, <2>8, <3>1, <4>2 DEF DiskTypes
    <3>2. CASE ~w
      BY <2>7, <2>8, <3>2 DEF DiskTypes
    <3> QED
      BY <3>1, <3>2
  <2>10. /\ f.name[1] = k /\ f.name[3] = f.index /\ g.name[1] = k /\ g.name[3] = g.index
    BY <2>1 DEF DumpTo, Types, CurrentTypes
  <2>11. /\ new \in OpenFiles /\ new.name[1] = k /\ new.name[3] = new.index
         /\ new.ok => new.name \in DOMAIN d
    BY <2>6, <2>7, <2>8, <2>10 DEF OpenFiles
  <2>12. current' = [x \in DOMAIN current \cup {k} |-> IF x # k THEN current[x] ELSE new]
    BY <2>1 DEF DumpTo
  <2> HIDE DEF new
  <2>13. k \in (IF separate THEN Channels ELSE {Combined})
    BY KeyType
  <2> HIDE DEF k
  <2>14. CurrentTypes'
    BY <2>2, <2>6, <2>7, <2>9, <2>11, <2>12, <2>13 DEF Types, CurrentTypes
  <2>15. BeforeType'
    BY <2>2, <2>6, <2>7, <2>9 DEF Types, BeforeType, StampsOnDisk
  <2> QED
    BY <2>3, <2>9, <2>14, <2>15 DEF Types
<1>5. CASE UNCHANGED vars
  BY <1>5 DEF vars, Types, BeforeType, StampsOnDisk, CounterTypes, CurrentTypes, DiskTypes, RecordPairs
<1> QED
  BY <1>1, <1>2, <1>3, <1>4, <1>5 DEF Next

-----------------------------------------------------------------------------
(* What dump does to the directory and to the entry of its key.              *)

Content(n) == IF n \in DOMAIN disk THEN disk[n] ELSE <<>>

LEMMA DumpDisk ==
  ASSUME Types, NEW c \in Channels, NEW f \in OpenFiles, NEW g \in OpenFiles,
         NEW w \in BOOLEAN, DumpTo(c, f, g, w)
  PROVE  /\ DOMAIN disk \subseteq DOMAIN disk'
         /\ \A n \in DOMAIN disk' \ DOMAIN disk : (f.ok /\ n = f.name) \/ (g.ok /\ n = g.name)
         /\ w => g.name \in DOMAIN disk'
         /\ \A n \in DOMAIN disk' :
              disk'[n] = IF w /\ n = g.name THEN Append(Content(n), <<starts, logs + 1>>)
                                            ELSE Content(n)
<1> DEFINE e == Opened(disk, f)
           d == Opened(e, g)
<1>1. disk \in [DOMAIN disk -> Seq(RecordPairs)] /\ DOMAIN disk \subseteq FileNames
  BY DEF Types, DiskTypes
<1>2. /\ e \in [DOMAIN e -> Seq(RecordPairs)] /\ DOMAIN e \subseteq FileNames
      /\ f.ok => DOMAIN e = DOMAIN disk \cup {f.name}
      /\ ~f.ok => DOMAIN e = DOMAIN disk
      /\ \A n \in DOMAIN e : e[n] = IF n \in DOMAIN disk THEN disk[n] ELSE <<>>
  <2>1. e \in [DOMAIN e -> Seq(RecordPairs)] /\ DOMAIN e \subseteq FileNames
    BY <1>1, OpenedType
  <2>2. /\ f.ok => DOMAIN e = DOMAIN disk \cup {f.name}
        /\ ~f.ok => DOMAIN e = DOMAIN disk
    BY <1>1, OpenedType
  <2>3. \A n \in DOMAIN e : e[n] = IF n \in DOMAIN disk THEN disk[n] ELSE <<>>
    BY <1>1, OpenedType
  <2> QED
    BY <2>1, <2>2, <2>3
<1> HIDE DEF e
<1>3. /\ d \in [DOMAIN d -> Seq(RecordPairs)]
      /\ g.ok => DOMAIN d = DOMAIN e \cup {g.name}
      /\ ~g.ok => DOMAIN d = DOMAIN e
      /\ \A n \in DOMAIN d : d[n] = IF n \in DOMAIN e THEN e[n] ELSE <<>>
  <2>1. d \in [DOMAIN d -> Seq(RecordPairs)]
    BY <1>2, OpenedType
  <2>2. /\ g.ok => DOMAIN d = DOMAIN e \cup {g.name}
        /\ ~g.ok => DOMAIN d = DOMAIN e
    BY <1>2, OpenedType
  <2>3. \A n \in DOMAIN d : d[n] = IF n \in DOMAIN e THEN e[n] ELSE <<>>
    BY <1>2, OpenedType
  <2> QED
    BY <2>1, <2>2, <2>3
<1> HIDE DEF d
<1>4. /\ disk' = IF w THEN [d EXCEPT ![g.name] = Append(@, <<starts, logs + 1>>)] ELSE d
      /\ w => g.ok
  BY DEF DumpTo, d, e
<1>5. /\ DOMAIN disk' = DOMAIN d
      /\ \A n \in DOMAIN d : disk'[n] = IF w /\ n = g.name
                                        THEN Append(d[n], <<starts, logs + 1>>) ELSE d[n]
  BY <1>3, <1>4
<1>6. /\ DOMAIN disk \subseteq DOMAIN d /\ (g.ok => g.name \in DOMAIN d)
      /\ \A n \in DOMAIN d \ DOMAIN disk : (f.ok /\ n = f.name) \/ (g.ok /\ n = g.name)
  <2>1. CASE f.ok
    BY <1>2, <1>3, <2>1
  <2>2. CASE ~f.ok
    BY <1>2, <1>3, <2>2
  <2> QED
    BY <2>1, <2>2
<1>7. \A n \in DOMAIN d : d[n] = Content(n)
  <2>1. \A n \in DOMAIN e : e[n] = Content(n)
    BY <1>2 DEF Content
  <2>2. DOMAIN disk \subseteq DOMAIN e
    BY <1>2
  <2> QED
    BY <1>3, <2>1, <2>2 DEF Content
<1> QED
  BY <1>4, <1>5, <1>6, <1>7

LEMMA DumpCurrent ==
  ASSUME Types, NEW c \in Channels, NEW f \in OpenFiles, NEW g \in OpenFiles,
         NEW w \in BOOLEAN, DumpTo(c, f, g, w)
  PROVE  /\ DOMAIN current' = DOMAIN current \cup {KeyOf(c)}
         /\ \A k \in DOMAIN current \ {KeyOf(c)} : current'[k] = current[k]
         /\ current'[KeyOf(c)].name = g.name /\ current'[KeyOf(c)].index = g.index
         /\ OverLimit(f) => g = f /\ current'[KeyOf(c)] = f
         /\ ~OverLimit(f) => current'[KeyOf(c)].ok = w
         /\ f.name[1] = KeyOf(c) /\ f.name[3] = f.index
         /\ g.name[1] = KeyOf(c) /\ g.name[3] = g.index
         /\ f.name \in FileNames /\ g.name \in FileNames
<1> DEFINE k == KeyOf(c)
<1>1. OverLimit(f) => g = f
  BY DEF DumpTo
<1>2. current' = [x \in DOMAIN current \cup {k} |->
                    IF x # k THEN current[x] ELSE IF OverLimit(f) THEN f ELSE [g EXCEPT !.ok = w]]
  BY DEF DumpTo
<1>3. /\ f.name[1] = k /\ f.name[3] = f.index /\ g.name[1] = k /\ g.name[3] = g.index
  BY DEF DumpTo, Types, CurrentTypes
<1>4. [g EXCEPT !.ok = w].name = g.name /\ [g EXCEPT !.ok = w].index = g.index
      /\ [g EXCEPT !.ok = w].ok = w
  BY DEF OpenFiles
<1> HIDE DEF k
<1>5. /\ DOMAIN current' = DOMAIN current \cup {k}
      /\ \A x \in DOMAIN current \ {k} : current'[x] = current[x]
      /\ OverLimit(f) => current'[k] = f
      /\ ~OverLimit(f) => current'[k] = [g EXCEPT !.ok = w]
  BY <1>2
<1>6. f.name \in FileNames /\ g.name \in FileNames
  BY DEF OpenFiles
<1> QED
  BY <1>1, <1>3, <1>4, <1>5, <1>6 DEF k

-----------------------------------------------------------------------------
(* Fresh names.                                                              *)

Fresh ==
    /\ up => \A n \in DOMAIN disk :
         n[2] \notin before => n[1] \in DOMAIN current /\ n[3] <= current[n[1]].index
    /\ up => Stamp \notin before
    /\ \A k \in DOMAIN current : current[k].name[2] \notin before

(* A life of the sink begins without a file it could come to open.           *)
LEMMA StartIsFresh ==
  ASSUME Apart, Types, FileSinkMade
  PROVE  /\ before' = StampsOnDisk /\ Stamp \notin before' /\ Stamp' = Stamp
         /\ \A n \in DOMAIN disk : n[2] \in before'
         /\ \A k : LastIndices(k) = {0} /\ AfterListing(0) = 0
<1>1. before' = StampsOnDisk /\ Stamp \notin StampsOnDisk /\ Stamp' = Stamp
  BY DEF FileSinkMade, Stamp
<1>2. \A k : Indices(k) = {}
  BY <1>1 DEF Indices, StampsOnDisk
<1> QED
  BY <1>1, <1>2 DEF LastIndices, AfterListing, StampsOnDisk

(* A file that dump opens for a key without an entry, or after a rotation,   *)
(* does not exist yet.                                                       *)
LEMMA DumpIsFresh ==
  ASSUME Types, Fresh, up, NEW c \in Channels, NEW f \in OpenFiles, NEW g \in OpenFiles,
         NEW w \in BOOLEAN, DumpTo(c, f, g, w)
  PROVE  /\ KeyOf(c) \notin DOMAIN current => f.name \notin DOMAIN disk
         /\ g # f => g.name \notin DOMAIN disk /\ g.name # f.name
<1> DEFINE k == KeyOf(c)
<1>1. ASSUME k \notin DOMAIN current PROVE \A n \in DOMAIN disk : n[1] = k => n[2] # Stamp
  BY <1>1 DEF Fresh
<1>2. k \notin DOMAIN current => f.name \notin DOMAIN disk
  BY <1>1 DEF DumpTo
<1>3. ASSUME g # f PROVE g.name \notin DOMAIN disk /\ g.name # f.name
  <2>1. /\ g.name[1] = k /\ g.name[2] = Stamp /\ g.name[3] = f.index + 1
        /\ f.name[3] = f.index /\ f.index \in Nat
    BY <1>3 DEF DumpTo, Types, CurrentTypes, OpenFiles
  <2>2. CASE k \notin DOMAIN current
    BY <1>1, <2>1, <2>2
  <2>3. CASE k \in DOMAIN current
    <3>1. f = current[k]
      BY <2>3 DEF DumpTo
    <3>2. g.name \in DOMAIN disk => g.name[3] <= f.index
      BY <2>1, <3>1 DEF Fresh
    <3> QED
      BY <2>1, <3>2
  <2> QED
    BY <2>2, <2>3
<1> QED
  BY <1>2, <1>3

LEMMA FreshKept ==
  ASSUME Apart, Types, Fresh, [Next]_vars
  PROVE  Fresh'
<1>1. CASE FileSinkMade
  <2>1. /\ before' = StampsOnDisk /\ Stamp \notin before' /\ Stamp' = Stamp
        /\ \A n \in DOMAIN disk : n[2] \in before'
    BY <1>1, StartIsFresh
  <2>2. CASE separate
    <3>1. UNCHANGED <<current, disk>> /\ DOMAIN current = {}
      BY <1>1, <2>2 DEF FileSinkMade, Types, CounterTypes
    <3> QED
      BY <2>1, <3>1 DEF Fresh
  <2>3. CASE ~separate
    <3>1. PICK ok \in BOOLEAN : /\ current' = [k \in {Combined} |-> File(Combined, 0, ok)]
                                /\ disk' = Opened(disk, File(Combined, 0, ok))
      BY <1>1, <2>3, StartIsFresh DEF FileSinkMade
    <3> DEFINE f == File(Combined, 0, ok)
    <3>2. /\ f.name[1] = Combined /\ f.name[2] = Stamp /\ f.name[3] = 0 /\ f.index = 0
      BY FileType DEF Types, Keys
    <3> HIDE DEF f
    <3>3. DOMAIN disk' \subseteq DOMAIN disk \cup {f.name}
      BY <3>1 DEF Opened, f
    <3>4. DOMAIN current' = {Combined} /\ current'[Combined] = f
      BY <3>1 DEF f
    <3> QED
      BY <2>1, <3>2, <3>3, <3>4 DEF Fresh
  <2> QED
    BY <2>2, <2>3
<1>2. CASE Ended
  <2>1. DOMAIN current' = {} /\ ~up'
    BY <1>2, EmptyDomain DEF Ended
  <2> QED
    BY <2>1 DEF Fresh
<1>3. CASE Tick
  BY <1>3 DEF Tick, Fresh
<1>4. ASSUME NEW c \in Channels, dump(c) PROVE Fresh'
  <2> DEFINE k == KeyOf(c)
  <2>1. PICK f, g \in OpenFiles, w \in BOOLEAN : DumpTo(c, f, g, w)
    BY <1>4, DumpEffect
  <2>2. up /\ UNCHANGED <<up, before>> /\ Stamp' = Stamp
    BY <1>4, DumpEffect DEF Stamp
  <2>3. /\ DOMAIN disk \subseteq DOMAIN disk'
        /\ \A n \in DOMAIN disk' \ DOMAIN disk : (f.ok /\ n = f.name) \/ (g.ok /\ n = g.name)
    BY <2>1, DumpDisk
  <2>4. /\ DOMAIN current' = DOMAIN current \cup {k}
        /\ \A x \in DOMAIN current \ {k} : current'[x] = current[x]
        /\ current'[k].name = g.name /\ current'[k].index = g.index
        /\ f.name[1] = k /\ f.name[3] = f.index /\ g.name[1] = k /\ g.name[3] = g.index
    BY <2>1, DumpCurrent
  <2>5. g # f => g.name[2] = Stamp /\ g.index = f.index + 1
    BY <2>1 DEF DumpTo
  <2>6. IF k \in DOMAIN current THEN f = current[k] ELSE f.name[2] = Stamp
    BY <2>1 DEF DumpTo
  <2>7. f.index \in Nat /\ g.index \in Nat /\ f.index <= g.index
    BY <2>5 DEF OpenFiles
  <2>8. \A n \in DOMAIN disk : n[3] \in Nat
    BY DEF Types, DiskTypes, FileNames
  <2> HIDE DEF k
  <2>9. g.name[2] \notin before
    BY <2>2, <2>5, <2>6 DEF Fresh
  <2>10. \A n \in DOMAIN disk' : n[2] \notin before =>
           n[1] \in DOMAIN current' /\ n[3] <= current'[n[1]].index
    <3>1. SUFFICES ASSUME NEW n \in DOMAIN disk', n[2] \notin before
                   PROVE  n[1] \in DOMAIN current' /\ n[3] <= current'[n[1]].index
      OBVIOUS
    <3>2. CASE n \in DOMAIN disk
      <4>1. n[1] \in DOMAIN current /\ n[3] <= current[n[1]].index /\ n[3] \in Nat
        BY <2>2, <2>8, <3>1, <3>2 DEF Fresh
      <4>2. CASE n[1] = k
        <5>1. n[3] <= f.index
          BY <2>6, <4>1, <4>2
        <5> QED
          BY <2>4, <2>7, <4>1, <4>2, <5>1
      <4>3. CASE n[1] # k
        BY <2>4, <4>1, <4>3
      <4> QED
        BY <4>2, <4>3
    <3>3. CASE n = f.name \/ n = g.name
      BY <2>4, <2>7, <3>3
    <3> QED
      BY <2>3, <3>2, <3>3
  <2>11. \A x \in DOMAIN current' : current'[x].name[2] \notin before
    BY <2>4, <2>9 DEF Fresh
  <2> QED
    BY <2>2, <2>10, <2>11 DEF Fresh
<1>5. CASE UNCHANGED vars
  BY <1>5 DEF vars, Fresh, Stamp
<1> QED
  BY <1>1, <1>2, <1>3, <1>4, <1>5 DEF Next

-----------------------------------------------------------------------------
(* Size and number.                                                          *)

IndexBound == MaxFiles # NoLimit => \A k \in DOMAIN current : current[k].index <= MaxFiles + 1

Bounds == SizeBound /\ LastFileGetsOneLog /\ IndexBound

LEMMA Limits == MaxFiles # NoLimit => MaxFiles \in Nat
  BY LimitAssumption

(* Rotating comes after the comparison with the limit and before the record. *)
LEMMA DumpBounds ==
  ASSUME Types, Fresh, Bounds, up, NEW c \in Channels, NEW f \in OpenFiles,
         NEW g \in OpenFiles, NEW w \in BOOLEAN, DumpTo(c, f, g, w)
  PROVE  Bounds'
<1> DEFINE k == KeyOf(c)
           new == <<starts, logs + 1>>
<1>1. /\ \A n \in DOMAIN disk' \ DOMAIN disk : (f.ok /\ n = f.name) \/ (g.ok /\ n = g.name)
      /\ \A n \in DOMAIN disk' : disk'[n] = IF w /\ n = g.name THEN Append(Content(n), new)
                                                              ELSE Content(n)
  BY DumpDisk
<1>2. /\ DOMAIN current' = DOMAIN current \cup {k}
      /\ \A x \in DOMAIN current \ {k} : current'[x] = current[x]
      /\ current'[k].index = g.index
      /\ f.name[3] = f.index /\ g.name[3] = g.index
  <2>1. f.name[3] = f.index /\ g.name[3] = g.index
    BY DumpCurrent
  <2>2. DOMAIN current' = DOMAIN current \cup {k} /\ current'[k].index = g.index
    BY DumpCurrent
  <2>3. \A x \in DOMAIN current \ {k} : current'[x] = current[x]
    BY DumpCurrent
  <2> QED
    BY <2>1, <2>2, <2>3
<1>3. /\ f.index \in Nat /\ g.index \in Nat
      /\ g # f => g.index = f.index + 1 /\ ~OverLimit(f)
      /\ w => g.ok /\ ~OverLimit(f)
  BY DEF DumpTo, OpenFiles
<1>4. \A n : Content(n) \in Seq(Nat \X Nat)
  <2>1. RecordPairs \subseteq Nat \X Nat
    BY DEF RecordPairs, Types, CounterTypes
  <2>2. \A n \in DOMAIN disk : disk[n] \in Seq(Nat \X Nat)
    BY <2>1, SeqMonotonic DEF Types, DiskTypes
  <2> QED
    BY <2>2, EmptySeq DEF Content
<1>5. \A n : /\ Len(Content(n)) \in Nat
             /\ Len(Append(Content(n), new)) = Len(Content(n)) + 1
  <2>1. new \in Nat \X Nat
    BY DEF Types, CounterTypes
  <2> QED
    BY <1>4, <2>1, AppendProperties, LenProperties
<1> HIDE DEF k, new
<1>6. \A n : Len(Content(n)) <= SizePerFile + 1
  BY SizeAssumption DEF Bounds, SizeBound, Content
<1>7. g = f /\ w => Len(Content(g.name)) <= SizePerFile
  <2>1. SUFFICES ASSUME g = f, w PROVE Len(Content(f.name)) <= SizePerFile
    OBVIOUS
  <2>2. f.ok /\ ~OverLimit(f)
    BY <1>3, <2>1
  <2>3. disk \in [DOMAIN disk -> Seq(RecordPairs)] /\ DOMAIN disk \subseteq FileNames
    BY DEF Types, DiskTypes
  <2>4. Opened(disk, f)[f.name] = Content(f.name)
    BY <2>2, <2>3, OpenedType DEF Content
  <2> QED
    BY <2>1, <2>2, <2>4 DEF DumpTo
<1>8. g # f => Len(Content(g.name)) = 0
  <2>1. g # f => g.name \notin DOMAIN disk
    BY DumpIsFresh
  <2> QED
    BY <2>1 DEF Content
<1>9. SizeBound'
  <2>1. ASSUME w PROVE Len(Content(g.name)) + 1 <= SizePerFile + 1
    BY <1>5, <1>7, <1>8, <2>1, SizeAssumption
  <2> QED
    BY <1>1, <1>5, <1>6, <2>1 DEF SizeBound
<1>10. MaxFiles # NoLimit => f.index <= MaxFiles + 1 /\ g.index <= MaxFiles + 1
  <2>1. MaxFiles # NoLimit => f.index <= MaxFiles + 1
    BY Limits DEF DumpTo, Bounds, IndexBound
  <2>2. MaxFiles # NoLimit /\ ~OverLimit(f) => f.index <= MaxFiles
    BY <1>3, Limits DEF OverLimit
  <2> QED
    BY <1>3, <2>1, <2>2, Limits
<1>11. IndexBound'
  BY <1>2, <1>10 DEF Bounds, IndexBound
<1>12. LastFileGetsOneLog'
  <2>1. SUFFICES ASSUME MaxFiles # NoLimit, NEW n \in DOMAIN disk'
                 PROVE  /\ n[3] <= MaxFiles + 1
                        /\ n[3] = MaxFiles + 1 => Len(disk'[n]) <= 1
    BY DEF LastFileGetsOneLog
  <2>2. n[3] <= MaxFiles + 1
    BY <1>1, <1>2, <1>10, <2>1 DEF Bounds, LastFileGetsOneLog
  <2>3. n[3] = MaxFiles + 1 => Len(Content(n)) <= 1
    BY <2>1 DEF Bounds, LastFileGetsOneLog, Content
  <2>4. ASSUME w, n = g.name, n[3] = MaxFiles + 1 PROVE g # f
    BY <1>2, <1>3, <2>1, <2>4, Limits DEF OverLimit
  <2>5. ASSUME w, n = g.name, n[3] = MaxFiles + 1 PROVE Len(disk'[n]) <= 1
    BY <1>1, <1>5, <1>8, <2>4, <2>5
  <2> QED
    BY <1>1, <2>2, <2>3, <2>5
<1> QED
  BY <1>9, <1>11, <1>12 DEF Bounds

LEMMA BoundsKept ==
  ASSUME Apart, Types, Fresh, Bounds, [Next]_vars
  PROVE  Bounds'
<1>1. CASE FileSinkMade
  <2>1. CASE separate
    BY <1>1, <2>1 DEF FileSinkMade, Bounds, SizeBound, LastFileGetsOneLog, IndexBound
  <2>2. CASE ~separate
    <3>1. PICK ok \in BOOLEAN : /\ current' = [k \in {Combined} |-> File(Combined, 0, ok)]
                                /\ disk' = Opened(disk, File(Combined, 0, ok))
      BY <1>1, <2>2, StartIsFresh DEF FileSinkMade
    <3> DEFINE f == File(Combined, 0, ok)
    <3>2. f \in OpenFiles /\ f.name[3] = 0 /\ f.index = 0
      BY FileType DEF Types, Keys
    <3> HIDE DEF f
    <3>3. current' = [k \in {Combined} |-> f] /\ disk' = Opened(disk, f)
      BY <3>1 DEF f
    <3>4. \A n \in DOMAIN disk' : \/ n \in DOMAIN disk /\ disk'[n] = disk[n]
                                  \/ n = f.name /\ disk'[n] = <<>>
      BY <3>3 DEF Opened
    <3>5. Len(<<>>) = 0
      BY EmptySeq
    <3>6. SizeBound'
      BY <3>4, <3>5, SizeAssumption DEF Bounds, SizeBound
    <3>7. LastFileGetsOneLog'
      BY <3>2, <3>4, <3>5, Limits DEF Bounds, LastFileGetsOneLog
    <3>8. IndexBound'
      BY <3>2, <3>3, Limits DEF IndexBound
    <3> QED
      BY <3>6, <3>7, <3>8 DEF Bounds
  <2> QED
    BY <2>1, <2>2
<1>2. CASE Ended
  BY <1>2, EmptyDomain DEF Ended, Bounds, SizeBound, LastFileGetsOneLog, IndexBound
<1>3. CASE UNCHANGED <<current, disk>>
  BY <1>3 DEF Bounds, SizeBound, LastFileGetsOneLog, IndexBound
<1>4. ASSUME NEW c \in Channels, dump(c) PROVE Bounds'
  <2>1. PICK f, g \in OpenFiles, w \in BOOLEAN : DumpTo(c, f, g, w)
    BY <1>4, DumpEffect
  <2> QED
    BY <1>4, <2>1, DumpBounds DEF dump
<1> QED
  BY <1>1, <1>2, <1>3, <1>4 DEF Next, Tick, vars

-----------------------------------------------------------------------------
(* RecordLog.                                                                *)

IsCell(n, i) == n \in DOMAIN disk /\ i \in DOMAIN disk[n]

LEMMA RecordOfCell ==
  ASSUME NEW k, NEW r
  PROVE  r \in RecordsOf(k) <=> \E n, i : IsCell(n, i) /\ n[1] = k /\ disk[n][i] = r
  BY DEF RecordsOf, FilesOf, IsCell

(* The records do not change when no cell does.                              *)
LEMMA SameCells ==
  ASSUME \A n, i : IsCell(n, i) <=> IsCell(n, i)',
         \A n, i : IsCell(n, i) => disk'[n][i] = disk[n][i]
  PROVE  \A k : RecordsOf(k)' = RecordsOf(k)
<1> TAKE k
<1>1. \A r : r \in RecordsOf(k)' <=> \E n, i : IsCell(n, i)' /\ n[1] = k /\ disk'[n][i] = r
  BY DEF RecordsOf, FilesOf, IsCell
<1> QED
  BY <1>1, RecordOfCell

(* The number of the log in a cell.                                          *)
Num(n, i) == disk[n][i][2]

LEMMA CellTypes ==
  ASSUME Types, NEW n, NEW i, IsCell(n, i)
  PROVE  /\ i \in Nat /\ Len(disk[n]) \in Nat /\ IsCell(n, Len(disk[n])) /\ i <= Len(disk[n])
         /\ disk[n][i] \in RecordPairs /\ Num(n, i) \in Nat /\ Num(n, i) <= logs
<1>1. disk[n] \in Seq(RecordPairs) /\ i \in DOMAIN disk[n]
  BY DEF IsCell, Types, DiskTypes
<1>2. Len(disk[n]) \in Nat /\ DOMAIN disk[n] = 1 .. Len(disk[n])
  BY <1>1, LenProperties
<1>3. disk[n][i] \in RecordPairs
  BY <1>1, <1>2, ElementOfSeq
<1>4. Num(n, i) \in 1 .. logs /\ logs \in Nat
  BY <1>3 DEF Num, RecordPairs, Types, CounterTypes
<1> QED
  BY <1>1, <1>2, <1>3, <1>4 DEF IsCell

(* All logs of m were dumped before those of n.                              *)
Precedes(m, n) == \A i, j : IsCell(m, i) /\ IsCell(n, j) => Num(m, i) < Num(n, j)

Ordered ==
    /\ \A n, i, j : IsCell(n, i) /\ IsCell(n, j) /\ i < j => Num(n, i) < Num(n, j)
    /\ \A m, n : m # n /\ m[1] = n[1] => Precedes(m, n) \/ Precedes(n, m)
    /\ \A k \in DOMAIN current : \A n :
         n[1] = k /\ n # current[k].name => Precedes(n, current[k].name)

(* Then the order in which the logs of a key are read is the one in which    *)
(* they were dumped.                                                         *)
InNumbers == \A k : OrderOf(k) = {p \in RecordsOf(k) \X RecordsOf(k) : p[1][2] < p[2][2]}

LEMMA ReadInNumbers ==
  ASSUME Types, Ordered, NEW m, NEW i, NEW n, NEW j, IsCell(m, i), IsCell(n, j), m[1] = n[1]
  PROVE  ReadBefore(m, i, n, j) <=> Num(m, i) < Num(n, j)
<1>1. /\ i \in Nat /\ j \in Nat /\ Num(m, i) \in Nat /\ Num(n, j) \in Nat
      /\ IsCell(m, Len(disk[m])) /\ IsCell(n, Len(disk[n]))
  BY CellTypes
<1>2. CASE m = n
  <2>1. /\ i < j => Num(m, i) < Num(n, j)
        /\ j < i => Num(n, j) < Num(m, i)
    BY <1>2 DEF Ordered
  <2>2. i = j => Num(m, i) = Num(n, j)
    BY <1>2
  <2> QED
    BY <1>1, <1>2, <2>1, <2>2 DEF ReadBefore
<1>3. CASE m # n
  <2>1. /\ LastLog(m) = Num(m, Len(disk[m])) /\ LastLog(n) = Num(n, Len(disk[n]))
        /\ LastLog(m) \in Nat /\ LastLog(n) \in Nat
    BY <1>1, CellTypes DEF LastLog, Num
  <2>2. CASE Precedes(m, n)
    BY <1>1, <1>3, <2>1, <2>2 DEF Precedes, ReadBefore, Older
  <2>3. CASE Precedes(n, m)
    BY <1>1, <1>3, <2>1, <2>3 DEF Precedes, ReadBefore, Older
  <2> QED
    BY <1>3, <2>2, <2>3 DEF Ordered
<1> QED
  BY <1>2, <1>3

LEMMA OrderInNumbers == Types /\ Ordered => InNumbers
<1> SUFFICES ASSUME Types, Ordered, NEW k
             PROVE  OrderOf(k) = {p \in RecordsOf(k) \X RecordsOf(k) : p[1][2] < p[2][2]}
  BY DEF InNumbers
<1>1. ASSUME NEW p \in OrderOf(k) PROVE p[1][2] < p[2][2]
  <2>1. PICK m, n, i, j : /\ IsCell(m, i) /\ m[1] = k /\ disk[m][i] = p[1]
                          /\ IsCell(n, j) /\ n[1] = k /\ disk[n][j] = p[2]
                          /\ ReadBefore(m, i, n, j)
    BY <1>1 DEF OrderOf, FilesOf, IsCell
  <2> QED
    BY <2>1, ReadInNumbers DEF Num
<1>2. ASSUME NEW p \in RecordsOf(k) \X RecordsOf(k), p[1][2] < p[2][2] PROVE p \in OrderOf(k)
  <2>1. PICK m, i : IsCell(m, i) /\ m[1] = k /\ disk[m][i] = p[1]
    BY <1>2, RecordOfCell
  <2>2. PICK n, j : IsCell(n, j) /\ n[1] = k /\ disk[n][j] = p[2]
    BY <1>2, RecordOfCell
  <2>3. ReadBefore(m, i, n, j)
    BY <1>2, <2>1, <2>2, ReadInNumbers DEF Num
  <2> QED
    BY <1>2, <2>1, <2>2, <2>3 DEF OrderOf, FilesOf, IsCell
<1>3. OrderOf(k) \subseteq RecordsOf(k) \X RecordsOf(k)
  BY DEF OrderOf
<1> QED
  BY <1>1, <1>2, <1>3

(* dump adds one cell, to the file it writes to, or none.                    *)
Added(f, g, w, n, i) == w /\ n = g.name /\ i = Len(Content(n)) + 1

LEMMA DumpCells ==
  ASSUME Types, NEW c \in Channels, NEW f \in OpenFiles, NEW g \in OpenFiles,
         NEW w \in BOOLEAN, DumpTo(c, f, g, w)
  PROVE  /\ \A n, i : IsCell(n, i)' <=> IsCell(n, i) \/ Added(f, g, w, n, i)
         /\ \A n, i : IsCell(n, i) => disk'[n][i] = disk[n][i] /\ ~Added(f, g, w, n, i)
         /\ \A n, i : Added(f, g, w, n, i) => disk'[n][i] = <<starts, logs + 1>>
<1> DEFINE new == <<starts, logs + 1>>
<1>1. /\ DOMAIN disk \subseteq DOMAIN disk'
      /\ w => g.name \in DOMAIN disk'
      /\ \A n \in DOMAIN disk' : disk'[n] = IF w /\ n = g.name THEN Append(Content(n), new)
                                                              ELSE Content(n)
  BY DumpDisk
<1>2. \A n : Content(n) \in Seq(Nat \X Nat)
  <2>1. RecordPairs \subseteq Nat \X Nat
    BY DEF RecordPairs, Types, CounterTypes
  <2>2. \A n \in DOMAIN disk : disk[n] \in Seq(Nat \X Nat)
    BY <2>1, SeqMonotonic DEF Types, DiskTypes
  <2> QED
    BY <2>2, EmptySeq DEF Content
<1>3. new \in Nat \X Nat
  BY DEF Types, CounterTypes
<1> HIDE DEF new
<1>4. \A n : LET a == Append(Content(n), new)
                 l == Len(Content(n))
             IN  /\ l \in Nat /\ DOMAIN Content(n) = 1 .. l /\ DOMAIN a = 1 .. l + 1
                 /\ \A i \in 1 .. l : a[i] = Content(n)[i]
                 /\ a[l + 1] = new
  BY <1>2, <1>3, AppendProperties, LenProperties
<1>5. \A n, i : IsCell(n, i) <=> i \in DOMAIN Content(n)
  <2>1. DOMAIN <<>> = {}
    BY EmptyDomain
  <2> QED
    BY <2>1 DEF IsCell, Content
<1>6. \A n, i : IsCell(n, i) => disk[n][i] = Content(n)[i] /\ ~Added(f, g, w, n, i)
  BY <1>4, <1>5 DEF IsCell, Content, Added
<1>7. \A n, i : IsCell(n, i)' <=> IsCell(n, i) \/ Added(f, g, w, n, i)
  <2>1. TAKE n, i
  <2>2. CASE n \notin DOMAIN disk'
    BY <1>1, <2>2 DEF IsCell, Added
  <2>3. CASE n \in DOMAIN disk' /\ w /\ n = g.name
    <3>1. disk'[n] = Append(Content(n), new)
      BY <1>1, <2>3
    <3>2. i \in DOMAIN disk'[n] <=> i \in DOMAIN Content(n) \/ i = Len(Content(n)) + 1
      BY <1>4, <3>1
    <3> QED
      BY <1>5, <2>3, <3>2 DEF IsCell, Added
  <2>4. CASE n \in DOMAIN disk' /\ ~(w /\ n = g.name)
    <3>1. disk'[n] = Content(n)
      BY <1>1, <2>4
    <3> QED
      BY <1>5, <2>4, <3>1 DEF IsCell, Added
  <2> QED
    BY <2>2, <2>3, <2>4
<1>8. \A n, i : IsCell(n, i)' => disk'[n][i] = IF Added(f, g, w, n, i) THEN new ELSE Content(n)[i]
  <2>1. SUFFICES ASSUME NEW n, NEW i, IsCell(n, i)'
                 PROVE  disk'[n][i] = IF Added(f, g, w, n, i) THEN new ELSE Content(n)[i]
    OBVIOUS
  <2>2. n \in DOMAIN disk' /\ (i \in DOMAIN Content(n) \/ Added(f, g, w, n, i))
    BY <1>5, <1>7, <2>1 DEF IsCell
  <2>3. CASE w /\ n = g.name
    <3>1. disk'[n] = Append(Content(n), new)
      BY <1>1, <2>2, <2>3
    <3> QED
      BY <1>4, <2>2, <2>3, <3>1 DEF Added
  <2>4. CASE ~(w /\ n = g.name)
    BY <1>1, <2>2, <2>4 DEF Added
  <2> QED
    BY <2>3, <2>4
<1> QED
  BY <1>6, <1>7, <1>8 DEF new

(* The number of the log that is added is greater than all others.  The file *)
(* it goes to is the last of its key already, or has no log.                 *)
LEMMA DumpOrdered ==
  ASSUME Types, Types', Fresh, Ordered, up, UNCHANGED starts, logs' = logs + 1,
         NEW c \in Channels, NEW f \in OpenFiles, NEW g \in OpenFiles,
         NEW w \in BOOLEAN, DumpTo(c, f, g, w)
  PROVE  Ordered'
<1> DEFINE k == KeyOf(c)
           A(n, i) == Added(f, g, w, n, i)
<1>1. /\ \A n, i : IsCell(n, i)' <=> IsCell(n, i) \/ A(n, i)
      /\ \A n, i : IsCell(n, i) => disk'[n][i] = disk[n][i] /\ ~A(n, i)
      /\ \A n, i : A(n, i) => disk'[n][i] = <<starts, logs + 1>>
  BY DumpCells
<1>2. \A n, i : A(n, i) => n = g.name /\ i \in Nat /\ \A j : IsCell(n, j) => j < i
  <2>1. SUFFICES ASSUME NEW n, NEW i, A(n, i)
                 PROVE  n = g.name /\ i \in Nat /\ \A j : IsCell(n, j) => j < i
    OBVIOUS
  <2>2. n = g.name /\ i = Len(Content(n)) + 1
    BY <2>1 DEF Added
  <2>3. \A j : IsCell(n, j) => j \in Nat /\ j <= Len(disk[n])
    BY CellTypes
  <2>4. Len(Content(n)) \in Nat
    <3>1. n \in DOMAIN disk => disk[n] \in Seq(RecordPairs)
      BY DEF Types, DiskTypes
    <3> QED
      BY <3>1, LenProperties, EmptySeq DEF Content
  <2> QED
    BY <2>2, <2>3, <2>4 DEF Content, IsCell
<1>3. /\ DOMAIN current' = DOMAIN current \cup {k}
      /\ \A x \in DOMAIN current \ {k} : current'[x] = current[x]
      /\ current'[k].name = g.name /\ g.name[1] = k
      /\ k \in DOMAIN current => f = current[k]
  <2>1. k \in DOMAIN current => f = current[k]
    BY DEF DumpTo
  <2> QED
    BY <2>1, DumpCurrent
<1>4. \A n, i : IsCell(n, i) => Num(n, i)' = Num(n, i) /\ Num(n, i) \in Nat /\ Num(n, i) <= logs
  BY <1>1, CellTypes DEF Num
<1>5. \A n, i : A(n, i) => Num(n, i)' = logs + 1
  BY <1>1 DEF Num
<1>6. logs \in Nat
  BY DEF Types, CounterTypes
<1>7. \A n : n[1] = k /\ n # g.name => Precedes(n, g.name)
  <2>1. ASSUME NEW j, IsCell(g.name, j) PROVE k \in DOMAIN current /\ g = current[k]
    BY <1>3, <2>1, DumpIsFresh DEF IsCell
  <2> QED
    BY <2>1 DEF Ordered, Precedes
<1> HIDE DEF k, A
<1>8. \A m, n : m # g.name /\ Precedes(m, n) => Precedes(m, n)'
  <2>1. SUFFICES ASSUME NEW m, NEW n, m # g.name, Precedes(m, n), NEW i, NEW j,
                        IsCell(m, i)', IsCell(n, j)'
                 PROVE  Num(m, i)' < Num(n, j)'
    BY DEF Precedes
  <2>2. IsCell(m, i) /\ (IsCell(n, j) \/ A(n, j))
    BY <1>1, <1>2, <2>1
  <2> QED
    BY <1>4, <1>5, <1>6, <2>1, <2>2 DEF Precedes
<1>9. \A n, i, j : IsCell(n, i)' /\ IsCell(n, j)' /\ i < j => Num(n, i)' < Num(n, j)'
  <2>1. SUFFICES ASSUME NEW n, NEW i, NEW j, IsCell(n, i)', IsCell(n, j)', i < j
                 PROVE  Num(n, i)' < Num(n, j)'
    OBVIOUS
  <2>2. CASE IsCell(n, i) /\ IsCell(n, j)
    BY <1>4, <2>1, <2>2 DEF Ordered
  <2>3. CASE IsCell(n, i) /\ A(n, j)
    BY <1>4, <1>5, <1>6, <2>3
  <2>4. CASE A(n, i)
    <3>1. i \in Nat /\ (A(n, j) => j = i)
      BY <1>2, <2>4 DEF A, Added
    <3>2. IsCell(n, j) => j \in Nat /\ j < i
      BY <1>2, <2>4, CellTypes
    <3> QED
      BY <1>1, <2>1, <3>1, <3>2
  <2> QED
    BY <1>1, <2>1, <2>2, <2>3, <2>4
<1>10. \A m, n : m # n /\ m[1] = n[1] => Precedes(m, n)' \/ Precedes(n, m)'
  <2>1. SUFFICES ASSUME NEW m, NEW n, m # n, m[1] = n[1]
                 PROVE  Precedes(m, n)' \/ Precedes(n, m)'
    OBVIOUS
  <2>2. CASE m # g.name /\ n # g.name
    BY <1>8, <2>1, <2>2 DEF Ordered
  <2>3. CASE m = g.name \/ n = g.name
    BY <1>3, <1>7, <1>8, <2>1, <2>3
  <2> QED
    BY <2>2, <2>3
<1>11. \A x \in DOMAIN current' : \A m, n :
         n[1] = x /\ m = current'[x].name /\ n # m => Precedes(n, m)'
  <2>1. SUFFICES ASSUME NEW x \in DOMAIN current', NEW m, NEW n,
                        n[1] = x, m = current'[x].name, n # m
                 PROVE  Precedes(n, m)'
    OBVIOUS
  <2>2. CASE x = k
    BY <1>3, <1>7, <1>8, <2>1, <2>2
  <2>3. CASE x # k
    <3>1. x \in DOMAIN current /\ m = current[x].name
      BY <1>3, <2>1, <2>3
    <3>2. Precedes(n, m)
      BY <2>1, <3>1 DEF Ordered
    <3>3. ASSUME n = g.name PROVE FALSE
      BY <1>3, <2>1, <2>3, <3>3
    <3> QED
      BY <1>8, <3>2, <3>3
  <2> QED
    BY <2>2, <2>3
<1> QED
  BY <1>9, <1>10, <1>11 DEF Ordered, Precedes

LEMMA OrderedKept ==
  ASSUME Apart, Types, Types', Fresh, Ordered, [Next]_vars
  PROVE  Ordered'
<1>1. CASE FileSinkMade
  <2>1. CASE separate
    <3>1. UNCHANGED <<current, disk>>
      BY <1>1, <2>1 DEF FileSinkMade
    <3> QED
      BY <3>1 DEF Ordered, Precedes, IsCell, Num
  <2>2. CASE ~separate
    <3>1. PICK ok \in BOOLEAN : /\ current' = [k \in {Combined} |-> File(Combined, 0, ok)]
                                /\ disk' = Opened(disk, File(Combined, 0, ok))
      BY <1>1, <2>2, StartIsFresh DEF FileSinkMade
    <3> DEFINE f == File(Combined, 0, ok)
    <3>2. f.name[2] = Stamp /\ Stamp \notin StampsOnDisk
      BY <1>1, FileType DEF FileSinkMade, Types, Keys
    <3>3. f.name \notin DOMAIN disk
      BY <3>2 DEF StampsOnDisk
    <3> HIDE DEF f
    <3>4. /\ DOMAIN disk \subseteq DOMAIN disk'
          /\ \A n \in DOMAIN disk' : disk'[n] = IF n \in DOMAIN disk THEN disk[n] ELSE <<>>
      BY <3>1 DEF Opened, f
    <3>5. /\ \A n, i : IsCell(n, i)' <=> IsCell(n, i)
          /\ \A n, i : IsCell(n, i) => Num(n, i)' = Num(n, i)
      BY <3>4, EmptyDomain DEF IsCell, Num
    <3>6. \A m, n : Precedes(m, n)' <=> Precedes(m, n)
      BY <3>5 DEF Precedes
    <3>7. \A n : Precedes(n, f.name)
      BY <3>3 DEF Precedes, IsCell
    <3>8. DOMAIN current' = {Combined} /\ current'[Combined] = f
      BY <3>1 DEF f
    <3>9. \A x \in DOMAIN current' : \A m, n : m = current'[x].name => Precedes(n, m)'
      BY <3>6, <3>7, <3>8
    <3> QED
      BY <3>5, <3>6, <3>9 DEF Ordered, Precedes
  <2> QED
    BY <2>1, <2>2
<1>2. CASE Ended
  BY <1>2, EmptyDomain DEF Ended, Ordered, Precedes, IsCell, Num
<1>3. CASE UNCHANGED <<current, disk>>
  BY <1>3 DEF Ordered, Precedes, IsCell, Num
<1>4. ASSUME NEW c \in Channels, dump(c) PROVE Ordered'
  <2>1. PICK f, g \in OpenFiles, w \in BOOLEAN : DumpTo(c, f, g, w)
    BY <1>4, DumpEffect
  <2>2. up /\ UNCHANGED starts /\ logs' = logs + 1
    BY <1>4, DumpEffect
  <2> QED
    BY <2>1, <2>2, DumpOrdered
<1> QED
  BY <1>1, <1>2, <1>3, <1>4 DEF Next, Tick, vars

(* The logs after a dump.                                                    *)
LEMMA DumpRecords ==
  ASSUME Types, InNumbers, InNumbers', NEW c \in Channels, NEW f \in OpenFiles,
         NEW g \in OpenFiles, NEW w \in BOOLEAN, DumpTo(c, f, g, w)
  PROVE  LET new == <<starts, logs + 1>>
         IN  \A k : IF w /\ k = KeyOf(c)
                    THEN /\ RecordsOf(k)' = RecordsOf(k) \cup {new}
                         /\ OrderOf(k)' = OrderOf(k) \cup (RecordsOf(k) \X {new})
                    ELSE RecordsOf(k)' = RecordsOf(k) /\ OrderOf(k)' = OrderOf(k)
<1> DEFINE new == <<starts, logs + 1>>
           A(n, i) == Added(f, g, w, n, i)
<1>1. /\ \A n, i : IsCell(n, i)' <=> IsCell(n, i) \/ A(n, i)
      /\ \A n, i : IsCell(n, i) => disk'[n][i] = disk[n][i] /\ ~A(n, i)
      /\ \A n, i : A(n, i) => disk'[n][i] = new
  BY DumpCells
<1>2. \A n, i : A(n, i) => n[1] = KeyOf(c)
  BY DumpCurrent DEF Added
<1>3. w <=> \E n, i : A(n, i)
  BY DEF Added
<1>4. new[2] = logs + 1 /\ logs \in Nat
  BY DEF Types, CounterTypes
<1> HIDE DEF new, A
<1> SUFFICES ASSUME NEW k
             PROVE  IF w /\ k = KeyOf(c)
                    THEN /\ RecordsOf(k)' = RecordsOf(k) \cup {new}
                         /\ OrderOf(k)' = OrderOf(k) \cup (RecordsOf(k) \X {new})
                    ELSE RecordsOf(k)' = RecordsOf(k) /\ OrderOf(k)' = OrderOf(k)
  BY DEF new
<1>5. \A r : r \in RecordsOf(k)' <=> \E n, i : IsCell(n, i)' /\ n[1] = k /\ disk'[n][i] = r
  BY DEF RecordsOf, FilesOf, IsCell
<1>6. \A r \in RecordsOf(k) : r[2] \in Nat /\ r[2] <= logs
  BY RecordOfCell, CellTypes DEF Num
<1>7. /\ OrderOf(k) = {p \in RecordsOf(k) \X RecordsOf(k) : p[1][2] < p[2][2]}
      /\ OrderOf(k)' = {p \in RecordsOf(k)' \X RecordsOf(k)' : p[1][2] < p[2][2]}
  BY DEF InNumbers
<1>8. CASE w /\ k = KeyOf(c)
  <2>1. RecordsOf(k)' = RecordsOf(k) \cup {new}
    <3>1. PICK m, j : A(m, j)
      BY <1>3, <1>8
    <3>2. new \in RecordsOf(k)'
      BY <1>1, <1>2, <1>5, <1>8, <3>1
    <3>3. ASSUME NEW r \in RecordsOf(k)' PROVE r \in RecordsOf(k) \/ r = new
      BY <1>1, <1>5, <3>3, RecordOfCell
    <3>4. ASSUME NEW r \in RecordsOf(k) PROVE r \in RecordsOf(k)'
      BY <1>1, <1>5, <3>4, RecordOfCell
    <3> QED
      BY <3>2, <3>3, <3>4
  <2>2. \A p : p \in OrderOf(k)' <=> p \in OrderOf(k) \/ p \in RecordsOf(k) \X {new}
    BY <1>4, <1>6, <1>7, <2>1
  <2> QED
    BY <1>8, <2>1, <2>2
<1>9. CASE ~(w /\ k = KeyOf(c))
  <2>1. \A n, i : n[1] = k => ~A(n, i)
    BY <1>2, <1>3, <1>9
  <2>2. RecordsOf(k)' = RecordsOf(k)
    <3>1. ASSUME NEW r \in RecordsOf(k)' PROVE r \in RecordsOf(k)
      BY <1>1, <1>5, <2>1, <3>1, RecordOfCell
    <3>2. ASSUME NEW r \in RecordsOf(k) PROVE r \in RecordsOf(k)'
      BY <1>1, <1>5, <3>2, RecordOfCell
    <3> QED
      BY <3>1, <3>2
  <2> QED
    BY <1>7, <1>9, <2>2
<1> QED
  BY <1>8, <1>9

-----------------------------------------------------------------------------
(* The theorems.                                                             *)

(* Whatever the names of files are, every variable keeps its type, and every *)
(* open stream has its file and its key.                                     *)
THEOREM TypeCorrect == Spec => []TypeOK
<1>1. Types => TypeOK
  BY DEF Types, CounterTypes, CurrentTypes, DiskTypes, BeforeType, OpenFiles, RecordPairs, TypeOK
<1>2. Init => Types
  BY InitTypes
<1>3. Types /\ [Next]_vars => Types'
  BY TypesKept
<1> QED
  BY <1>1, <1>2, <1>3, PTL DEF Spec

IInv == Types /\ Fresh /\ Bounds /\ Ordered

LEMMA InitIInv == Init => IInv
<1> SUFFICES ASSUME Init PROVE IInv
  OBVIOUS
<1>1. DOMAIN current = {} /\ DOMAIN disk = {} /\ ~up
  BY EmptyDomain DEF Init
<1>2. Fresh
  BY <1>1 DEF Fresh
<1>3. Bounds
  BY <1>1 DEF Bounds, SizeBound, LastFileGetsOneLog, IndexBound
<1>4. Ordered
  BY <1>1 DEF Ordered, Precedes, IsCell
<1> QED
  BY <1>2, <1>3, <1>4, InitTypes DEF IInv

LEMMA IInvInductive == Apart /\ IInv /\ [Next]_vars => IInv'
  BY TypesKept, FreshKept, BoundsKept, OrderedKept DEF IInv

(* For sinks whose lives do not share a stamp, a life never opens a file of  *)
(* an earlier one or one of its own again, and the files of a key are        *)
(* written one after the other.                                              *)
THEOREM Invariance == ASSUME Apart PROVE Spec => []IInv
<1>1. Init => IInv
  BY InitIInv
<1>2. IInv /\ [Next]_vars => IInv'
  BY IInvInductive
<1> QED
  BY <1>1, <1>2, PTL DEF Spec

(* For sinks whose lives do not share a stamp, a file exceeds size_per_file_ *)
(* by less than one log, for any size and any limit on the number of files.  *)
THEOREM FilesAreBounded == ASSUME Apart PROVE Spec => []SizeBound
<1>1. IInv => SizeBound
  BY DEF IInv, Bounds
<1> QED
  BY <1>1, Invariance, PTL

(* For sinks whose lives do not share a stamp, a life of the sink writes a   *)
(* single log past max_files_.                                               *)
THEOREM LimitIsExceededOnce == ASSUME Apart PROVE Spec => []LastFileGetsOneLog
<1>1. IInv => LastFileGetsOneLog
  BY DEF IInv, Bounds
<1> QED
  BY <1>1, Invariance, PTL

-----------------------------------------------------------------------------
(* The refinement: every step of FileSink is one of RecordLog, or none.      *)

LEMMA RecordInit == Init => Record!Init
<1> SUFFICES ASSUME Init PROVE Record!Init
  OBVIOUS
<1>1. DOMAIN current = {} /\ DOMAIN disk = {}
  BY EmptyDomain DEF Init
<1>2. \A k : RecordsOf(k) = {} /\ OrderOf(k) = {}
  BY <1>1 DEF RecordsOf, OrderOf, FilesOf
<1>3. Silent = {}
  BY <1>1 DEF Silent
<1> QED
  BY <1>2, <1>3 DEF Init, Record!Init

LEMMA RecordStep == Apart /\ IInv /\ IInv' /\ [Next]_vars => [Record!Next]_(Record!vars)
<1> SUFFICES ASSUME Apart, IInv, IInv', [Next]_vars PROVE [Record!Next]_(Record!vars)
  OBVIOUS
<1> USE DEF IInv
<1>0. InNumbers /\ InNumbers'
  <2>1. InNumbers
    BY OrderInNumbers
  <2>2. Types' /\ Ordered' => InNumbers'
    BY OrderInNumbers, PTL
  <2> QED
    BY <2>1, <2>2
<1>1. ASSUME \A k : RecordsOf(k)' = RecordsOf(k)
      PROVE  /\ [k \in Keys |-> RecordsOf(k)]' = [k \in Keys |-> RecordsOf(k)]
             /\ [k \in Keys |-> OrderOf(k)]' = [k \in Keys |-> OrderOf(k)]
  <2>1. \A k : OrderOf(k)' = OrderOf(k)
    BY <1>0, <1>1 DEF InNumbers
  <2> QED
    BY <1>1, <2>1 DEF Keys
<1>2. ASSUME UNCHANGED disk PROVE \A k : RecordsOf(k)' = RecordsOf(k)
  BY <1>2, SameCells DEF IsCell
<1>3. CASE FileSinkMade
  <2>1. \A k : RecordsOf(k)' = RecordsOf(k)
    <3>1. CASE separate
      BY <1>2, <1>3, <3>1 DEF FileSinkMade
    <3>2. CASE ~separate
      <4>1. PICK f : disk' = Opened(disk, f)
        BY <1>3, <3>2 DEF FileSinkMade
      <4>2. /\ DOMAIN disk \subseteq DOMAIN disk'
            /\ \A n \in DOMAIN disk' : disk'[n] = IF n \in DOMAIN disk THEN disk[n] ELSE <<>>
        BY <4>1 DEF Opened
      <4>3. \A n, i : IsCell(n, i) <=> IsCell(n, i)'
        BY <4>2, EmptyDomain DEF IsCell
      <4>4. \A n, i : IsCell(n, i) => disk'[n][i] = disk[n][i]
        BY <4>2 DEF IsCell
      <4> QED
        BY <4>3, <4>4, SameCells
    <3> QED
      BY <3>1, <3>2
  <2>2. Silent' \in SUBSET Keys
    BY DEF Silent, Types, CurrentTypes, Keys
  <2>3. starts' = starts + 1 /\ UNCHANGED logs
    BY <1>3 DEF FileSinkMade
  <2>4. Record!Restart
    BY <1>1, <2>1, <2>2, <2>3 DEF Record!Restart
  <2> QED
    BY <2>4 DEF Record!Next
<1>4. CASE Ended
  <2>1. UNCHANGED <<disk, starts, logs>> /\ Silent' = {}
    BY <1>4, EmptyDomain DEF Ended, Silent
  <2>2. Record!End
    BY <1>1, <1>2, <2>1 DEF Record!End
  <2> QED
    BY <2>2 DEF Record!Next
<1>5. CASE UNCHANGED <<current, disk, starts, logs>>
  <2>1. Silent' = Silent
    BY <1>5 DEF Silent, OverLimit
  <2> QED
    BY <1>1, <1>2, <1>5, <2>1 DEF Record!vars
<1>6. ASSUME NEW c \in Channels, dump(c) PROVE Record!Next
  <2> DEFINE k == KeyOf(c)
             new == <<starts, logs + 1>>
  <2>1. PICK f, g \in OpenFiles, w \in BOOLEAN : DumpTo(c, f, g, w)
    BY <1>6, DumpEffect
  <2>2. /\ k \in Keys /\ logs' = logs + 1
        /\ UNCHANGED <<separate, starts>>
    BY <1>6, DumpEffect, KeyType
  <2>3. \A x : IF w /\ x = k
               THEN /\ RecordsOf(x)' = RecordsOf(x) \cup {new}
                    /\ OrderOf(x)' = OrderOf(x) \cup (RecordsOf(x) \X {new})
               ELSE RecordsOf(x)' = RecordsOf(x) /\ OrderOf(x)' = OrderOf(x)
    BY <1>0, <2>1, DumpRecords
  <2>4. /\ DOMAIN current' = DOMAIN current \cup {k}
        /\ \A x \in DOMAIN current \ {k} : current'[x] = current[x]
        /\ OverLimit(f) => current'[k] = f
        /\ ~OverLimit(f) => current'[k].ok = w
    BY <2>1, DumpCurrent
  <2>5. /\ k \in DOMAIN current => f = current[k]
        /\ g # f => f.ok
        /\ w => g.ok /\ ~OverLimit(f)
    BY <2>1 DEF DumpTo
  <2> HIDE DEF k, new
  <2>6. \A x \in Keys \ {k} : x \in Silent' <=> x \in Silent
    BY <2>4 DEF Silent, OverLimit
  <2>7. CASE w
    <3>1. k \notin Silent
      BY <2>5, <2>7 DEF Silent
    <3>2. Silent' \in {Silent, Silent \cup {k}}
      <4>1. Silent \subseteq Keys /\ Silent' \subseteq Keys
        BY DEF Silent, Types, CurrentTypes, Keys
      <4> QED
        BY <2>6, <3>1, <4>1
    <3>3. /\ [x \in Keys |-> RecordsOf(x)]' = [[x \in Keys |-> RecordsOf(x)] EXCEPT
               ![k] = @ \cup {new}]
          /\ [x \in Keys |-> OrderOf(x)]' = [[x \in Keys |-> OrderOf(x)] EXCEPT
               ![k] = @ \cup ([x \in Keys |-> RecordsOf(x)][k] \X {new})]
      BY <2>2, <2>3, <2>7 DEF Keys
    <3>4. Record!Write(k)
      BY <2>2, <3>1, <3>2, <3>3 DEF Record!Write, new
    <3> QED
      BY <2>2, <3>4 DEF Record!Next
  <2>8. CASE ~w
    <3>1. k \in Silent'
      BY <2>4, <2>8 DEF Silent
    <3>2. Silent' = Silent \cup {k}
      <4>1. Silent \subseteq Keys /\ Silent' \subseteq Keys
        BY DEF Silent, Types, CurrentTypes, Keys
      <4> QED
        BY <2>6, <3>1, <4>1
    <3>3. Record!Lose(k)
      BY <1>1, <2>2, <2>3, <2>8, <3>2 DEF Record!Lose
    <3> QED
      BY <2>2, <3>3 DEF Record!Next
  <2> QED
    BY <2>7, <2>8
<1> QED
  BY <1>3, <1>4, <1>5, <1>6 DEF Next, Tick, vars

(* For sinks whose lives do not share a stamp, the files of a key, read in   *)
(* the order they were last written to, are the log that RecordLog promises: *)
(* whatever the stamps print, rotations, restarts and streams that fail      *)
(* leave neither a hole nor a record out of order.                           *)
THEOREM RecordsAreKept == ASSUME Apart PROVE Spec => ImplementsRecordLog
<1>1. Init => Record!Init
  BY RecordInit
<1>2. IInv /\ IInv' /\ [Next]_vars => [Record!Next]_(Record!vars)
  BY RecordStep
<1> QED
  BY <1>1, <1>2, Invariance, PTL DEF Spec, ImplementsRecordLog, Record!Spec
=============================================================================

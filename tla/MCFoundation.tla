---------------------------- MODULE MCFoundation ----------------------------
(***************************************************************************)
(* One instance of every part of darwincore::foundation, which do not call *)
(* one another, and of the listening sockets of the network library: the   *)
(* parts with theorems come from FoundationParts, and here too a           *)
(* behaviour is a behaviour of one part, over the variables s1 to s11.     *)
(* The functions without state (sorting, dates, text, paths) are evaluated *)
(* on one input each.                                                      *)
(***************************************************************************)
EXTENDS FoundationParts

Letters(name) == IF name = "a" THEN 1 ELSE 4

-----------------------------------------------------------------------------
Processes == INSTANCE ProcessTree WITH
    node <- s1,
    Keys <- 1..4, Launchd <- 1, NoNode <- 0

Rotate == INSTANCE LogRotate WITH
    policy <- s1, compress <- s2, file <- s3, gz <- s4, currentSize <- s5,
    open <- s6, pc <- s7, index <- s8, written <- s9, crashes <- s10,
    failures <- s11,
    maxFiles <- 3, maxFileSize <- 1, MaxEntries <- 6, MaxCrashes <- 2,
    MaxFailures <- 1

Resources == INSTANCE FileResources WITH
    isOpen <- s1, fd <- s2, path <- s3, autoDelete <- s4, mapped <- s5,
    mode <- s6, disk <- s7, made <- s8, given <- s9, leaked <- s10,
    Temps <- {"t1", "t2"}, Maps <- {"m1", "m2"}, Locks <- {"l1", "l2"},
    Databases <- {"d1"}, MaxFd <- 2, MaxFiles <- 2

Files == INSTANCE FileManager WITH
    tree <- s1, last <- s2,
    Names <- {"a", "b"}, SubNames <- {"a"}, DSStore <- ".DS_Store",
    Contents <- {"v"}, Nothing <- "nothing", Part <- "part of v"

Listeners == INSTANCE Listener WITH
    files <- s1, foreign <- s2, open <- s3, acceptor <- s4,
    Acceptors <- {"a1", "a2"}, MaxFd <- 4, MaxListens <- 1

Logs == INSTANCE Logger WITH
    level <- s1, tasks <- s2, logs <- s3, file <- s4, currentSize <- s5,
    plain <- s6, pc <- s7, index <- s8, made <- s9, written <- s10,
    failed <- s11,
    Workers <- {"w1", "w2"}, maxFileSize <- 1, rollbackCount <- 2,
    Levels <- {1, 2}, MaxEntries <- 4

Shred == INSTANCE SecureDelete WITH
    entry <- s1, overwritten <- s2, files <- s3, directories <- s4,
    current <- s5, pc <- s6, rootGone <- s7, failed <- s8,
    Names <- {"a", "bbbb"}, NameLength <- Letters, Passes <- 3
Sort == INSTANCE Algorithms
Dates == INSTANCE Calendar
Text == INSTANCE Encoding
Path == INSTANCE Paths
Chars == INSTANCE Strings

-----------------------------------------------------------------------------
\* Vectors in any order, and sorted ones whose gaps differ.
Increasing(v) == \A i, j \in DOMAIN v : i < j => v[i] <= v[j]
Vectors == UNION {[0..n - 1 -> 0..2] : n \in 0..5}
             \cup {v \in UNION {[0..n - 1 -> 0..6] : n \in 1..4} : Increasing(v)}

\* Years around each rule of the calendar.
CalendarDays == {d \in [year : {1899, 1900, 1999, 2000, 2023, 2024, 2100},
                       month : 1..12, day : 1..31] :
                   d.day <= Dates!DaysInMonth(d.year, d.month)}

\* The first and last code point of each length of UTF-8, and beside the surrogates.
Scalars == {0, 127, 128, 2047, 2048, 55295, 57344, 65535, 65536, 1114111}

\* The least and the greatest byte of each kind.
Bytes == {65, 127, 128, 191, 192, 223, 224, 239, 240, 255}

SeqsUpTo(S, n) == UNION {[1..k -> S] : k \in 0..n}

\* Two centuries, the first and the last day of one, and a day of the next.
FirstAndLastDays == {<<100, 0, 1>>, <<126, 1, 28>>, <<199, 11, 31>>, <<226, 1, 28>>}

Start ==
    \/ ThreadsStart
    \/ ContainersStart
    \/ part = "processes" /\ Processes!Init /\ Empty1 /\ NoId
    \/ part = "rotate" /\ Rotate!Init /\ NoId
    \/ part = "resources" /\ Resources!Init /\ Empty10 /\ NoId
    \/ part = "files" /\ Files!Init /\ Empty2 /\ NoId
    \/ part = "listener" /\ Listeners!Init /\ Empty4 /\ NoId
    \/ part = "logger" /\ Logs!Init /\ NoId
    \/ part = "shred" /\ Shred!Init /\ Empty8 /\ NoId
    \/ part = "sort" /\ s1 \in Vectors /\ s2 \in 0..6 /\ Empty2 /\ NoId
    \/ part = "dates" /\ s1 \in CalendarDays /\ s2 \in {-13, -1, 1, 12} /\ Empty2 /\ NoId
    \/ part = "text" /\ s1 \in SeqsUpTo(Scalars, 2) /\ Empty1 /\ NoId
    \/ part = "bytes" /\ s1 \in SeqsUpTo(Bytes, 4) /\ Empty1 /\ NoId
    \/ part = "paths" /\ s1 \in SeqsUpTo({"/", ".", "a"}, 6) /\ Empty1 /\ NoId
    \/ part = "characters" /\ s1 \in SeqsUpTo({" ", "%", "a", "A"}, 4) /\ s2 \in SeqsUpTo({" ", "a"}, 2)
       /\ Empty2 /\ NoId

Step ==
    \/ ThreadsStep
    \/ ContainersStep
    \/ part = "processes" /\ Processes!Next /\ UNCHANGED Rest1
    \/ part = "rotate" /\ Rotate!Next /\ UNCHANGED Rest11
    \/ part = "resources" /\ Resources!Next /\ UNCHANGED Rest10
    \/ part = "files" /\ Files!Next /\ UNCHANGED Rest2
    \/ part = "listener" /\ Listeners!Next /\ UNCHANGED Rest4
    \/ part = "logger" /\ Logs!Next /\ UNCHANGED Rest11
    \/ part = "shred" /\ Shred!Next /\ UNCHANGED Rest8

\* The threads of the task queue and of the throttle run when they can.
FoundationSpec ==
    /\ Start /\ [][Step]_all
    /\ \A w \in Workers : WF_all(part = "tasks" /\ Tasks!Work(w) /\ UNCHANGED Rest7)
    /\ WF_all(part = "tasks" /\ Tasks!Progress /\ UNCHANGED Rest7)
    /\ WF_all(part = "throttle" /\ Throttles!Run /\ UNCHANGED Rest11)

-----------------------------------------------------------------------------
(***************************************************************************)
(* Files keep what was written: rotated logs keep their order across a     *)
(* crash and a failed move, an open file has one owner, a copy or a move   *)
(* leaves its source or its target, nothing that was to be shredded is     *)
(* left readable, and listening sockets lose no descriptor and remove no   *)
(* foreign file (LogRotate, Logger, TemporaryFile, MMap, FileLock,         *)
(* SQLite3DB, FileManager, SecureDelete, Acceptor).                        *)
(***************************************************************************)
FilesKept ==
    /\ part = "rotate" => Rotate!HistoryInOrder
    /\ part = "resources" => Resources!OneOwnerEach
    /\ part = "files" => Files!SourceSurvives
    /\ part = "shred" => Shred!DeletedForGood
    /\ part = "logger" => Logs!LogInOrder
    /\ part = "listener" => Listeners!ListenersClean

(***************************************************************************)
(* What is computed along a vector, a text or a chain of parents agrees    *)
(* with its reference definition and with its inverse (Sort, Search,       *)
(* Calendar, Duration, DateTime, UUID, EncodingConverter, FilePath,        *)
(* StringUtils, StringBuilder, ConnectionIdGenerator, ProcessTree).        *)
(***************************************************************************)
ConversionsAgree ==
    /\ part = "sort" => Sort!SortsAndFinds(s1, s2)
    /\ part = "dates" => Dates!DatesAgree(s1, s2)
    /\ part = "text" => Text!TextSurvives(s1)
    /\ part = "bytes" => Text!BytesEncoded(s1)
    /\ part = "paths" => Path!PathsLead(<<"/">> \o s1)
    /\ part = "characters" => Chars!StringsKept(s1, s2)
    /\ part = "ids" => ParseInvertsGenerate
    /\ part = "processes" => Processes!TreeCounts
=============================================================================

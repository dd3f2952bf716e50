------------------------------- MODULE Logger -------------------------------
(***************************************************************************)
(* log::Logger (foundation/logger/Logger.cpp) with the FileHandle it       *)
(* writes to: a call of log() hands a task to the shared AsyncQueue, the   *)
(* task puts the entry into _logs, the logger's thread writes it and rolls *)
(* the files over when the log is large enough.  Results of writes and     *)
(* moves are not looked at.  The destructor neither wakes nor joins the    *)
(* thread: destroying a std::thread that was not joined ends the process,  *)
(* and so does an exception of openLogFile.  The process may also be       *)
(* killed between any two system calls; it can be started again on the     *)
(* same files.                                                             *)
(***************************************************************************)
EXTENDS Integers, Sequences, SequencesExt, FiniteSets

CONSTANTS Workers,                        \* threads of AsyncQueue::queue()
          maxFileSize, rollbackCount,     \* of the constructor; an entry has size 1
          Levels,                         \* some of the levels, as numbers
          MaxEntries                      \* bound

VARIABLES level,         \* _level
          tasks,         \* tasks of AsyncQueue that have not put their entry yet
          logs,          \* _logs
          file,          \* file 0 is the log, file i is name.i.ext
          currentSize,   \* _currentSize
          plain,         \* the path is absolute and has an extension
          pc,            \* "idle", in openLogFile ("starting" or "rolling"), or "dead"
          index,         \* the i of openLogFile's loop
          made,          \* entries so far
          written,       \* numbers of the entries written, in order
          failed         \* a write or a move has failed

vars == <<level, tasks, logs, file, currentSize, plain, pc, index, made, written, failed>>

NoFile == <<0>>
Exists(i) == file[i] # NoFile
Alive == pc \in {"idle", "rolling"}

Init == /\ level \in Levels
        /\ tasks = <<>> /\ logs = <<>>
        /\ file = [i \in 0..rollbackCount |-> IF i = 0 THEN <<>> ELSE NoFile]
        /\ currentSize = 0
        /\ plain \in BOOLEAN
        /\ pc = "idle" /\ index = -1
        /\ made = 0 /\ written = <<>> /\ failed = FALSE

\* log(): an entry below the level is dropped; the task waits in AsyncQueue.
Log(l) == /\ Alive /\ made < MaxEntries
          /\ made' = made + 1
          /\ tasks' = IF l < level THEN tasks ELSE Append(tasks, [n |-> made', level |-> l])
          /\ UNCHANGED <<level, logs, file, currentSize, plain, pc, index, written, failed>>

SetLevel(l) == /\ Alive /\ l # level
               /\ level' = l
               /\ UNCHANGED <<tasks, logs, file, currentSize, plain, pc, index, made, written, failed>>

\* Each of the workers holds one of the oldest tasks and may be the next to run;
\* the logger's thread holds the mutex while it writes and rolls over.
TaskRuns == \E i \in DOMAIN tasks :
              /\ pc = "idle" /\ i <= Cardinality(Workers)
              /\ logs' = Append(logs, tasks[i])
              /\ tasks' = RemoveAt(tasks, i)
              /\ UNCHANGED <<level, file, currentSize, plain, pc, index, made, written, failed>>

-----------------------------------------------------------------------------
\* Mutant: a log that is rolled over without the older files.
LogOnly == 0

\* The loop of openLogFile moves the oldest file first.
Oldest == rollbackCount - 1

\* write: the entry is put if the stream is good, and counted in any case.  A log that
\* is large enough is closed and rolled over.
Write(obj) == /\ \/ /\ file' = [file EXCEPT ![0] = Append(@, obj.n)]
                    /\ written' = Append(written, obj.n) /\ UNCHANGED failed
                 \/ failed' = TRUE /\ UNCHANGED <<file, written>>
              /\ currentSize' = currentSize + 1
              /\ IF currentSize' >= maxFileSize
                 THEN pc' = "rolling" /\ index' = Oldest
                 ELSE UNCHANGED <<pc, index>>

\* One pass of run(): the level is looked at again.
Run == /\ pc = "idle" /\ logs # <<>>
       /\ logs' = Tail(logs)
       /\ IF Head(logs).level >= level
          THEN Write(Head(logs))
          ELSE UNCHANGED <<file, currentSize, pc, index, written, failed>>
       /\ UNCHANGED <<level, tasks, plain, made>>

-----------------------------------------------------------------------------
\* openLogFile, one system call at a time.
InLoop == pc \in {"starting", "rolling"} /\ index >= 0

\* FilePath makes every path absolute and name + "." + ext gives an extension to
\* every name: the files of another path are not found and stay.
Found(i) == plain /\ Exists(i)

SkipMissing ==
    /\ InLoop /\ ~Found(index)
    /\ index' = index - 1
    /\ UNCHANGED <<level, tasks, logs, file, currentSize, plain, pc, made, written, failed>>

\* moveItem(from, to, true): what is in the way is removed, then the file renamed.
RemoveTarget ==
    /\ InLoop /\ Found(index) /\ Exists(index + 1)
    /\ file' = [file EXCEPT ![index + 1] = NoFile]
    /\ UNCHANGED <<level, tasks, logs, currentSize, plain, pc, index, made, written, failed>>

RenameSource ==
    /\ InLoop /\ Found(index) /\ ~Exists(index + 1)
    /\ file' = [file EXCEPT ![index + 1] = file[index], ![index] = NoFile]
    /\ index' = index - 1
    /\ UNCHANGED <<level, tasks, logs, currentSize, plain, pc, made, written, failed>>

MoveFails ==
    /\ InLoop /\ Found(index)
    /\ failed' = TRUE /\ index' = index - 1
    /\ UNCHANGED <<level, tasks, logs, file, currentSize, plain, pc, made, written>>

\* FileHandle::open in mode Append makes a missing file and keeps an old one.
OpenForAppend(f) == IF f[0] = NoFile THEN [f EXCEPT ![0] = <<>>] ELSE f

OpenLog ==
    /\ pc \in {"starting", "rolling"} /\ index < 0
    /\ file' = OpenForAppend(file)
    /\ currentSize' = Len(file'[0])
    /\ pc' = "idle"
    /\ UNCHANGED <<level, tasks, logs, plain, index, made, written, failed>>

\* The exception ends the process, in the constructor as in the thread.
OpenFails ==
    /\ pc \in {"starting", "rolling"} /\ index < 0
    /\ pc' = "dead"
    /\ UNCHANGED <<level, tasks, logs, file, currentSize, plain, index, made, written, failed>>

\* ~Logger, or the process is killed: what was not written is lost.
Destroy == /\ pc # "dead"
           /\ pc' = "dead"
           /\ UNCHANGED <<level, tasks, logs, file, currentSize, plain, index, made, written, failed>>

TooLarge == Exists(0) /\ Len(file[0]) >= maxFileSize

\* Logger(): the level starts at INFO, here the least; the files found are rolled
\* over if the log is large enough and its size can be read.
Restart == /\ pc = "dead"
           /\ pc' = "starting"
           /\ tasks' = <<>> /\ logs' = <<>>
           /\ level' = CHOOSE l \in Levels : \A m \in Levels : l <= m
           /\ \/ TooLarge /\ index' = Oldest
              \/ index' = -1
           /\ currentSize' = 0
           /\ UNCHANGED <<file, plain, made, written, failed>>

Next == \/ \E l \in Levels : Log(l) \/ SetLevel(l)
        \/ TaskRuns \/ Run
        \/ SkipMissing \/ RemoveTarget \/ RenameSource \/ MoveFails \/ OpenLog \/ OpenFails
        \/ Destroy \/ Restart

-----------------------------------------------------------------------------
Content(i) == IF Exists(i) THEN file[i] ELSE <<>>
History == FlattenSeq([k \in 1..rollbackCount + 1 |-> Content(rollbackCount + 1 - k)])
PlaceOf(n) == CHOOSE i \in DOMAIN written : written[i] = n

(***************************************************************************)
(* Logger::write and openLogFile: read from the highest number to the log, *)
(* the files hold entries in the order written and none twice, whichever   *)
(* write or move fails and wherever the process ends.  If nothing failed   *)
(* they are the last ones written, without a gap; an entry is then given   *)
(* up only when rollbackCount full files are kept, and a path without an   *)
(* extension gives up none.  No entry is written twice.  Entries overtake  *)
(* others only in AsyncQueue, fewer than it has threads.                   *)
(***************************************************************************)
LogInOrder ==
  /\ IsInjective(written) /\ Range(History) \subseteq Range(written)
  /\ \A i, j \in DOMAIN History : i < j => PlaceOf(History[i]) < PlaceOf(History[j])
  /\ ~failed =>
       /\ IsSuffix(History, written)
       /\ History = written \/ (plain /\ Len(History) >= rollbackCount * maxFileSize)
  /\ \A i \in DOMAIN written :
       Cardinality({k \in DOMAIN written : k > i /\ written[k] < written[i]}) < Cardinality(Workers)

=============================================================================

----------------------------- MODULE LogRotate -----------------------------
(***************************************************************************)
(* FileSink and LogRotate (foundation/logger/LogSink.cpp, LogRotate.cpp):  *)
(* when the log is due, its files are shifted, log.1 to log.2 and so on,   *)
(* the log becomes log.1 and a new one is opened.  A move is FileManager's *)
(* moveItem, which removes the target and then renames, and either call    *)
(* can fail; log.1 may then be compressed, which can fail too; and the     *)
(* process can crash between any two of them and start again.  File 0 is   *)
(* the log itself; entries are numbered as written.                        *)
(***************************************************************************)
EXTENDS Integers, Sequences, FiniteSets, SequencesExt

CONSTANTS maxFiles, maxFileSize,    \* RotateConfig; an entry has size 1
          MaxEntries, MaxCrashes, MaxFailures    \* bounds

VARIABLES policy, compress,    \* the rest of RotateConfig
          file,           \* what each file holds; NoFile if there is none
          gz,             \* log.1.gz
          currentSize,
          open,           \* file_.is_open()
          pc, index,      \* where a write stands, and the i of rotate
          written, crashes, failures    \* what happened so far

vars == <<policy, compress, file, gz, currentSize, open, pc, index, written,
          crashes, failures>>

NoFile == <<0>>
Exists(i) == file[i] # NoFile

RotateConfig == [policy : {"Size", "Time", "Never"}, compress : BOOLEAN]

Init ==
    /\ policy \in {"Size", "Time", "Never"} /\ compress \in BOOLEAN
    /\ file = [i \in 0..maxFiles |-> IF i = 0 THEN <<>> ELSE NoFile] /\ gz = NoFile
    /\ currentSize = 0 /\ open = TRUE
    /\ pc = "idle" /\ index = 0
    /\ written = 0 /\ crashes = 0 /\ failures = 0

\* Daily and Hourly go by the clock and the time of the last write.
ShouldRotate == \/ policy = "Size" /\ currentSize >= maxFileSize
                \/ policy = "Time" /\ Exists(0)

\* Mutant: forgetting the oldest file that has a place to go to.
FirstShort == maxFiles - 2

\* Where the loop of rotate begins: the older files are moved first.
FirstMoved == maxFiles - 1

\* FileSink::write, up to the rotation.
WriteBegins ==
    /\ pc = "idle" /\ written < MaxEntries
    /\ \/ /\ ShouldRotate
          /\ open' = FALSE
          /\ IF Exists(0) THEN pc' = "shift" /\ index' = FirstMoved
                          ELSE pc' = "reopen" /\ UNCHANGED index
       \/ /\ policy = "Time" \/ ~ShouldRotate
          /\ pc' = "put" /\ UNCHANGED <<open, index>>
    /\ UNCHANGED <<policy, compress, file, gz, currentSize, written, crashes, failures>>

\* moveItem removes a target that is in the way; then it renames.
RemoveItem(to) == file' = [file EXCEPT ![to] = NoFile]
Rename(from, to) == file' = [file EXCEPT ![to] = file[from], ![from] = NoFile]

\* One pass of the loop; once the loop is over, the same for the log itself.
MayMove == /\ pc = "shift"
           /\ IF index = 0 THEN TRUE ELSE Exists(index)

SkipMissing ==
    /\ pc = "shift" /\ index > 0 /\ ~Exists(index)
    /\ index' = index - 1
    /\ UNCHANGED <<policy, compress, file, gz, currentSize, open, pc, written, crashes, failures>>

RemoveTarget ==
    /\ MayMove /\ Exists(index + 1)
    /\ RemoveItem(index + 1)
    /\ UNCHANGED <<policy, compress, gz, currentSize, open, pc, index, written, crashes, failures>>

\* After the log has become log.1 it may have to be compressed.
RenameSource ==
    /\ MayMove /\ ~Exists(index + 1)
    /\ Rename(index, index + 1)
    /\ IF index > 0
       THEN index' = index - 1 /\ UNCHANGED <<currentSize, pc>>
       ELSE /\ IF compress THEN pc' = "compress" /\ UNCHANGED currentSize
                           ELSE pc' = "reopen" /\ currentSize' = 0
            /\ UNCHANGED index
    /\ UNCHANGED <<policy, compress, gz, open, written, crashes, failures>>

\* compressFile: gzip -f replaces log.1 by log.1.gz, which no later rotation looks at.
Compress ==
    /\ pc = "compress"
    /\ gz' = file[1] /\ file' = [file EXCEPT ![1] = NoFile]
    /\ currentSize' = 0 /\ pc' = "reopen"
    /\ UNCHANGED <<policy, compress, open, index, written, crashes, failures>>

\* What a gzip cut short leaves of log.1.gz; log.1 is then still there.
CutShort == IF pc = "compress" THEN {gz, NoFile, file[1]} ELSE {gz}

\* The result of gzip is not looked at.
CompressFails ==
    /\ pc = "compress" /\ failures < MaxFailures
    /\ failures' = failures + 1
    /\ gz' \in CutShort
    /\ currentSize' = 0 /\ pc' = "reopen"
    /\ UNCHANGED <<policy, compress, file, open, index, written, crashes>>

\* A failed move of an old file is ignored; one of the log ends rotate.
MoveFails ==
    /\ MayMove /\ failures < MaxFailures
    /\ failures' = failures + 1
    /\ IF index > 0 THEN index' = index - 1 /\ UNCHANGED pc
                    ELSE pc' = "reopen" /\ UNCHANGED index
    /\ UNCHANGED <<policy, compress, file, gz, currentSize, open, written, crashes>>

\* file_.open(path_, out | app), which creates the file.
Reopen ==
    /\ pc = "reopen"
    /\ open' = TRUE /\ pc' = "put"
    /\ file' = IF Exists(0) THEN file ELSE [file EXCEPT ![0] = <<>>]
    /\ UNCHANGED <<policy, compress, gz, currentSize, index, written, crashes, failures>>

ReopenFails ==
    /\ pc = "reopen" /\ failures < MaxFailures
    /\ failures' = failures + 1
    /\ pc' = "put"
    /\ UNCHANGED <<policy, compress, file, gz, currentSize, open, index, written, crashes>>

\* The entry goes to the file if it is open, and is counted in any case.
Put ==
    /\ pc = "put"
    /\ written' = written + 1
    /\ file' = IF open THEN [file EXCEPT ![0] = Append(@, written')] ELSE file
    /\ currentSize' = currentSize + 1
    /\ pc' = "idle"
    /\ UNCHANGED <<policy, compress, gz, open, index, crashes, failures>>

\* The process ends anywhere and is started again: LogRotate looks at the
\* log's size, FileSink opens it.
Crash ==
    /\ crashes < MaxCrashes
    /\ crashes' = crashes + 1
    /\ currentSize' = IF Exists(0) THEN Len(file[0]) ELSE 0
    /\ file' = IF Exists(0) THEN file ELSE [file EXCEPT ![0] = <<>>]
    /\ open' = TRUE /\ pc' = "idle" /\ index' = 0
    /\ gz' \in CutShort
    /\ UNCHANGED <<policy, compress, written, failures>>

Next == \/ WriteBegins \/ SkipMissing \/ RemoveTarget \/ RenameSource \/ MoveFails \/ Compress \/ CompressFails
        \/ Reopen \/ ReopenFails \/ Put \/ Crash

Spec == Init /\ [][Next]_vars

Content(i) == IF Exists(i) THEN file[i] ELSE <<>>
\* The plain files, from the oldest to the log, and all that is on the disk.
History == FlattenSeq([k \in 1..maxFiles + 1 |-> Content(maxFiles + 1 - k)])
Packed == IF gz = NoFile THEN {} ELSE Range(gz)
OnDisk == Range(History) \cup Packed
LastOnes(S) == S = (written - Cardinality(S) + 1)..written

(***************************************************************************)
(* Read from the highest number down, the plain files hold entries in the  *)
(* order they were written and none twice, and the compressed file is      *)
(* older than the log, after any crash, failed move or failed gzip.  If    *)
(* nothing failed, what is on the disk are the last entries written,       *)
(* without a gap: with crashes if nothing is compressed, else without (a   *)
(* file that a crash kept from gzip stays while newer ones are given up).  *)
(* Without a crash or compression maxFiles full files are kept             *)
(* (FileSink::write, LogRotate::rotate, FileManager::moveItem).            *)
(***************************************************************************)
HistoryInOrder ==
    /\ \A i, j \in DOMAIN History : i < j => History[i] < History[j]
    /\ \A e \in Packed, n \in Range(Content(0)) : e < n
    /\ failures = 0 /\ (~compress \/ crashes = 0) => LastOnes(OnDisk)
    /\ failures = 0 /\ crashes = 0 /\ policy = "Size" /\ ~compress /\ pc = "idle" =>
           \/ Len(History) = written
           \/ Len(History) > maxFiles * maxFileSize
=============================================================================

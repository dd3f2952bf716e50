--------------------------- MODULE FileResources ---------------------------
(***************************************************************************)
(* The classes that own a file descriptor: TemporaryFile, MMap, FileLock   *)
(* and SQLite3DB (foundation/file, foundation/sqlite3).  Descriptors are   *)
(* given out lowest first and used again after close, as POSIX requires,   *)
(* so a descriptor closed by two owners would hit a third.  A database     *)
(* handle is treated as the descriptor behind it; a handle that sqlite3    *)
(* made for a file it could not open has none (Bare).                      *)
(***************************************************************************)
EXTENDS Integers, FiniteSets, FiniteSetsExt

CONSTANTS Temps, Maps, Locks, Databases,    \* the objects, by class
          MaxFd,                 \* bound: the process's descriptors
          MaxFiles               \* bound: temporary files ever made

VARIABLES isOpen,      \* the open descriptors
          fd,          \* fd_ or _handle of each object, -1 for none
          path,        \* path_ of each temporary file, 0 for none
          autoDelete,
          mapped,      \* objects with data_ set
          mode,        \* the lock each FileLock holds
          disk,        \* the temporary files that exist
          made, given, \* files made so far; those handed over by release
          leaked       \* open descriptors nobody owns

vars == <<isOpen, fd, path, autoDelete, mapped, mode, disk, made, given, leaked>>

Objects == Temps \cup Maps \cup Locks \cup Databases

Init ==
    /\ isOpen = {} /\ leaked = {}
    /\ fd = [o \in Objects |-> -1]
    /\ path = [o \in Temps |-> 0] /\ autoDelete = [o \in Temps |-> TRUE]
    /\ mapped = {}
    /\ mode = [o \in Locks |-> "none"]
    /\ disk = {} /\ made = 0 /\ given = {}

Lowest(open) == Min((0..MaxFd) \ open)
Closed(o) == isOpen \ {fd[o]}
CanOpen(open) == Cardinality(open) <= MaxFd

\* The constructor: mkstemp gives a new name and a descriptor.
TempCreate(o) ==
    /\ fd[o] = -1 /\ path[o] = 0 /\ made < MaxFiles /\ CanOpen(isOpen)
    /\ fd' = [fd EXCEPT ![o] = Lowest(isOpen)] /\ isOpen' = isOpen \cup {fd'[o]}
    /\ made' = made + 1 /\ disk' = disk \cup {made'}
    /\ path' = [path EXCEPT ![o] = made'] /\ autoDelete' = [autoDelete EXCEPT ![o] = TRUE]
    /\ UNCHANGED <<mapped, mode, given, leaked>>

\* close() and, if the file is the object's to delete, remove().
Deleted(o) == IF autoDelete[o] THEN disk \ {path[o]} ELSE disk

TempClose(o) ==
    /\ fd[o] # -1
    /\ isOpen' = Closed(o) /\ fd' = [fd EXCEPT ![o] = -1]
    /\ UNCHANGED <<path, autoDelete, mapped, mode, disk, made, given, leaked>>

TempRelease(o) ==
    /\ path[o] # 0
    /\ given' = given \cup {path[o]}
    /\ path' = [path EXCEPT ![o] = 0] /\ autoDelete' = [autoDelete EXCEPT ![o] = FALSE]
    /\ UNCHANGED <<isOpen, fd, mapped, mode, disk, made, leaked>>

\* The destructor, after which the object's place may be used anew.
TempDestroy(o) ==
    /\ path[o] # 0 \/ fd[o] # -1
    /\ isOpen' = Closed(o) /\ disk' = Deleted(o)
    /\ fd' = [fd EXCEPT ![o] = -1] /\ path' = [path EXCEPT ![o] = 0]
    /\ given' = IF autoDelete[o] THEN given ELSE given \cup ({path[o]} \ {0})
    /\ UNCHANGED <<autoDelete, mapped, mode, made, leaked>>

\* Mutant: the other object keeps what it gave away.
KeepsBoth(f, to, from, none) == [f EXCEPT ![to] = f[from]]

\* A move: the other object is left without.
Moved(f, to, from, none) == [f EXCEPT ![to] = f[from], ![from] = none]

TempMoveAssign(o, p) ==
    /\ o # p /\ (path[p] # 0 \/ fd[p] # -1)
    /\ isOpen' = Closed(o) /\ disk' = Deleted(o)
    /\ given' = IF autoDelete[o] THEN given ELSE given \cup ({path[o]} \ {0})
    /\ fd' = Moved(fd, o, p, -1) /\ path' = Moved(path, o, p, 0)
    /\ autoDelete' = [autoDelete EXCEPT ![o] = autoDelete[p]]
    /\ UNCHANGED <<mapped, mode, made, leaked>>

\* map: whatever was mapped goes first; then open, fstat and mmap, each of
\* which may fail and leaves nothing open.
Map(o) ==
    /\ \/ /\ CanOpen(Closed(o))
          /\ fd' = [fd EXCEPT ![o] = Lowest(Closed(o))]
          /\ isOpen' = Closed(o) \cup {fd'[o]}
          /\ mapped' = mapped \cup {o}
       \/ /\ fd' = [fd EXCEPT ![o] = -1]
          /\ isOpen' = Closed(o) /\ mapped' = mapped \ {o}
    /\ UNCHANGED <<path, autoDelete, mode, disk, made, given, leaked>>

Unmap(o) ==
    /\ fd[o] # -1
    /\ isOpen' = Closed(o) /\ fd' = [fd EXCEPT ![o] = -1] /\ mapped' = mapped \ {o}
    /\ UNCHANGED <<path, autoDelete, mode, disk, made, given, leaked>>

MapMoveAssign(o, p) ==
    /\ o # p
    /\ isOpen' = Closed(o) /\ fd' = Moved(fd, o, p, -1)
    /\ mapped' = {q \in mapped \ {p} : q # o} \cup (IF p \in mapped THEN {o} ELSE {})
    /\ UNCHANGED <<path, autoDelete, mode, disk, made, given, leaked>>

\* flock of one file from several descriptions.
Conflicts(o, m) == \E p \in Locks \ {o} : mode[p] = "exclusive" \/ (m = "exclusive" /\ mode[p] # "none")

\* lock: a descriptor whose flock does not succeed is not closed.
Lock(o, m) ==
    /\ fd[o] = -1 /\ CanOpen(isOpen)
    /\ LET new == Lowest(isOpen) IN
       /\ isOpen' = isOpen \cup {new}
       /\ IF Conflicts(o, m)
          THEN leaked' = leaked \cup {new} /\ UNCHANGED <<fd, mode>>
          ELSE /\ fd' = [fd EXCEPT ![o] = new] /\ mode' = [mode EXCEPT ![o] = m]
               /\ UNCHANGED leaked
    /\ UNCHANGED <<path, autoDelete, mapped, disk, made, given>>

Unlock(o) ==
    /\ fd[o] # -1
    /\ isOpen' = Closed(o)
    /\ fd' = [fd EXCEPT ![o] = -1] /\ mode' = [mode EXCEPT ![o] = "none"]
    /\ UNCHANGED <<path, autoDelete, mapped, disk, made, given, leaked>>

Bare == -2

\* SQLite3DB::open overwrites a handle that is still open.  sqlite3_open gives a handle
\* in any case: an open that fails leaves the object with one as well.
DatabaseOpen(o) ==
    /\ \/ /\ CanOpen(isOpen)
          /\ fd' = [fd EXCEPT ![o] = Lowest(isOpen)] /\ isOpen' = isOpen \cup {fd'[o]}
       \/ fd' = [fd EXCEPT ![o] = Bare] /\ UNCHANGED isOpen
    /\ leaked' = leaked \cup ({fd[o]} \ {-1, Bare})
    /\ UNCHANGED <<path, autoDelete, mapped, mode, disk, made, given>>

DatabaseClose(o) ==
    /\ fd[o] # -1
    /\ isOpen' = Closed(o) /\ fd' = [fd EXCEPT ![o] = -1]
    /\ UNCHANGED <<path, autoDelete, mapped, mode, disk, made, given, leaked>>

Next ==
    \/ \E o \in Temps : TempCreate(o) \/ TempClose(o) \/ TempRelease(o) \/ TempDestroy(o)
    \/ \E o, p \in Temps : TempMoveAssign(o, p)
    \/ \E o \in Maps : Map(o) \/ Unmap(o)
    \/ \E o, p \in Maps : MapMoveAssign(o, p)
    \/ \E o \in Locks : Unlock(o) \/ \E m \in {"shared", "exclusive"} : Lock(o, m)
    \/ \E o \in Databases : DatabaseOpen(o) \/ DatabaseClose(o)

Spec == Init /\ [][Next]_vars

Owned == {o \in Objects : fd[o] \notin {-1, Bare}}

(***************************************************************************)
(* A descriptor has one owner and is open while it has; what is open and   *)
(* unowned leaked in one of the two known ways; a temporary file belongs   *)
(* to at most one object and none is left behind that was not released or  *)
(* kept on purpose; an exclusive lock is held alone (move operations and   *)
(* destructors of TemporaryFile and MMap, FileLock::lock and unlock,       *)
(* SQLite3DB::open and close).                                             *)
(***************************************************************************)
OneOwnerEach ==
    /\ \A o, p \in Owned : fd[o] = fd[p] => o = p
    /\ {fd[o] : o \in Owned} \cap leaked = {}
    /\ {fd[o] : o \in Owned} \cup leaked = isOpen
    /\ \A o, p \in Temps : path[o] = path[p] /\ path[o] # 0 => o = p
    /\ disk = ({path[o] : o \in Temps} \ {0}) \cup given
    /\ mapped = {o \in Maps : fd[o] # -1}
    /\ \A o, p \in Locks : mode[o] = "exclusive" /\ o # p => mode[p] = "none"
=============================================================================

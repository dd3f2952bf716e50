---------------------------- MODULE SecureDelete ----------------------------
(***************************************************************************)
(* SecureDelete::deleteDirectory and deleteFile (foundation/file/          *)
(* SecureDelete.cpp).  The directory is listed once; every file is         *)
(* overwritten pass by pass, renamed and removed; then the directories go, *)
(* sorted by the length of their path, longest first.  A write, a rename   *)
(* or a removal can fail, and links and other entries are not touched.     *)
(***************************************************************************)
EXTENDS Integers, Sequences, FiniteSets, SequencesExt

CONSTANTS Names, NameLength(_),   \* names and how long they are
          Passes                  \* passes of the mode: 1, 3 or 29

VARIABLES entry,      \* the entries below the directory: path to type
          overwritten,    \* passes each file has had
          files, directories,    \* what the listing found and is not done
          current,    \* the file being deleted
          pc, rootGone, failed

vars == <<entry, overwritten, files, directories, current, pc, rootGone, failed>>

Paths == {<<n>> : n \in Names} \cup {<<n, m>> : n, m \in Names}

Length(p) == FoldSeq(LAMBDA n, sum : sum + 1 + NameLength(n), 0, p)
Entries == {e \in UNION {[ps -> {"file", "dir", "link"}] : ps \in SUBSET Paths} :
               \A p \in DOMAIN e : Len(p) > 1 => Front(p) \in DOMAIN e /\ e[Front(p)] = "dir"}

NoFile == <<>>

Init ==
    /\ entry \in Entries
    /\ overwritten = [p \in Paths |-> 0]
    /\ files = {} /\ directories = {} /\ current = NoFile
    /\ pc = "list" /\ rootGone = FALSE /\ failed = FALSE

OfType(t) == {p \in DOMAIN entry : entry[p] = t}
Erased(p) == [q \in DOMAIN entry \ {p} |-> entry[q]]

\* DirectoryIterator, recursive.
List ==
    /\ pc = "list"
    /\ files' = OfType("file") /\ directories' = OfType("dir")
    /\ pc' = "next"
    /\ UNCHANGED <<entry, overwritten, current, rootGone, failed>>

\* The loop over the files, in the order of the listing, which is any.
DeleteFile(p) ==
    /\ pc = "next" /\ p \in files
    /\ current' = p /\ files' = files \ {p}
    /\ pc' = "overwrite"
    /\ UNCHANGED <<entry, overwritten, directories, rootGone, failed>>

\* Mutant: giving the file up once a pass is done.
AfterAnyPass == overwritten[current] > 0

\* rename and remove come after the last pass.
AllPasses == overwritten[current] = Passes

OverwritePass ==
    /\ pc = "overwrite" /\ overwritten[current] < Passes
    /\ overwritten' = [overwritten EXCEPT ![current] = @ + 1]
    /\ UNCHANGED <<entry, files, directories, current, pc, rootGone, failed>>

RenameAndRemove ==
    /\ pc = "overwrite" /\ AllPasses
    /\ entry' = Erased(current)
    /\ current' = NoFile /\ pc' = "next"
    /\ UNCHANGED <<overwritten, files, directories, rootGone, failed>>

\* open, write or remove fails: deleteDirectory returns false at once.
FileFails ==
    /\ pc = "overwrite"
    /\ failed' = TRUE /\ pc' = "false"
    /\ UNCHANGED <<entry, overwritten, files, directories, current, rootGone>>

\* Mutant: shortest first.
ShortestFirst(d) == \A q \in directories : Length(d) <= Length(q)

\* std::sort by a.length() > b.length(); equals come in any order.
ComesNext(d) == \A q \in directories : Length(d) >= Length(q)

Empty(d) == {p \in DOMAIN entry : p # d /\ IsPrefix(d, p)} = {}

RemoveSubdirectory(d) ==
    /\ pc = "next" /\ files = {} /\ d \in directories /\ ComesNext(d)
    /\ IF Empty(d)
       THEN entry' = Erased(d) /\ directories' = directories \ {d} /\ UNCHANGED pc
       ELSE pc' = "false" /\ UNCHANGED <<entry, directories>>
    /\ UNCHANGED <<overwritten, files, current, rootGone, failed>>

RemoveRoot ==
    /\ pc = "next" /\ files = {} /\ directories = {}
    /\ rootGone' = (entry = [p \in {} |-> "file"])
    /\ pc' = IF rootGone' THEN "true" ELSE "false"
    /\ UNCHANGED <<entry, overwritten, files, directories, current, failed>>

Next == \/ List \/ OverwritePass \/ RenameAndRemove \/ FileFails \/ RemoveRoot
        \/ \E p \in Paths : DeleteFile(p) \/ RemoveSubdirectory(p)

Spec == Init /\ [][Next]_vars

(***************************************************************************)
(* A file is never removed before every pass over it is done; the call     *)
(* answers true only if nothing is left; and if no system call fails and   *)
(* there is no link, it does answer true: sorting by length puts every     *)
(* directory before the one that holds it (SecureDelete::deleteFile and    *)
(* deleteDirectory).                                                       *)
(***************************************************************************)
DeletedForGood ==
    /\ \A p \in Paths : overwritten[p] > 0 /\ overwritten[p] < Passes => p \in DOMAIN entry
    /\ pc = "true" => DOMAIN entry = {} /\ rootGone
    /\ pc = "false" => failed \/ OfType("link") # {}
=============================================================================

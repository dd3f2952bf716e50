---------------------------- MODULE FileManager ----------------------------
(***************************************************************************)
(* FileManager (foundation/file/FileManager.cpp): create, remove, rename,  *)
(* move and copy of files and directories; and DirectoryIterator, which    *)
(* lists them, without a limit of depth.  A path is a sequence of names;   *)
(* tree maps the paths that exist to "dir" or to what a file holds.  Each  *)
(* operation is several system calls, any of which may fail half way, so   *)
(* an operation has a set of outcomes.  The operations are called one at a *)
(* time on any tree there may be, with source and target apart from each   *)
(* other (neither inside the other) and no file where a directory has to   *)
(* be.                                                                     *)
(***************************************************************************)
EXTENDS Integers, Sequences, FiniteSets, FiniteSetsExt, SequencesExt, TLC

CONSTANTS Names, SubNames,    \* file names, at the top and below
          DSStore,            \* ".DS_Store"
          Contents,
          Nothing, Part       \* what an emptied file and a part of a file hold

VARIABLES tree,
          last    \* the call that was made, its answer, and the tree before

vars == <<tree, last>>

Paths == {<<n>> : n \in Names} \cup {<<n, m>> : n \in Names, m \in SubNames \cup {DSStore}}

WellFormed(t) == \A p \in DOMAIN t : Len(p) > 1 => Front(p) \in DOMAIN t /\ t[Front(p)] = "dir"

Trees == {t \in UNION {[ps -> Contents \cup {"dir"}] : ps \in SUBSET Paths} :
             /\ WellFormed(t)
             /\ \A p \in DOMAIN t : Len(p) = 2 /\ Last(p) = DSStore => t[p] # "dir"}

NoCall == [op |-> "none"]

Init == tree \in Trees /\ last = NoCall

\* isItemExistsAtPath; the root is always there.
Exists(t, p) == p = <<>> \/ p \in DOMAIN t
IsDir(t, p) == p = <<>> \/ (p \in DOMAIN t /\ t[p] = "dir")
Below(t, p) == {q \in DOMAIN t : IsPrefix(p, q)}
Without(t, ps) == [q \in DOMAIN t \ ps |-> t[q]]
With(t, u) == [q \in DOMAIN t \cup DOMAIN u |-> IF q \in DOMAIN u THEN u[q] ELSE t[q]]

\* subpathsAtPath leaves .DS_Store out.
Unlisted(p, q) == \E i \in DOMAIN q : i > Len(p) /\ q[i] = DSStore

\* fault: a call whose result is not looked at has failed.
Done(t) == [ok |-> TRUE, tree |-> t, fault |-> FALSE]
Failed(t) == [ok |-> FALSE, tree |-> t, fault |-> FALSE]
Faulty(t) == [ok |-> TRUE, tree |-> t, fault |-> TRUE]

\* A directory with an unlisted file cannot be removed, nor what holds it.
Stuck(t, p) == {q \in Below(t, p) : \E r \in Below(t, p) : Unlisted(p, r) /\ IsPrefix(q, r)}

\* removeItemAtPath: items are removed from the leaves up until one fails.
Remove_(t, p) ==
    IF ~Exists(t, p) THEN {Failed(t)}
    ELSE {Failed(Without(t, ps)) : ps \in {qs \in SUBSET (Below(t, p) \ (Stuck(t, p) \cup {p})) :
                                             \A q \in qs : Below(t, q) \subseteq qs}}
         \cup (IF Stuck(t, p) = {} THEN {Done(Without(t, Below(t, p)))} ELSE {})

\* createDirectoryAtPath: the missing ancestors, one by one, and the path.
Ancestors(p) == {SubSeq(p, 1, n) : n \in 1..Len(p)}
Missing(t, p) == {q \in Ancestors(p) : ~Exists(t, q)}
Directories(ps) == [q \in ps |-> "dir"]
Create_(t, p, intermediates) ==
    IF Exists(t, p) \/ (~intermediates /\ ~Exists(t, Front(p))) THEN {Failed(t)}
    ELSE {Failed(With(t, Directories({r \in Missing(t, p) : Len(r) < n}))) : n \in {Len(q) : q \in Missing(t, p)}}
         \cup {Done(With(t, Directories(Missing(t, p))))}

\* What is at or below p, as seen from there.
Subtree(t, p) ==
    [s \in {SubSeq(q, Len(p) + 1, Len(q)) : q \in Below(t, p)} |-> t[p \o s]]
Placed(sub, p) ==
    [q \in {p \o s : s \in DOMAIN sub} |-> sub[SubSeq(q, Len(p) + 1, Len(q))]]

Rename_(t, from, to) ==
    {Failed(t)} \cup
    (IF Exists(t, from) /\ ~Exists(t, to) /\ IsDir(t, Front(to))
     THEN {Done(With(Without(t, Below(t, from)), Placed(Subtree(t, from), to)))}
     ELSE {})

\* moveItem: what is in the way is removed, then the source renamed.
Move_(t, from, to, cover) ==
    IF Exists(t, to)
    THEN IF cover
         THEN UNION {IF r.ok THEN Rename_(r.tree, from, to) ELSE {r} : r \in Remove_(t, to)}
         ELSE {Failed(t)}
    ELSE Rename_(t, from, to)

\* What a copy takes along.
Listed(sub) == [s \in {r \in DOMAIN sub : ~Unlisted(<<>>, r)} |-> sub[s]]

\* What a copy cut short may have made of whole: some of its directories and
\* files, and of a file all, a part, or nothing.
Holding(content) == IF content = "dir" THEN {"dir"} ELSE {content, Nothing, Part}
Shortened(t, whole) ==
    UNION {{With(t, u) : u \in {v \in [ps -> UNION {Holding(whole[p]) : p \in ps}] :
                                 \A p \in ps : v[p] \in Holding(whole[p])}} :
           ps \in {qs \in SUBSET DOMAIN whole : WellFormed(With(t, [p \in qs |-> whole[p]]))}}

\* The directories above to are made as needed.  A file is copied through two streams,
\* and neither they, nor opendir, nor the directory made for a directory are looked at:
\* the copy goes on without and reports success.  Only the directory above a file is.
CopyTo(t, from, to) ==
    LET whole == With(Directories(Missing(t, Front(to))), Placed(Listed(Subtree(t, from)), to))
        short == Shortened(t, whole) \ {With(t, whole)}
    IN {Done(With(t, whole))} \cup {Failed(u) : u \in short} \cup
       {Faulty(u) : u \in {v \in short : IsDir(t, from) \/ Exists(v, Front(to))}}

Copy_(t, from, to, cover) ==
    IF ~Exists(t, from) \/ (Exists(t, to) /\ ~cover) THEN {Failed(t)}
    ELSE IF Exists(t, to)
         THEN UNION {IF r.ok THEN CopyTo(r.tree, from, to) ELSE {r} : r \in Remove_(t, to)}
         ELSE CopyTo(t, from, to)

\* cleanFile: opening with "w+" has emptied the file already.
Clean_(t, p) ==
    {Failed(t)} \cup (IF Exists(t, p) /\ ~IsDir(t, p)
                     THEN {Done([t EXCEPT ![p] = Nothing]), Failed([t EXCEPT ![p] = Nothing])}
                     ELSE {})

\* copyItem up to a percentage: a target that was there is emptied; a write
\* that fails is only reported on the console, a directory reads as nothing.
CopyPart_(t, from, to) ==
    {Failed(t)} \cup
    (IF Exists(t, from) /\ IsDir(t, Front(to)) /\ ~IsDir(t, to)
     THEN {Done(With(t, (to :> c))) : c \in {Nothing, Part} \cup ({t[from]} \ {"dir"})}
     ELSE {})

\* DirectoryIterator: what is no directory has no entries.  Sizes are
\* small numbers; there are no symbolic links.
SizeOf(content) == IF content = Nothing THEN 0 ELSE IF content = Part THEN 1 ELSE 2
ProcessEntry(t, q) == [path |-> q, name |-> Last(q),
                       type |-> IF IsDir(t, q) THEN "Directory" ELSE "File",
                       size |-> IF IsDir(t, q) THEN 0 ELSE SizeOf(t[q])]
Iterate(t, root, recursive) ==
    IF ~IsDir(t, root) THEN {}
    ELSE {ProcessEntry(t, q) :
            q \in {r \in Below(t, root) \ {root} : recursive \/ Len(r) = Len(root) + 1}}
OfType(t, root, recursive, type) == {e \in Iterate(t, root, recursive) : e.type = type}
FilesIn(t, root, recursive) == {e.path : e \in OfType(t, root, recursive, "File")}
DirectoriesIn(t, root, recursive) == {e.path : e \in OfType(t, root, recursive, "Directory")}
TotalSize(t, root, recursive) ==
    MapThenSumSet(LAMBDA e : e.size, OfType(t, root, recursive, "File"))
FileCount(t, root, recursive) == Cardinality(OfType(t, root, recursive, "File"))

Ends(op, from, to, outcomes) ==
    /\ last = NoCall
    /\ \E o \in outcomes :
         /\ tree' = o.tree
         /\ last' = [op |-> op, from |-> from, to |-> to, ok |-> o.ok, fault |-> o.fault, before |-> tree]

Reachable(p) == \A q \in Ancestors(p) \ {p} : ~Exists(tree, q) \/ IsDir(tree, q)
Apart(p, q) == ~IsPrefix(p, q) /\ ~IsPrefix(q, p)

CreateDirectoryAtPath(p, intermediates) == Ends("create", p, p, Create_(tree, p, intermediates))
RemoveItemAtPath(p) == Ends("remove", p, p, Remove_(tree, p))
RenameItem(p, q) == Ends("rename", p, q, Rename_(tree, p, q))
MoveItem(p, q, cover) == Ends("move", p, q, Move_(tree, p, q, cover))
CopyItem(p, q, cover) == Ends("copy", p, q, Copy_(tree, p, q, cover))
CleanFile(p) == Ends("clean", p, p, Clean_(tree, p))
CopyPart(p, q) == Ends("part", p, q, CopyPart_(tree, p, q))

Next ==
    \/ \E p \in {r \in Paths : Reachable(r)} :
         RemoveItemAtPath(p) \/ CleanFile(p) \/ \E i \in BOOLEAN : CreateDirectoryAtPath(p, i)
    \/ \E p, q \in {r \in Paths : Reachable(r)} :
         /\ Apart(p, q) /\ Exists(tree, p)
         /\ RenameItem(p, q) \/ CopyPart(p, q) \/ \E cover \in BOOLEAN : MoveItem(p, q, cover) \/ CopyItem(p, q, cover)

Spec == Init /\ [][Next]_vars

\* What is at the target of a copy comes from the source, though it may be cut short.
TakenFrom(sub, whole) ==
    \A r \in DOMAIN sub : r \in DOMAIN whole /\ sub[r] \in Holding(whole[r])

(***************************************************************************)
(* A move, rename or removal that reports success did exactly what it      *)
(* says: the whole source is at the target, or nothing is left.  One that  *)
(* fails half way leaves the source whole, and so does every copy.  A copy *)
(* puts nothing at the target but what the source holds, and all of that   *)
(* but .DS_Store unless a call failed; its answer does not tell: copyItem  *)
(* reports success when a stream or a mkdir failed.  Cleaning a file       *)
(* touches nothing but that file and never a directory.  Nothing else in   *)
(* the tree changes, but for directories made above the target.  A         *)
(* recursive listing shows what the listings of all directories show, and  *)
(* the files and sizes that were moved or copied (removeItemAtPath,        *)
(* moveItem, both copyItem, renameItem, createDirectoryAtPath, cleanFile,  *)
(* DirectoryIterator).                                                     *)
(***************************************************************************)
SourceSurvives == last.op # "none" =>
    LET b == last.before
        touched(p) == IsPrefix(last.from, p) \/ IsPrefix(last.to, p)
        complete == last.ok /\ ~last.fault IN
    /\ WellFormed(tree)
    /\ \A p \in DOMAIN b : ~touched(p) => p \in DOMAIN tree /\ tree[p] = b[p]
    /\ \A p \in DOMAIN tree \ DOMAIN b : touched(p) \/ (IsPrefix(p, last.to) /\ tree[p] = "dir")
    /\ last.op \in {"move", "rename"} /\ last.ok =>
         /\ Subtree(tree, last.to) = Subtree(b, last.from)
         /\ ~Exists(tree, last.from)
         /\ TotalSize(tree, last.to, TRUE) = TotalSize(b, last.from, TRUE)
    /\ last.op \in {"copy", "part"} \/ (last.op \in {"move", "rename"} /\ ~last.ok) =>
         Subtree(tree, last.from) = Subtree(b, last.from)
    /\ last.op = "copy" =>
         \/ TakenFrom(Subtree(tree, last.to), Listed(Subtree(b, last.from)))
         \/ ~last.ok /\ TakenFrom(Subtree(tree, last.to), Subtree(b, last.to))
    /\ last.op = "copy" /\ complete =>
         /\ Subtree(tree, last.to) = Listed(Subtree(b, last.from))
         /\ FileCount(tree, last.to, TRUE) = Cardinality({p \in FilesIn(b, last.from, TRUE) : Last(p) # DSStore})
    /\ last.op = "part" /\ last.ok => Exists(tree, last.to) /\ ~IsDir(tree, last.to)
    /\ last.op = "clean" => IF last.ok THEN ~IsDir(b, last.to) /\ tree = [b EXCEPT ![last.to] = Nothing]
                            ELSE tree = b \/ ~IsDir(b, last.to)
    /\ FilesIn(tree, <<>>, TRUE) = UNION {FilesIn(tree, d, FALSE) : d \in {<<>>} \cup DirectoriesIn(tree, <<>>, TRUE)}
    /\ last.op = "remove" /\ last.ok => ~Exists(tree, last.from)
    /\ last.op = "create" => (last.ok <=> tree # b /\ IsDir(tree, last.to))
=============================================================================

------------------------------- MODULE Paths -------------------------------
(***************************************************************************)
(* FilePath and the parts of StringUtils it uses (foundation/file/         *)
(* FilePath.cpp, foundation/string/StringUtils.cpp).  A path is a sequence *)
(* of characters and of names: "/" separates, other elements are names or  *)
(* parts of them.                                                          *)
(***************************************************************************)
EXTENDS Integers, Sequences, SequencesExt

\* split with a separator of one character: empty pieces are left out.
RECURSIVE SplitFrom(_, _, _)
SplitFrom(s, separator, piece) ==
    LET done == IF piece = <<>> THEN <<>> ELSE <<piece>> IN
    IF s = <<>> THEN done
    ELSE IF Head(s) = separator THEN done \o SplitFrom(Tail(s), separator, <<>>)
    ELSE SplitFrom(Tail(s), separator, Append(piece, Head(s)))
Split(s, separator) == SplitFrom(s, separator, <<>>)

Join(array, separator) ==
    FlattenSeq([i \in DOMAIN array |-> IF i = Len(array) THEN array[i] ELSE Append(array[i], separator)])

RECURSIVE ReplaceFrom(_, _, _)
ReplaceFrom(s, target, with) ==
    IF Len(s) < Len(target) THEN s
    ELSE IF IsPrefix(target, s)
         THEN with \o ReplaceFrom(SubSeq(s, Len(target) + 1, Len(s)), target, with)
         ELSE <<Head(s)>> \o ReplaceFrom(Tail(s), target, with)
Replace(s, target, with) ==
    IF s = <<>> \/ target = <<>> \/ with = <<>> THEN s ELSE ReplaceFrom(s, target, with)

Dot == <<".">>
DotDot == <<".", ".">>

\* extractPathComponents: a ".." takes the component before it away, and is
\* kept where there is none.
Extracted(stack, name) ==
    IF name = DotDot /\ stack # <<>> THEN Front(stack)
    ELSE IF name # Dot THEN Append(stack, name) ELSE stack
ExtractPathComponents(path) == FoldLeft(Extracted, <<>>, Split(path, "/"))

AssemblyPath(components) ==
    FlattenSeq([i \in DOMAIN components |-> <<"/">> \o components[i]])

ParentDir(components) ==
    IF components = <<>> THEN <<>>
    ELSE IF Len(components) = 1 THEN <<"/">> ELSE AssemblyPath(Front(components))

DisplayName(components) == IF components = <<>> THEN <<>> ELSE Last(components)
LastDot(fname) == LET dots == {i \in DOMAIN fname : fname[i] = "."} IN
                  IF dots = {} THEN 0 ELSE CHOOSE i \in dots : \A j \in dots : j <= i
HasExtension(fname) == LastDot(fname) \notin {0, Len(fname)}
Name(components) ==
    LET f == DisplayName(components) IN
    IF HasExtension(f) THEN SubSeq(f, 1, LastDot(f) - 1) ELSE f
ExtensionName(components) ==
    LET f == DisplayName(components) IN
    IF HasExtension(f) THEN SubSeq(f, LastDot(f) + 1, Len(f)) ELSE <<>>

PathString(components) == IF components = <<>> THEN <<>> ELSE AssemblyPath(components)
AppendTo(components, name) == PathString(components) \o <<"/">> \o name
\* The same as file paths again; the path "/" has no component.
Parent(components) == IF Len(components) <= 1 THEN <<>> ELSE Front(components)
AppendNode(components, name) == IF name = <<>> THEN components ELSE Append(components, name)

\* FileManager::displayNameAtPath, which cuts at a dot that ends the name too.
DisplayNameAtPath(path, hideExtension) ==
    LET name == DisplayName(ExtractPathComponents(path)) IN
    IF hideExtension /\ LastDot(name) > 0 THEN SubSeq(name, 1, LastDot(name) - 1) ELSE name

\* Reference: the node an absolute path leads to; ".." at the root stays.
Step(at, name) == IF name = Dot THEN at
                  ELSE IF name = DotDot THEN (IF at = <<>> THEN at ELSE Front(at))
                  ELSE Append(at, name)
Leads(path) == FoldLeft(Step, <<>>, Split(path, "/"))

(***************************************************************************)
(* For an absolute path: the normal form leads where the path leads and is *)
(* its own normal form unless it goes above the root;                      *)
(* splitting what was joined gives the pieces back; name and extension     *)
(* make up the display name; the parent of an appended node is the path it *)
(* was appended to; and replacing one character by another leaves none     *)
(* (FilePath, displayNameAtPath, StringUtils::split, join and replace).    *)
(***************************************************************************)
PathsLead(path) ==
    LET c == ExtractPathComponents(path)
        f == DisplayName(c)
    IN /\ Leads(AssemblyPath(c)) = Leads(path)
       /\ DotDot \notin ToSet(c) => ExtractPathComponents(AssemblyPath(c)) = c
       /\ Split(Join(c, "/"), "/") = c
       /\ Leads(ParentDir(c)) = IF Leads(path) = <<>> THEN <<>> ELSE Front(Leads(path))
       /\ HasExtension(f) => Name(c) \o <<".">> \o ExtensionName(c) = f
       /\ ~HasExtension(f) => Name(c) = f /\ ExtensionName(c) = <<>>
       /\ DisplayNameAtPath(path, TRUE) = IF f # <<>> /\ Last(f) = "." THEN Front(f) ELSE Name(c)
       /\ Leads(AssemblyPath(Parent(c))) = Leads(ParentDir(c))
       /\ \A name \in {<<"b">>, DotDot} :
            /\ Parent(AppendNode(c, name)) = c
            /\ AppendTo(c, name) = PathString(AppendNode(c, name))
       /\ "/" \notin ToSet(Replace(path, <<"/">>, <<":">>))
=============================================================================

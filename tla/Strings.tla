------------------------------ MODULE Strings ------------------------------
(***************************************************************************)
(* The functions of StringUtils that are not in Paths, and StringBuilder   *)
(* (foundation/string/StringUtils.cpp, StringBuilder.cpp), on sequences of *)
(* characters.  Positions count from 0, as in the code.                    *)
(***************************************************************************)
EXTENDS Naturals, Sequences, SequencesExt, FiniteSetsExt

\* str.substr(pos, len) and str.compare(pos, len, ...): the length is cut to what is there.
Substr(s, pos, len) == SubSeq(s, pos + 1, Min({pos + len, Len(s)}))

HasPrefix(str, prefix) == Len(str) >= Len(prefix) /\ Substr(str, 0, Len(prefix)) = prefix
HasSuffix(str, suffix) == /\ Len(str) >= Len(suffix)
                          /\ Substr(str, Len(str) - Len(suffix), Len(suffix)) = suffix

EscapePercent(str) == FlattenSeq([i \in DOMAIN str |->
                                    IF str[i] = "%" THEN <<"%", "%">> ELSE <<str[i]>>])

\* tolower and toupper, byte by byte; one letter stands for all.
ToLowerCase(str) == [i \in DOMAIN str |-> IF str[i] = "A" THEN "a" ELSE str[i]]
ToUpperCase(str) == [i \in DOMAIN str |-> IF str[i] = "a" THEN "A" ELSE str[i]]

\* What printf makes of a format without conversions: a pair of percents is one.
RECURSIVE Printed(_)
Printed(fmt) == IF fmt = <<>> THEN <<>>
                ELSE IF Head(fmt) = "%" THEN <<"%">> \o Printed(SubSeq(fmt, 3, Len(fmt)))
                ELSE <<Head(fmt)>> \o Printed(Tail(fmt))

\* The text is printed twice, for its length and then into that many bytes
\* and one for the terminating NUL.
StringWithFormat(fmt) ==
    LET len == Len(Printed(fmt)) + 1 IN Substr(Printed(fmt), 0, len - 1)

\* StringBuilder: a position or a count that is too large changes nothing.
Insert(buffer, pos, str) == IF pos <= Len(buffer)
                            THEN Substr(buffer, 0, pos) \o str \o Substr(buffer, pos, Len(buffer))
                            ELSE buffer
ReplaceIn(buffer, pos, len, str) ==
    IF pos <= Len(buffer)
    THEN Substr(buffer, 0, pos) \o str \o Substr(buffer, pos + len, Len(buffer))
    ELSE buffer
RemoveLast(buffer, count) == IF count <= Len(buffer)
                             THEN Substr(buffer, 0, Len(buffer) - count) ELSE buffer

\* Mutant: the character at the end position is left out.
TrimShort(buffer) ==
    LET others == {i \in 0..Len(buffer) - 1 : buffer[i + 1] # " "} IN
    IF others = {} THEN <<>> ELSE Substr(buffer, Min(others), Max(others) - Min(others))

\* find_first_not_of, find_last_not_of; the blank stands for the four white characters.
Trim(buffer) ==
    LET others == {i \in 0..Len(buffer) - 1 : buffer[i + 1] # " "} IN
    IF others = {} THEN <<>> ELSE Substr(buffer, Min(others), Max(others) - Min(others) + 1)

(***************************************************************************)
(* An escaped string is printed as it was; the case of letters is changed  *)
(* without loss of anything else; what was inserted can be found,          *)
(* and be taken out again by replace; removeLast undoes an append; and     *)
(* trim removes blanks at both ends only and all of them there             *)
(* (StringUtils::escapePercent, stringWithFormat, toLowerCase, toUpperCase,*)
(* hasPrefix, hasSuffix, StringBuilder).                                   *)
(***************************************************************************)
StringsKept(s, t) ==
    /\ StringWithFormat(EscapePercent(s)) = s
    /\ \A case \in {ToLowerCase(s), ToUpperCase(s)} :
         Len(case) = Len(s) /\ ToLowerCase(case) = ToLowerCase(s) /\ ToUpperCase(case) = ToUpperCase(s)
    /\ HasPrefix(ToLowerCase(s \o t), ToLowerCase(s)) /\ "A" \notin Range(ToLowerCase(s))
    /\ HasPrefix(s \o t, s) /\ HasSuffix(s \o t, t)
    /\ HasPrefix(s, t) <=> IsPrefix(t, s)
    /\ HasSuffix(s, t) <=> IsSuffix(t, s)
    /\ RemoveLast(s \o t, Len(t)) = s
    /\ \A pos \in 0..Len(s) :
         /\ HasPrefix(Substr(Insert(s, pos, t), pos, Len(t)), t)
         /\ ReplaceIn(Insert(s, pos, t), pos, Len(t), <<>>) = s
    /\ Insert(s, Len(s) + 1, t) = s
    /\ LET core == Trim(s) IN
         /\ core = Trim(core)
         /\ core # <<>> => Head(core) # " " /\ Last(core) # " "
         /\ \E pos \in 0..Len(s) : /\ Substr(s, pos, Len(core)) = core
                                   /\ \A i \in DOMAIN s : i \notin pos + 1..pos + Len(core) => s[i] = " "

=============================================================================

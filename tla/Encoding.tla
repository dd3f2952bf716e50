------------------------------ MODULE Encoding ------------------------------
(***************************************************************************)
(* EncodingConverter and UUID's text form (foundation/string/Encoding.cpp, *)
(* foundation/uuid/UUID.cpp).  Strings are sequences of bytes, of 16-bit   *)
(* units or of code points.  Shifts and masks are written as division and  *)
(* remainder.                                                              *)
(***************************************************************************)
EXTENDS Integers, Sequences, SequencesExt

\* The value of a continuation byte or of a lead byte's low bits.
Low(byte, n) == byte % (2^n)

Utf8CharLength(c) ==
    IF c < 128 THEN 1
    ELSE IF c \in 192..223 THEN 2
    ELSE IF c \in 224..239 THEN 3
    ELSE IF c \in 240..247 THEN 4
    ELSE 0

\* Mutant: without the shift of the top bits in a four-byte form.
EncodeShort(cp) == <<240, 128 + Low(cp \div 4096, 6), 128 + Low(cp \div 64, 6), 128 + Low(cp, 6)>>

EncodeLong(cp) == <<240 + cp \div 262144, 128 + Low(cp \div 4096, 6), 128 + Low(cp \div 64, 6), 128 + Low(cp, 6)>>

EncodeUtf8Char(cp) ==
    IF cp < 128 THEN <<cp>>
    ELSE IF cp < 2048 THEN <<192 + cp \div 64, 128 + Low(cp, 6)>>
    ELSE IF cp < 65536 THEN <<224 + cp \div 4096, 128 + Low(cp \div 64, 6), 128 + Low(cp, 6)>>
    ELSE EncodeLong(cp)

\* The code point of the len bytes from i on.
Decode(s, i, len) ==
    CASE len = 1 -> s[i]
      [] len = 2 -> Low(s[i], 5) * 64 + Low(s[i + 1], 6)
      [] len = 3 -> Low(s[i], 4) * 4096 + Low(s[i + 1], 6) * 64 + Low(s[i + 2], 6)
      [] len = 4 -> Low(s[i], 3) * 262144 + Low(s[i + 1], 6) * 4096
                        + Low(s[i + 2], 6) * 64 + Low(s[i + 3], 6)

RECURSIVE ValidFrom(_, _)
ValidFrom(s, i) ==
    IF i > Len(s) THEN TRUE
    ELSE LET len == Utf8CharLength(s[i]) IN
         /\ len # 0 /\ i + len - 1 <= Len(s)
         /\ \A j \in 1..len - 1 : s[i + j] \in 128..191
         /\ ValidFrom(s, i + len)
IsValidUtf8(s) == ValidFrom(s, 1)

RECURSIVE CountFrom(_, _)
CountFrom(s, i) ==
    IF i > Len(s) \/ Utf8CharLength(s[i]) = 0 THEN 0
    ELSE 1 + CountFrom(s, i + Utf8CharLength(s[i]))
Utf8CharCount(s) == CountFrom(s, 1)

Units(cp) == IF cp <= 65535 THEN <<cp>>
             ELSE <<55296 + (cp - 65536) \div 1024, 56320 + ((cp - 65536) % 1024)>>

\* A byte that begins nothing is passed over.
RECURSIVE ToUtf16From(_, _)
ToUtf16From(s, i) ==
    IF i > Len(s) THEN <<>>
    ELSE LET len == Utf8CharLength(s[i]) IN
         IF len = 0 \/ i + len - 1 > Len(s) THEN ToUtf16From(s, i + 1)
         ELSE Units(Decode(s, i, len)) \o ToUtf16From(s, i + len)
Utf8ToUtf16(s) == ToUtf16From(s, 1)

\* The code points of 16-bit units: a high and a low surrogate are one.
RECURSIVE PointsFrom(_, _)
PointsFrom(u, i) ==
    IF i > Len(u) THEN <<>>
    ELSE IF u[i] \in 55296..56319 /\ i < Len(u) /\ u[i + 1] \in 56320..57343
         THEN <<65536 + (u[i] - 55296) * 1024 + (u[i + 1] - 56320)>> \o PointsFrom(u, i + 2)
         ELSE <<u[i]>> \o PointsFrom(u, i + 1)

Utf32ToUtf8(cps) == FlattenSeq([i \in DOMAIN cps |-> EncodeUtf8Char(cps[i])])
Utf16ToUtf8(u) == Utf32ToUtf8(PointsFrom(u, 1))

\* decodeUtf8Char in a loop; on an invalid lead byte it never ends.
RECURSIVE ToUtf32From(_, _)
ToUtf32From(s, i) ==
    IF i > Len(s) THEN <<>>
    ELSE <<Decode(s, i, Utf8CharLength(s[i]))>> \o ToUtf32From(s, i + Utf8CharLength(s[i]))
Utf8ToUtf32(s) == ToUtf32From(s, 1)

\* StringUtils::byte2utf8string: of two or three bytes the first is encoded
\* again, in as many bytes, and the others are dropped.
RECURSIVE Byte2Utf8From(_, _)
Byte2Utf8From(s, i) ==
    IF i > Len(s) THEN <<>>
    ELSE LET ch == s[i] IN
         CASE ch < 128 -> <<ch>> \o Byte2Utf8From(s, i + 1)
           [] ch \in 128..223 ->
                (IF i < Len(s) THEN <<192 + ch \div 64, 128 + Low(ch, 6)>> ELSE <<>>)
                    \o Byte2Utf8From(s, i + 2)
           [] ch \in 224..239 ->
                (IF i + 1 < Len(s) THEN <<224, 128 + Low(ch \div 64, 6), 128 + Low(ch, 6)>> ELSE <<>>)
                    \o Byte2Utf8From(s, i + 3)
           [] OTHER -> Byte2Utf8From(s, i + 1)
Byte2Utf8String(s) == Byte2Utf8From(s, 1)

\* UUID: two hexadecimal digits a byte, with a hyphen, "-", before some;
\* parse drops hyphens and reads the digits two by two.
Hyphen == -1
Digits(byte) == <<byte \div 16, byte % 16>>
UuidToString(bytes, hyphenBefore) ==
    FlattenSeq([i \in DOMAIN bytes |->
        (IF i \in hyphenBefore THEN <<Hyphen>> ELSE <<>>) \o Digits(bytes[i])])
UuidParse(text, count) ==
    LET clean == SelectSeq(text, LAMBDA c : c # Hyphen) IN
    IF Len(clean) # 2 * count THEN <<>>
    ELSE [i \in 1..count |-> 16 * clean[2 * i - 1] + clean[2 * i]]

(***************************************************************************)
(* A text of code points, surrogates excepted, survives every conversion   *)
(* and back: UTF-8 is valid and has as many characters, UTF-16 and UTF-32  *)
(* of it give the same text, at the limits of each length as elsewhere;    *)
(* byte2utf8string gives of a text without four-byte characters as many,   *)
(* of which the ASCII ones are the same; and an identifier's text form     *)
(* gives it back, with hyphens or without (EncodingConverter,              *)
(* byte2utf8string, UUID::toString and parse).                             *)
(***************************************************************************)
TextSurvives(cps) ==
    LET utf8 == Utf32ToUtf8(cps)
        utf16 == FlattenSeq([i \in DOMAIN cps |-> Units(cps[i])])
        bytes == [i \in 1..Len(utf8) |-> utf8[i]]
    IN /\ IsValidUtf8(utf8) /\ Utf8CharCount(utf8) = Len(cps)
       /\ \A i \in DOMAIN utf8 : utf8[i] \in 0..255
       /\ Utf8ToUtf32(utf8) = cps
       /\ Utf8ToUtf16(utf8) = utf16 /\ Utf16ToUtf8(utf16) = utf8
       /\ (\A i \in DOMAIN cps : cps[i] < 65536) =>
            LET made == Byte2Utf8String(utf8) IN
            /\ Utf8CharCount(made) = Len(cps)
            /\ \A i \in DOMAIN cps : cps[i] < 128 => Utf8ToUtf32(made)[i] = cps[i]
       /\ \A hyphens \in {{}, {2, 3}} :
            UuidParse(UuidToString(bytes, hyphens), Len(bytes)) = bytes

(***************************************************************************)
(* Of any bytes, UTF-8 or not, byte2utf8string makes what isValidUtf8      *)
(* takes for UTF-8, and keeps the ASCII characters that no lead byte took  *)
(* along; utf8ToUtf16 passes over what it cannot read and ends             *)
(* (StringUtils::byte2utf8string, EncodingConverter::isValidUtf8 and       *)
(* utf8ToUtf16).                                                           *)
(***************************************************************************)
BytesEncoded(bytes) ==
    LET made == Byte2Utf8String(bytes)
        ascii(s) == SelectSeq(s, LAMBDA b : b < 128)
    IN /\ IsValidUtf8(made)
       /\ (\A i \in DOMAIN bytes : bytes[i] < 128 \/ bytes[i] >= 240) => made = ascii(bytes)
       /\ Len(ascii(made)) <= Len(ascii(bytes)) /\ Len(made) <= Len(bytes)
       /\ Len(Utf8ToUtf16(bytes)) <= Len(bytes)
       /\ IsValidUtf8(bytes) => Len(Utf8ToUtf16(bytes)) >= Utf8CharCount(bytes)
=============================================================================

-------------------------------- MODULE Ucs2 --------------------------------
(***************************************************************************)
(* uefi_to_ucs2 of uefi/ucs2.c: the name under which netboot_cmd_receive   *)
(* opens a file, from the path the server gave.                            *)
(*                                                                         *)
(* A path is a sequence of octets without the terminator, in UTF-8, and a  *)
(* name a sequence of 16-bit characters.                                   *)
(***************************************************************************)
EXTENDS Integers, Sequences

Octet == 1 .. 255

\* Mutant: a character of three octets is taken to have four.
ThreeAsFour(c0) ==
    IF c0 < 128 THEN 1 ELSE IF c0 \div 32 = 6 THEN 2 ELSE 4

\* By how much the index advances for a character that starts with c0.
Width(c0) ==
    IF c0 < 128 THEN 1
    ELSE IF c0 \div 32 = 6 THEN 2
    ELSE IF c0 \div 16 = 14 THEN 3 ELSE 4

\* By RFC 3629, the octets a character starts with and those it goes on with, how
\* many of these follow, and that a path consists of such characters.
Leading    == 1 .. 127 \cup 194 .. 244
Trailing   == 128 .. 191
Follow(c0) == IF c0 < 128 THEN 0 ELSE IF c0 < 224 THEN 1 ELSE IF c0 < 240 THEN 2 ELSE 3

IsUtf8(path) ==
    LET follows(i) == i \in DOMAIN path /\ path[i] \in Trailing
    IN /\ path \in Seq(Octet) /\ ~follows(1)
       /\ \A i \in DOMAIN path : ~follows(i) =>
             /\ path[i] \in Leading
             /\ \A k \in 1 .. Follow(path[i]) : follows(i + k)
             /\ ~follows(i + Follow(path[i]) + 1)

\* What is in memory at an offset from the start of the path: its octets, the
\* terminator, and then beyond.
MemoryAt(path, beyond, i) ==
    IF i < Len(path) THEN path[i + 1]
    ELSE IF i = Len(path) THEN 0 ELSE beyond[i - Len(path)]

\* The character at offset i.  The index is advanced first, and the octets after
\* the first are then read from one character too far: the terminator and at
\* most two octets beyond it are read in their place at the end of the path.
CharacterAt(path, beyond, i) ==
    LET c0 == path[i + 1]
        low(k) == MemoryAt(path, beyond, i + Width(c0) + k) % 64
    IN CASE Width(c0) = 1 -> c0
         [] Width(c0) = 2 -> (c0 % 32) * 64 + low(1)
         [] Width(c0) = 3 -> (c0 % 16) * 4096 + low(1) * 64 + low(2)
         [] Width(c0) = 4 -> 65532

uefi_to_ucs2(path, beyond) ==
    LET from[i \in 0 .. Len(path) + 3] ==
            IF i >= Len(path) THEN <<>>
            ELSE <<CharacterAt(path, beyond, i)>> \o from[i + Width(path[i + 1])]
    IN from[0]

\* The firmware reads a name up to the first zero.
UpToZero(name) ==
    LET n == CHOOSE n \in 0 .. Len(name) :
                /\ \A k \in 1 .. n : name[k] # 0
                /\ n = Len(name) \/ name[n + 1] = 0
    IN SubSeq(name, 1, n)

\* The first octets of the characters of a path that is UTF-8.
Leads(path) ==
    LET from[i \in 0 .. Len(path)] ==
            IF i = Len(path) THEN <<>>
            ELSE (IF path[i + 1] \in Trailing THEN <<>> ELSE <<path[i + 1]>>) \o from[i + 1]
    IN from[0]

\* What uefi_to_ucs2 may make of a character: an ASCII one stays what it is, any
\* other becomes something that is not ASCII, unless it starts with 224 (0xE0),
\* since its other octets are read from the wrong place.
Converted(lead, character) ==
    IF lead < 128 THEN character = lead ELSE character >= 128 \/ lead = 224

\* A name with a character for each one of a path, up to one that starts with 224
\* and may have become the terminator.
Resembles(name, path) ==
    LET leads == Leads(path)
    IN /\ Len(name) <= Len(leads)
       /\ \A k \in 1 .. Len(name) : Converted(leads[k], name[k])
       /\ Len(name) < Len(leads) => leads[Len(name) + 1] = 224
=============================================================================

------------------------------- MODULE Printf -------------------------------
(***************************************************************************)
(* vcbprintf of lib/vcbprintf.c and efi_printn of print.c, through which   *)
(* every message of the loader goes.                                       *)
(*                                                                         *)
(* A text is a sequence of one-character strings; a format is a text and   *)
(* its arguments are numbers and texts.  Positions count from one.  The    *)
(* callback of print.c reports every character as written, so the paths of *)
(* vcbprintf for one that does not are never taken.                        *)
(***************************************************************************)
EXTENDS Integers, Sequences

Flags     == {"#", "-", "+", " ", "0"}
Decimal   == <<"0", "1", "2", "3", "4", "5", "6", "7", "8", "9">>
Lower     == Decimal \o <<"a", "b", "c", "d", "e", "f">>
Upper     == Decimal \o <<"A", "B", "C", "D", "E", "F">>
DigitChar == {Decimal[d] : d \in 1 .. 10}

length_modifiers ==
    {<<"h", "h">>, <<"h">>, <<>>, <<"l">>, <<"l", "l">>, <<"L">>, <<"j">>, <<"z">>, <<"t">>}

\* The character at a position, and the terminator after the last.
CharAt(f, at) == IF at <= Len(f) THEN f[at] ELSE "NUL"

\* The first position from at on whose character is not in chars.
PastAll(f, at, chars) ==
    CHOOSE k \in at .. Len(f) + 1 :
        /\ CharAt(f, k) \notin chars
        /\ \A j \in at .. k - 1 : f[j] \in chars

Repeat(c, n) == [k \in 1 .. n |-> c]

DigitValue(c) == (CHOOSE d \in 1 .. 16 : Lower[d] = c \/ Upper[d] = c) - 1

\* What the digits from position a up to b, exclusive, add up to.
NumberAt(f, a, b) ==
    LET value[k \in a .. b] ==
            IF k = a THEN 0 ELSE value[k - 1] * 10 + DigitValue(f[k - 1])
    IN value[b]

-----------------------------------------------------------------------------
\* The conversion that follows the % before position at: flags, width ("*" is
\* an argument), precision, length modifier (the longest that matches).
Directive(f, at) ==
    LET a == PastAll(f, at, Flags)
        b == PastAll(f, a, DigitChar)
        c == IF CharAt(f, b) = "*" THEN b + 1 ELSE b
        d == IF CharAt(f, c) = "." THEN PastAll(f, c + 1, DigitChar) ELSE c
        matches == {m \in length_modifiers : \A j \in DOMAIN m : CharAt(f, d + j - 1) = m[j]}
        longest == CHOOSE m \in matches : \A n \in matches : Len(n) <= Len(m)
    IN [flags     |-> {f[k] : k \in at .. a - 1},
        star      |-> c > b,
        width     |-> NumberAt(f, a, b),
        precision |-> IF d > c THEN NumberAt(f, c + 1, d) ELSE -1,
        long_double |-> longest = <<"L">>,
        specifier |-> CharAt(f, d + Len(longest)),
        next      |-> d + Len(longest) + 1]

Integral == {"d", "i", "o", "p", "u", "x", "X"}

Known(d) ==
    \/ d.specifier \in {"%", "s", "c", "p"}
    \/ d.specifier \in Integral /\ ~d.long_double

Base(specifier) ==
    IF specifier \in {"x", "X", "p"} THEN 16 ELSE IF specifier = "o" THEN 8 ELSE 10

\* Mutant: the loop that counts digits stops at the base itself.
CountBelow(value, base) ==
    LET count[copy \in Nat] == IF base < copy THEN count[copy \div base] + 1 ELSE 1
    IN count[value]

CountDigits(value, base) ==
    LET count[copy \in Nat] == IF base <= copy THEN count[copy \div base] + 1 ELSE 1
    IN count[value]

\* The digits are counted first and then filled in from the last.
Buf(value, specifier) ==
    LET base == Base(specifier)
        conv == IF specifier = "X" THEN Upper ELSE Lower
        buf_length == CountDigits(value, base)
    IN [k \in 1 .. buf_length |-> conv[((value \div (base ^ (buf_length - k))) % base) + 1]]

Prefix(d, negative) ==
    LET sign == IF negative THEN <<"-">>
                ELSE IF "+" \in d.flags THEN <<"+">>
                ELSE IF " " \in d.flags THEN <<" ">> ELSE <<>>
        mark == IF d.specifier = "o" THEN <<"0">>
                ELSE IF d.specifier = "X" THEN <<"0", "X">>
                ELSE IF Base(d.specifier) = 16 THEN <<"0", "x">> ELSE <<>>
    IN sign \o (IF "#" \in d.flags THEN mark ELSE <<>>)

\* A number in its field.  With "-" the field is padded on the right, and
\* unless it is padded with zeros on the left as well.
Field(d, value, width) ==
    LET buf    == Buf(IF value < 0 THEN -value ELSE value, d.specifier)
        prefix == Prefix(d, value < 0)
        printed_width == IF d.precision > Len(buf) THEN d.precision ELSE Len(buf)
        used   == printed_width + Len(prefix)
        pad    == IF used > width THEN 0 ELSE width - used
        zero   == "0" \in d.flags
        minus  == "-" \in d.flags
    IN (IF zero THEN <<>> ELSE Repeat(" ", pad))
       \o prefix
       \o (IF zero /\ ~minus THEN Repeat("0", pad) ELSE <<>>)
       \o Repeat("0", printed_width - Len(buf)) \o buf
       \o (IF minus THEN Repeat(" ", pad) ELSE <<>>)

-----------------------------------------------------------------------------
\* Text up to the next %, which is at least the character at position from.
Block(f, s, from) ==
    LET next == CHOOSE k \in from + 1 .. Len(f) + 1 :
                    /\ CharAt(f, k) \in {"%", "NUL"}
                    /\ \A j \in from + 1 .. k - 1 : f[j] # "%"
    IN [s EXCEPT !.at = next, !.out = @ \o SubSeq(f, from, next - 1),
                 !.written = @ + (next - from)]

\* A conversion takes its arguments, prints and counts: the digits of a number
\* but neither its prefix nor its padding, and nothing for a %.
Convert(s, d) ==
    LET args  == IF d.star THEN Tail(s.args) ELSE s.args
        width == IF d.star THEN Head(s.args) ELSE d.width
        cut   == IF d.precision \in 0 .. Len(Head(args)) THEN d.precision ELSE Len(Head(args))
        put(text, count, rest) ==
            [s EXCEPT !.at = d.next, !.out = @ \o text, !.written = @ + count, !.args = rest]
    IN CASE d.specifier = "%" -> put(<<"%">>, 0, args)
         [] d.specifier = "s" -> put(SubSeq(Head(args), 1, cut), cut, Tail(args))
         [] d.specifier = "c" -> put(<<Head(args)>>, 1, Tail(args))
         [] OTHER -> put(Field(d, Head(args), width),
                         Len(Buf(IF Head(args) < 0 THEN -Head(args) ELSE Head(args),
                                 d.specifier)),
                         Tail(args))

\* Mutant: after a conversion it does not know, vcbprintf tries the next one.
TurnForgetting(f, s) ==
    IF s.at > Len(f) THEN s
    ELSE IF f[s.at] # "%" THEN Block(f, s, s.at)
    ELSE IF CharAt(f, s.at + 1) = "%" THEN Block(f, s, s.at + 1)
    ELSE LET d == Directive(f, s.at + 1)
         IN IF ~Known(d) THEN Block(f, s, s.at) ELSE Convert(s, d)

\* One turn of the outer loop.
Turn(f, s) ==
    IF s.at > Len(f) THEN s
    ELSE IF f[s.at] # "%" THEN Block(f, s, s.at)
    ELSE IF CharAt(f, s.at + 1) = "%" THEN Block(f, s, s.at + 1)
    ELSE LET d == Directive(f, s.at + 1)
         IN IF s.bad_conversion \/ ~Known(d)
            THEN [Block(f, s, s.at) EXCEPT !.bad_conversion = TRUE]
            ELSE Convert(s, d)

\* Every turn takes a character of the format at least.
vcbprintf(f, args) ==
    LET turns[n \in 0 .. Len(f)] ==
            IF n = 0
            THEN [at |-> 1, out |-> <<>>, written |-> 0, args |-> args,
                  bad_conversion |-> FALSE]
            ELSE Turn(f, turns[n - 1])
    IN turns[Len(f)]

\* Text as it is handed to the console, a line feed after a carriage return.
efi_printn(text) ==
    LET shown[k \in 0 .. Len(text)] ==
            IF k = 0 THEN <<>>
            ELSE shown[k - 1] \o (IF text[k] = "\n" THEN <<"\r", "\n">> ELSE <<text[k]>>)
    IN shown[Len(text)]

efi_printf(f, args) == efi_printn(vcbprintf(f, args).out)
=============================================================================

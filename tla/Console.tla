------------------------------ MODULE Console ------------------------------
(***************************************************************************)
(* What the loader says with efi_printf.  A message is a sequence of       *)
(* pieces, [spec, args]: some text, or one conversion with the arguments   *)
(* it takes; the format is all the specs and the argument list all the     *)
(* args, one after the other.                                              *)
(***************************************************************************)
EXTENDS Printf, SequencesExt

CONSTANT Reports   \* messages: sequences of pieces

VARIABLE shown     \* the last message with its text, a set of at most one

Report ==
    /\ shown = {}
    /\ \E r \in Reports :
          LET format == FlattenSeq([k \in DOMAIN r |-> r[k].spec])
              args   == FlattenSeq([k \in DOMAIN r |-> r[k].args])
          IN shown' = {[pieces |-> r, text |-> efi_printf(format, args)]}

-----------------------------------------------------------------------------
IsConversion(piece) == Len(piece.spec) > 1 /\ piece.spec[1] = "%" /\ piece.spec # <<"%", "%">>
IsUnknown(piece)    == IsConversion(piece) /\ ~Known(Directive(piece.spec, 2))

\* What a message shows is what its pieces show, in their order: no conversion
\* of vcbprintf has an influence on another through flags, arguments or the
\* position in the format.  The exception is a conversion it does not know: from
\* there on the format is shown as it is written, and no argument is taken.
MessagesComposed ==
    \A m \in shown :
        LET p == m.pieces
            plain(k) == \E j \in 1 .. k : IsUnknown(p[j])
        IN m.text = FlattenSeq([k \in DOMAIN p |->
                        IF plain(k) /\ IsConversion(p[k]) THEN p[k].spec
                        ELSE efi_printf(p[k].spec, p[k].args)])

\* The value of a numeral, whatever fills its field.
ReadBack(text, base) ==
    LET digits == SelectSeq(text, LAMBDA c : c \notin {" ", "+", "-", "x", "X"})
        value[k \in 0 .. Len(digits)] ==
            IF k = 0 THEN 0 ELSE value[k - 1] * base + DigitValue(digits[k])
    IN value[Len(digits)]

\* A number is shown so that it reads back as itself, whatever the flags, the
\* width and the precision, and its field is at least as wide as asked: the
\* status codes and lengths of the loader's messages can be relied upon.
NumbersReadBack ==
    \A m \in shown : \A k \in DOMAIN m.pieces :
        LET p     == m.pieces[k]
            d     == Directive(p.spec, 2)
            text  == efi_printf(p.spec, p.args)
            value == Last(p.args)
        IN IsConversion(p) /\ Known(d) /\ d.specifier \in Integral =>
               /\ ReadBack(text, Base(d.specifier)) = IF value < 0 THEN -value ELSE value
               /\ (value < 0) = ("-" \in ToSet(text))
               /\ Len(text) >= IF d.star THEN Head(p.args) ELSE d.width
=============================================================================

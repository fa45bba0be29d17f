------------------------------ MODULE Literals ------------------------------
(***************************************************************************)
(* What the text of a literal means (syntax/grammar/literals.cpp).  A text *)
(* is a sequence of code points.  An integer is exact or refused; the      *)
(* rounding of floats is left out: a float is a fraction.                  *)
(***************************************************************************)
EXTENDS Integers, Sequences, SequencesExt, TLC

CONSTANTS
    MaxCode,     \* the last code point (0x10ffff)
    Surrogates,  \* the code points that utf8 cannot encode
    CodeLimit    \* the largest value of a CodePoint (32 bits)

NoDigit == -1
\* The characters 0 to 9, a to f, A to F.
to_digit(c, base) ==
    CASE c \in 48 .. 57 /\ c - 48 < base -> c - 48
      [] c \in 97 .. 102 /\ base = 16 -> c - 87
      [] c \in 65 .. 70 /\ base = 16 -> c - 55
      [] OTHER -> NoDigit

Underscore == 95
Dot == 46
\* The prefixes 0x, 0o and 0b.
BasePrefixes == <<48, 120>> :> 16 @@ <<48, 111>> :> 8 @@ <<48, 98>> :> 2
read_base(text) ==
    IF Len(text) >= 2 /\ SubSeq(text, 1, 2) \in DOMAIN BasePrefixes
    THEN [base |-> BasePrefixes[SubSeq(text, 1, 2)], explicit |-> TRUE, rest |-> SubSeq(text, 3, Len(text))]
    ELSE [base |-> 10, explicit |-> FALSE, rest |-> text]

Failed(s) == s.error # "no"

\* The loop of parse_integer_impl for numbers up to max: the digits so far.
parse_integer_impl(text, max) ==
    LET start_ == read_base(text)
        read(s, c) ==
            LET d == to_digit(c, start_.base)
                v == s.value * start_.base + d
            IN  IF Failed(s) \/ c = Underscore THEN s
                ELSE IF d = NoDigit THEN [s EXCEPT !.error = "digit"]
                ELSE IF v > max THEN [s EXCEPT !.error = "large"]
                ELSE [s EXCEPT !.value = v, !.digits = @ + 1,
                               !.zeroes = @ + (IF s.value = 0 /\ d = 0 THEN 1 ELSE 0)]
        s == FoldLeft(read, [value |-> 0, digits |-> 0, zeroes |-> 0, error |-> "no"], start_.rest)
    IN  [value |-> s.value, explicit_base |-> start_.explicit,
         leading_zero |-> s.zeroes > (IF s.value = 0 THEN 1 ELSE 0),
         error |-> IF ~Failed(s) /\ s.digits = 0 THEN "empty" ELSE s.error]

\* Tuple fields: base ten, no leading zeroes, at most maxField.
parse_tuple_field(text, max, maxField) ==
    LET r == parse_integer_impl(text, max)
    IN  IF Failed(r) THEN r
        ELSE IF r.explicit_base THEN [r EXCEPT !.error = "base"]
        ELSE IF r.leading_zero THEN [r EXCEPT !.error = "zeroes"]
        ELSE IF r.value > maxField THEN [r EXCEPT !.error = "large"]
        ELSE r

\* Digits before and after the first point; the value is num / den.
parse_float_value(text) ==
    LET start_ == read_base(text)
        read(s, c) ==
            LET d == to_digit(c, start_.base)
            IN  IF Failed(s) \/ c = Underscore THEN s
                ELSE IF c = Dot /\ ~s.frac THEN [s EXCEPT !.frac = TRUE]
                ELSE IF d = NoDigit THEN [s EXCEPT !.error = "digit"]
                ELSE [s EXCEPT !.num = @ * start_.base + d, !.digits = @ + 1,
                               !.den = IF s.frac THEN @ * start_.base ELSE @]
        s == FoldLeft(read, [num |-> 0, den |-> 1, frac |-> FALSE, digits |-> 0, error |-> "no"], start_.rest)
    IN  IF ~Failed(s) /\ s.digits = 0 THEN [s EXCEPT !.error = "empty"] ELSE s

-----------------------------------------------------------------------------
\* Strings: what is read from position p on, and the position behind it.
Backslash == 92
Escapes == 110 :> 10 @@ 114 :> 13 @@ 116 :> 9 @@ 34 :> 34 @@ 39 :> 39 @@ 92 :> 92 @@ 36 :> 36
NoCode == -1

\* Exactly two digits; what was read before an error stays read.
parse_ascii_hex(text, p) ==
    LET digit(i) == IF i <= Len(text) THEN to_digit(text[i], 16) ELSE NoDigit
    IN  IF digit(p) = NoDigit THEN [code |-> NoCode, to |-> p]
        ELSE IF digit(p + 1) = NoDigit THEN [code |-> NoCode, to |-> p + 1]
        ELSE [code |-> 16 * digit(p) + digit(p + 1), to |-> p + 2]

\* Any number of digits in braces, as long as the value fits.
parse_unicode_hex(text, p) ==
    LET value[i \in p .. Len(text)] ==
            IF i = p THEN 0 ELSE 16 * value[i - 1] + to_digit(text[i], 16)
        \* The first place after the opening brace that is no digit or makes the value too large.
        stops == {i \in p + 1 .. Len(text) + 1 :
                    IF i > Len(text) THEN TRUE
                    ELSE to_digit(text[i], 16) = NoDigit \/ value[i] > CodeLimit}
        stop == CHOOSE i \in stops : \A j \in stops : i <= j
    IN  IF p > Len(text) THEN [code |-> NoCode, to |-> p]
        ELSE IF text[p] # 123 THEN [code |-> NoCode, to |-> p]
        ELSE IF stop > Len(text) THEN [code |-> NoCode, to |-> stop]
        ELSE IF to_digit(text[stop], 16) # NoDigit THEN [code |-> NoCode, to |-> stop + 1]
        ELSE IF text[stop] # 125 THEN [code |-> NoCode, to |-> stop]
        ELSE [code |-> IF stop = p + 1 THEN NoCode ELSE value[stop - 1], to |-> stop + 1]

\* Code points that utf8 can represent.
is_code_point_valid(c) == c \in 0 .. MaxCode /\ c \notin Surrogates

\* The content, without the sequences that are refused, and whether there were none.
parse_string_literal(text) ==
    LET put(c, r) == [r EXCEPT !.out = <<c>> \o @]
        bad(r) == [r EXCEPT !.success = FALSE]
        from[p \in 1 .. Len(text) + 1] ==
            IF p > Len(text) THEN [out |-> <<>>, success |-> TRUE]
            ELSE IF text[p] # Backslash THEN put(text[p], from[p + 1])
            ELSE IF p = Len(text) THEN [out |-> <<>>, success |-> FALSE]
            ELSE IF text[p + 1] \in DOMAIN Escapes THEN put(Escapes[text[p + 1]], from[p + 2])
            ELSE IF text[p + 1] \in {117, 120}
            THEN LET hex == IF text[p + 1] = 120 THEN parse_ascii_hex(text, p + 2)
                            ELSE parse_unicode_hex(text, p + 2)
                 IN  IF is_code_point_valid(hex.code) THEN put(hex.code, from[hex.to]) ELSE bad(from[hex.to])
            ELSE bad(from[p + 2])
    IN  from[1]
=============================================================================

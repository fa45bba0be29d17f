------------------------------ MODULE MCValues ------------------------------
(* Small integers, numerals and strings of a few characters.  The machine's  *)
(* strings change after one of the expressions.                              *)
EXTENDS Values, Strings

\* The characters 0, 1, 7, f, x, o, _ and the point.
MCNumerals == UNION {[1 .. n -> {48, 49, 55, 102, 120, 111, 95, 46}] : n \in 0 .. 4}
\* The characters \, n, x, u, {, }, 4 and f.
MCQuoted ==
    UNION {[1 .. n -> {92, 110, 120, 117, 123, 125, 52, 102}] : n \in 0 .. 4}
    \cup {<<92, 117, 123>> \o ds \o end :
            ds \in UNION {[1 .. n -> {52, 102}] : n \in 0 .. 3}, end \in {<<125>>, <<102, 125>>, <<125, 52>>}}

\* The x86-64 processor.
MCOutOfRange == MinInt
\* Floats have two significant bits (53 in the code): rounding is to a multiple of the unit
\* in the last place, to the even one in the middle between two.
MCNearest(h) ==
    LET unit == 2 ^ Cardinality({k \in 2 .. Width + 1 : 2 ^ k <= Abs(h)})
        down == Abs(h) \div unit
        rest == 2 * (Abs(h) % unit)
        up == rest > unit \/ (rest = unit /\ down % 2 = 1)
        m == IF up THEN down + 1 ELSE down
    IN  IF h < 0 THEN -(m * unit) ELSE m * unit

MCContents == {<<1>>, <<1, 2, 1>>}
MCSliceArgs == {-1, 1, 9}
\* Hashes with and without the flag's bit, zero, and a hash that is nothing but that bit.
MCHash(s) == IF s = <<>> THEN 0 ELSE IF s = <<1>> THEN 4 ELSE (3 * s[1] + 2 * Len(s) + s[Len(s)]) % 8

MCInit == Init /\ SInit
MCNext ==
    \/ Next /\ UNCHANGED svars
    \/ /\ expr.op = "UAdd" /\ expr.a = Null /\ executed.t # "Pending" /\ folded.t # "Pending"
       /\ SNext /\ UNCHANGED vars
MCSpec == MCInit /\ [][MCNext]_<<vars, svars>>
=============================================================================

------------------------------- MODULE Values -------------------------------
(***************************************************************************)
(* Operators on values, evaluated twice: by the machine (vm/math.cpp,      *)
(* vm/objects/value.cpp) when an instruction runs, and by the compiler     *)
(* (ir_gen/const_eval.cpp) when all operands are constants. Integers have  *)
(* Width bits. A float is a number of halves, or not a number; not all     *)
(* numbers are floats. What float arithmetic yields is left uninterpreted. *)
(* Constants begin as literals.                                            *)
(***************************************************************************)
EXTENDS Literals, FiniteSets, FiniteSetsExt

CONSTANTS
    Width,      \* bits of an integer (64 in the code)
    Embedded,   \* bits of an integer that is stored in the value itself
    nearest(_), \* the float nearest to a number of halves, in halves: the processor's rounding
    MaxHalves,  \* bound on floats, in halves
    OutOfRange, \* what a float that no integer can hold is converted to: undefined in C++
    Others,     \* strings and symbols (numbers that identify them)
    MaxField,   \* the largest index of a tuple field (32 bits in the code)
    Numerals,   \* texts of numbers
    Quoted      \* texts of strings, without their quotes

ASSUME WidthAssumption == Width \in Nat /\ Embedded \in 2 .. Width - 1
                          /\ MaxHalves \in Nat /\ Others \subseteq Nat
                          /\ MaxField \in Nat /\ Numerals \cup Quoted \subseteq Seq(Nat)

VARIABLES expr, executed, folded
vars == <<expr, executed, folded>>

MinInt == -(2 ^ (Width - 1))
MaxInt == 2 ^ (Width - 1) - 1

\* The smallest integer on x86-64, which one depends on the sign elsewhere.
ASSUME RangeAssumption ==
    OutOfRange \in {MinInt, MaxInt} /\ \A n \in MinInt .. MaxInt : nearest(2 * n) \in Int

Int_(n) == [t |-> "Integer", n |-> n]
Float_(n) == [t |-> "Float", n |-> n]
NaN == [t |-> "NaN", n |-> 0]
Bool(b) == [t |-> "Boolean", n |-> IF b THEN 1 ELSE 0]
Null == [t |-> "Null", n |-> 0]
Errors == {"overflow", "trap", "zero", "type", "unimplemented",
           "IntegerOverflow", "DivideByZero", "NegativeShift", "TypeError", "invalid"}
Error(e) == [t |-> e, n |-> 0]

Abs(n) == IF n < 0 THEN -n ELSE n

Operands ==
    {Int_(n) : n \in MinInt .. MaxInt} \cup {Float_(n) : n \in {h \in -MaxHalves .. MaxHalves : nearest(h) = h}}
        \cup {NaN, Null, Bool(TRUE), Bool(FALSE)} \cup {[t |-> "Other", n |-> o] : o \in Others}

is_integer(v) == v.t = "Integer"
is_float(v) == v.t \in {"Float", "NaN"}
is_numeric(v) == is_integer(v) \/ is_float(v)
\* "May lose precision."
convert_float(v) == IF is_integer(v) THEN Float_(nearest(2 * v.n)) ELSE v

Bitwise == {"LeftShift", "RightShift", "BitwiseAnd", "BitwiseOr", "BitwiseXor"}
Binary == {"Add", "Sub", "Mul", "Div", "Mod", "Pow", "Lt", "Lte", "Gt", "Gte", "Eq", "NEq"} \cup Bitwise
Unary == {"UAdd", "UNeg", "BNot", "LNot"}
LiteralKinds == {"IntegerLiteral", "TupleField", "FloatLiteral", "StringLiteral"}

---------------------------------------------------------------------------
\* Integers.

\* The checked operations of common/math.hpp: a value within range, or failure.
checked(n) == IF n \in MinInt .. MaxInt THEN Int_(n) ELSE Error("overflow")

Sign(a, b) == IF (a < 0) = (b < 0) THEN 1 ELSE -1
\* Division truncates, the remainder has the sign of the dividend.
Quotient(a, b) == Sign(a, b) * (Abs(a) \div Abs(b))
Remainder(a, b) == a - b * Quotient(a, b)

checked_div(a, b) ==
    IF a = MinInt /\ b = -1 THEN Error("overflow") ELSE Int_(Quotient(a, b))
checked_mod(a, b) ==
    IF a = MinInt /\ b = -1 THEN Error("overflow") ELSE Int_(Remainder(a, b))

\* The loop of both versions of pow: result, base and exponent before each
\* turn; it ends before the base is squared in vain.
\* Mutant: squares the base before it looks at the exponent.
power_squares_first(a, b) ==
    LET turn(s) ==
            IF s.stop THEN s
            ELSE LET r == IF s.b % 2 = 1 THEN checked(s.r * s.a) ELSE Int_(s.r)
                     q == checked(s.a * s.a)
                 IN  CASE r.t \in Errors \/ q.t \in Errors ->
                              [s EXCEPT !.stop = TRUE, !.out = Error("overflow")]
                       [] OTHER -> IF s.b \div 2 = 0
                                   THEN [s EXCEPT !.stop = TRUE, !.out = r]
                                   ELSE [s EXCEPT !.r = r.n, !.a = q.n, !.b = s.b \div 2]
        after[k \in 0 .. Width] ==
            IF k = 0 THEN [r |-> 1, a |-> a, b |-> b, stop |-> FALSE, out |-> Null]
            ELSE turn(after[k - 1])
    IN  after[Width].out
power(a, b) ==
    LET turn(s) ==
            IF s.stop THEN s
            ELSE LET r == IF s.b % 2 = 1 THEN checked(s.r * s.a) ELSE Int_(s.r)
                     q == checked(s.a * s.a)
                 IN  IF r.t \in Errors \/ s.b \div 2 = 0
                     THEN [s EXCEPT !.stop = TRUE, !.out = r]
                     ELSE IF q.t \in Errors
                     THEN [s EXCEPT !.stop = TRUE, !.out = q]
                     ELSE [s EXCEPT !.r = r.n, !.a = q.n, !.b = s.b \div 2]
        after[k \in 0 .. Width] ==
            IF k = 0 THEN [r |-> 1, a |-> a, b |-> b, stop |-> FALSE, out |-> Null]
            ELSE turn(after[k - 1])
    IN  after[Width].out

\* The integer operations of the machine.
ints(op, a, b) ==
    CASE op = "Add" -> checked(a + b)
      [] op = "Sub" -> checked(a - b)
      [] op = "Mul" -> checked(a * b)
      [] op = "Div" -> IF b = 0 THEN Error("zero") ELSE checked_div(a, b)
      [] op = "Mod" -> IF b = 0 THEN Error("zero") ELSE checked_mod(a, b)
      [] op = "Pow" -> IF b < 0
                       THEN IF a = 0 THEN Error("zero")
                            ELSE Int_(IF a = 1 \/ a = -1 THEN a ELSE 0)
                       ELSE power(a, b)

floats(op, a, b) == [t |-> "FloatResult", n |-> <<op, a, b>>]
Same(u, v) == u.t = v.t /\ u.n = v.n

binary_op(op, a, b) ==
    IF ~is_numeric(a) \/ ~is_numeric(b) THEN Error("type")
    ELSE IF is_float(a) \/ is_float(b) THEN floats(op, convert_float(a), convert_float(b))
    ELSE ints(op, a.n, b.n)

\* Only -1 is refused: the smallest integer overflows, with undefined result.
unary_minus(a) ==
    CASE is_integer(a) -> IF a.n = -1 THEN {Error("overflow")}
                          ELSE IF a.n = MinInt THEN {Int_(MinInt), Int_(0), Error("trap")}
                          ELSE {Int_(-a.n)}
      [] a.t = "Float" -> {Float_(-a.n)}
      [] a = NaN -> {NaN}
      [] OTHER -> {Error("type")}

---------------------------------------------------------------------------
\* Equality and order of the machine's values.

\* A float as integer: fractions are cut off.
truncated(f) ==
    LET whole == IF f.n < 0 THEN -(Abs(f.n) \div 2) ELSE f.n \div 2
    IN  IF whole \in MinInt .. MaxInt THEN whole ELSE OutOfRange
\* Equal if the float survives the way to integer and back.
int_float_equal(i, f) ==
    f.t = "Float" /\ nearest(2 * truncated(f)) = f.n /\ i = truncated(f)

\* Mutant: an integer is compared with the truncated float.
equal_truncates(a, b) ==
    CASE is_integer(a) /\ is_float(b) -> b.t = "Float" /\ b.n \div 2 = a.n
      [] is_float(a) /\ is_integer(b) -> a.t = "Float" /\ a.n \div 2 = b.n
      [] OTHER -> a = b /\ a # NaN
equal(a, b) ==
    CASE is_integer(a) /\ is_float(b) -> int_float_equal(a.n, b)
      [] is_float(a) /\ is_integer(b) -> int_float_equal(b.n, a)
      [] OTHER -> a = b /\ a # NaN

\* The order of numbers; null comes first. What is not comparable to a number
\* in either direction compares as equal to it.
compare(a, b) ==
    LET mixed == is_float(a) \/ is_float(b)
        x == IF mixed THEN convert_float(a) ELSE a
        y == IF mixed THEN convert_float(b) ELSE b
    IN  CASE a = Null /\ b = Null -> 0
          [] a = Null /\ b # Null -> -1
          [] a # Null /\ b = Null -> 1
          [] a # Null /\ b # Null /\ (a = NaN \/ b = NaN) /\ is_numeric(a) /\ is_numeric(b) -> 0
          [] is_numeric(a) /\ is_numeric(b) /\ a # NaN /\ b # NaN ->
                IF x.n > y.n THEN 1 ELSE IF x.n < y.n THEN -1 ELSE 0
          [] OTHER -> 2   \* not defined: an exception

\* How get_integer stores a number: embedded ones in [min, max] with the
\* negative ones behind the positive ones, others on the heap.
SmallMax == 2 ^ (Embedded - 1) - 1
SmallMin == -(2 ^ (Embedded - 1))
make_small(n) == IF n >= 0 THEN n ELSE SmallMax - n
small_value(raw) == IF raw <= SmallMax THEN raw ELSE -(raw - SmallMax)
get_integer(n) == IF n \in SmallMin .. SmallMax THEN small_value(make_small(n)) ELSE n

is_truthy(v) == v # Null /\ v # Bool(FALSE)

CmpResult(op, c) ==
    CASE op = "Lt" -> c < 0 [] op = "Lte" -> c <= 0 [] op = "Gt" -> c > 0 [] op = "Gte" -> c >= 0

\* An instruction: the results it can have.
execute(op, a, b) ==
    CASE op \in {"Add", "Sub", "Mul", "Div", "Mod", "Pow"} -> {binary_op(op, a, b)}
      [] op \in {"Lt", "Lte", "Gt", "Gte"} ->
            {IF compare(a, b) = 2 THEN Error("type") ELSE Bool(CmpResult(op, compare(a, b)))}
      [] op = "Eq" -> {Bool(equal(a, b))}
      [] op = "NEq" -> {Bool(~equal(a, b))}
      [] op = "UAdd" -> {IF is_numeric(a) THEN a ELSE Error("type")}
      [] op = "UNeg" -> unary_minus(a)
      [] op = "BNot" -> {IF is_integer(a) THEN Int_(-a.n - 1) ELSE Error("type")}
      [] op = "LNot" -> {Bool(~is_truthy(a))}
      [] op \in Bitwise -> {Error("unimplemented")}

---------------------------------------------------------------------------
\* The same operations in the compiler.

is_equal(a, b) ==
    CASE is_integer(a) /\ is_float(b) -> int_float_equal(a.n, b)
      [] is_float(a) /\ is_integer(b) -> int_float_equal(b.n, a)
      [] OTHER -> a = b /\ a # NaN

numeric_compare(op, a, b) ==
    LET mixed == is_float(a) \/ is_float(b)
        x == IF mixed THEN convert_float(a) ELSE a
        y == IF mixed THEN convert_float(b) ELSE b
    IN  IF ~is_numeric(a) \/ ~is_numeric(b) THEN Error("TypeError")
        ELSE IF is_equal(a, b) THEN Bool(CmpResult(op, 0))
        ELSE IF a = NaN \/ b = NaN THEN Bool(CmpResult(op, 0))
        ELSE Bool(CmpResult(op, IF x.n < y.n THEN -1 ELSE IF x.n > y.n THEN 1 ELSE 0))

\* Integers as words without sign, and back.
unsigned(n) == n % 2 ^ Width
to_signed(w) == IF w <= MaxInt THEN w ELSE (w - 2 ^ (Width - 1)) + MinInt
Bits(n) == {k \in 0 .. Width - 1 : (unsigned(n) \div 2 ^ k) % 2 = 1}
word(bits) == MapThenSumSet(LAMBDA k : 2 ^ k, bits)

eval_shift(op, a, b) ==
    IF b < 0 THEN Error("NegativeShift")
    ELSE IF b > Width - 1 THEN Error("IntegerOverflow")
    ELSE IF op = "LeftShift" THEN Int_(to_signed((unsigned(a) * 2 ^ b) % 2 ^ Width))
    ELSE Int_(to_signed(unsigned(a) \div 2 ^ b))

eval_bitwise(op, a, b) ==
    CASE op = "BitwiseAnd" -> Int_(to_signed(word(Bits(a) \cap Bits(b))))
      [] op = "BitwiseOr" -> Int_(to_signed(word(Bits(a) \cup Bits(b))))
      [] op = "BitwiseXor" -> Int_(to_signed(word((Bits(a) \cup Bits(b)) \ (Bits(a) \cap Bits(b)))))

eval_ints(op, a, b) ==
    CASE op = "Add" -> checked(a + b)
      [] op = "Sub" -> checked(a - b)
      [] op = "Mul" -> checked(a * b)
      [] op = "Div" -> IF b = 0 THEN Error("DivideByZero") ELSE checked_div(a, b)
      [] op = "Mod" -> IF b = 0 THEN Error("DivideByZero") ELSE checked_mod(a, b)
      [] op = "Pow" -> IF b < 0
                       THEN IF a = 0 THEN Error("DivideByZero")
                            ELSE Int_(IF a = 1 \/ a = -1 THEN a ELSE 0)
                       ELSE power(a, b)

eval_binary_operation(op, a, b) ==
    CASE op \in {"Add", "Sub", "Mul", "Div", "Mod", "Pow"} ->
            IF ~is_numeric(a) \/ ~is_numeric(b) THEN Error("TypeError")
            ELSE IF is_integer(a) /\ is_integer(b) THEN eval_ints(op, a.n, b.n)
            ELSE floats(op, convert_float(a), convert_float(b))
      [] op \in {"Lt", "Lte", "Gt", "Gte"} -> numeric_compare(op, a, b)
      [] op \in Bitwise ->
            IF ~is_integer(a) \/ ~is_integer(b) THEN Error("TypeError")
            ELSE IF op \in {"LeftShift", "RightShift"} THEN eval_shift(op, a.n, b.n)
            ELSE eval_bitwise(op, a.n, b.n)
      [] op = "Eq" -> Bool(is_equal(a, b))
      [] op = "NEq" -> Bool(~is_equal(a, b))

eval_unary_operation(op, a) ==
    CASE op = "LNot" -> Bool(a = Null \/ a = Bool(FALSE))
      [] op = "BNot" -> IF is_integer(a) THEN Int_(-a.n - 1) ELSE Error("TypeError")
      [] op = "UAdd" -> IF is_numeric(a) THEN a ELSE Error("TypeError")
      [] op = "UNeg" -> IF is_integer(a) THEN checked(-a.n)
                        ELSE IF a.t = "Float" THEN Float_(-a.n)
                        ELSE IF a = NaN THEN NaN ELSE Error("TypeError")

eval(op, a, b) ==
    IF op \in Unary THEN eval_unary_operation(op, a) ELSE eval_binary_operation(op, a, b)

\* A literal in the source: its value, or a diagnostic.
literal(kind, text) ==
    LET integer == parse_integer_impl(text, MaxInt)
        field == parse_tuple_field(text, MaxInt, MaxField)
        float == parse_float_value(text)
        string == parse_string_literal(text)
    IN  CASE kind = "IntegerLiteral" -> IF Failed(integer) THEN Error("invalid") ELSE Int_(integer.value)
          [] kind = "TupleField" -> IF Failed(field) THEN Error("invalid") ELSE Int_(field.value)
          [] kind = "FloatLiteral" ->
                IF Failed(float) THEN Error("invalid") ELSE [t |-> "FloatResult", n |-> <<float.num, float.den>>]
          [] kind = "StringLiteral" ->
                IF string.success THEN [t |-> "String", n |-> string.out] ELSE Error("invalid")

---------------------------------------------------------------------------
Pending == [t |-> "Pending", n |-> 0]

Init ==
    /\ \/ expr \in [op : Binary, a : Operands, b : Operands]
       \/ expr \in [op : Unary, a : Operands, b : {Null}]
       \/ expr \in [op : LiteralKinds \ {"StringLiteral"}, a : [t : {"Text"}, n : Numerals], b : {Null}]
       \/ expr \in [op : {"StringLiteral"}, a : [t : {"Text"}, n : Quoted], b : {Null}]
    /\ executed = Pending /\ folded = Pending

\* The compiler meets the operation with constant operands ...
Fold == /\ folded.t = "Pending" /\ expr.op \notin LiteralKinds
        /\ folded' = eval(expr.op, expr.a, expr.b)
        /\ UNCHANGED <<expr, executed>>
\* ... and the machine executes it with the same operands.
Execute == /\ executed.t = "Pending" /\ expr.op \notin LiteralKinds
           /\ executed' \in execute(expr.op, expr.a, expr.b)
           /\ UNCHANGED <<expr, folded>>

\* A literal is read when the abstract syntax tree is built.
ReadLiteral == /\ folded.t = "Pending" /\ expr.op \in LiteralKinds
               /\ folded' = literal(expr.op, expr.a.n)
               /\ UNCHANGED <<expr, executed>>

Next == Fold \/ Execute \/ ReadLiteral
Spec == Init /\ [][Next]_vars

---------------------------------------------------------------------------
\* Whatever machine and compiler compute is a value: results of integer operations are in range.
TypeOK ==
    /\ expr.op \in Binary \cup Unary \cup LiteralKinds
    /\ executed.t \in Errors \cup {"Pending", "Integer", "Float", "NaN", "FloatResult", "Boolean"}
    /\ folded.t \in Errors \cup {"Pending", "Integer", "Float", "NaN", "FloatResult", "Boolean", "String"}
    /\ executed.t = "Integer" => executed.n \in MinInt .. MaxInt
    /\ folded.t = "Integer" => folded.n \in MinInt .. MaxInt

\* The mathematical result; a power with a negative exponent is a fraction of
\* which the whole part is taken, like that of a quotient.
Exact ==
    LET a == expr.a.n  b == expr.b.n
    IN  CASE expr.op = "Add" -> a + b [] expr.op = "Sub" -> a - b [] expr.op = "Mul" -> a * b
          [] expr.op = "UNeg" -> -a
          [] expr.op = "Pow" /\ b >= 0 -> IF b = 0 THEN 1 ELSE a ^ b
          [] expr.op = "Pow" /\ b < 0 -> IF Abs(a) # 1 THEN 0 ELSE IF b % 2 = 0 THEN 1 ELSE a
          [] expr.op = "Div" -> CHOOSE q \in -(2 ^ Width) .. 2 ^ Width :
                /\ Abs(q * b) <= Abs(a) /\ Abs(a - q * b) < Abs(b) /\ q * a * b >= 0
          [] expr.op = "Mod" -> CHOOSE r \in -(2 ^ Width) .. 2 ^ Width :
                /\ Abs(r) < Abs(b) /\ r * a >= 0 /\ \E q \in -(2 ^ Width) .. 2 ^ Width : a = q * b + r

\* There is no mathematical result.
Impossible ==
    \/ expr.op \in {"Div", "Mod"} /\ expr.b.n = 0
    \/ expr.op = "Pow" /\ expr.a.n = 0 /\ expr.b.n < 0

\* What is wrong in the machine: minus one cannot be negated, negating the smallest
\* integer is undefined, and minus one to a negative even power is minus one.
WrongArithmetic ==
    \/ expr.op = "UNeg" /\ expr.a.n \in {-1, MinInt}
    \/ expr.op = "Pow" /\ expr.a.n = -1 /\ expr.b.n < 0 /\ expr.b.n % 2 = 0

\* Integer operators of the machine return the mathematical result or, only if
\* there is none within the range of integers, panic: no wrap around at either
\* end, no overflow reported for an intermediate result that is not needed. What
\* WrongArithmetic lists is left out.
ArithmeticExact ==
    (executed.t # "Pending" /\ is_integer(expr.a)
        /\ (expr.op = "UNeg" \/ (is_integer(expr.b) /\ expr.op \in {"Add", "Sub", "Mul", "Div", "Mod", "Pow"}))
        /\ ~WrongArithmetic) =>
            IF Impossible THEN executed.t = "zero"
            ELSE \/ Same(executed, Int_(Exact))
                 \/ executed.t = "overflow" /\ Exact \notin MinInt .. MaxInt
                 \* The remainder exists, but the processor traps.
                 \/ executed.t = "overflow" /\ expr.op = "Mod" /\ expr.b.n = -1 /\ expr.a.n = MinInt

\* A folded shift or bit operation is the one on words without sign: a left shift
\* drops the high bits, a right shift fills with zeroes, and the bits of two words
\* add up to those that differ and twice those that are common.
BitsExact ==
    LET a == expr.a.n  b == expr.b.n
        result(op) == unsigned(eval(op, expr.a, expr.b).n)
    IN  (folded.t = "Integer" /\ expr.op \in Bitwise) =>
            CASE expr.op = "LeftShift" -> b \in 0 .. Width - 1 /\ (folded.n - a * 2 ^ b) % 2 ^ Width = 0
              [] expr.op = "RightShift" -> /\ b \in 0 .. Width - 1
                                           /\ unsigned(folded.n) * 2 ^ b \in unsigned(a) - 2 ^ b + 1 .. unsigned(a)
              [] OTHER -> /\ unsigned(a) + unsigned(b) = result("BitwiseXor") + 2 * result("BitwiseAnd")
                          /\ result("BitwiseOr") = result("BitwiseXor") + result("BitwiseAnd")

\* Folding does not change a program: where both compiler and machine can compute the
\* operation, they have the same result. Left out are the negation of minus one, which the
\* machine refuses, and the shifts and bit operations, which it does not know.
FoldingAgrees ==
    (folded.t # "Pending" /\ executed.t # "Pending" /\ folded.t \notin Errors /\ expr.op \notin Bitwise
        /\ ~(expr.op = "UNeg" /\ expr.a = Int_(-1))) =>
        Same(executed, folded)

\* Integers survive being stored in a value, embedded or not.
IntegersStored ==
    executed.t = "Integer" => get_integer(executed.n) = executed.n

\* What a numeral means: the digits behind the prefix, each with its weight.
Base(text) == read_base(text).base
DigitsOf(text) == SelectSeq(read_base(text).rest, LAMBDA c : c # Underscore)
Sound(ds, base) == ds # <<>> /\ \A i \in DOMAIN ds : to_digit(ds[i], base) # NoDigit
NumberOf(ds, base) == MapThenSumSet(LAMBDA i : to_digit(ds[i], base) * base ^ (Len(ds) - i), DOMAIN ds)
IsIntegerText(text) ==
    Sound(DigitsOf(text), Base(text)) /\ NumberOf(DigitsOf(text), Base(text)) <= MaxInt
IsFieldText(text) ==
    LET ds == DigitsOf(text)
    IN  /\ IsIntegerText(text) /\ Base(text) = 10
        /\ Len(ds) > 1 => ds[1] # 48
        /\ NumberOf(ds, 10) <= MaxField

\* The ways to write one character in a string.
Hex == {c \in 48 .. 102 : to_digit(c, 16) # NoDigit}
UsedHex == {c \in Hex : \E q \in Quoted : c \in ToSet(q)}
Forms(n) ==
    {<<<<c>>, c>> : c \in UNION {ToSet(q) : q \in Quoted} \ {Backslash}}
    \cup {<<<<Backslash, c>>, Escapes[c]>> : c \in DOMAIN Escapes}
    \cup {<<<<Backslash, 120, c, d>>, NumberOf(<<c, d>>, 16)>> : c, d \in UsedHex}
    \cup {<<<<Backslash, 117, 123>> \o ds \o <<125>>, NumberOf(ds, 16)>> :
            ds \in UNION {[1 .. k -> UsedHex] : k \in 1 .. n}}
\* The contents that a text of well formed characters can have: one, or none.
Readings(text) ==
    LET forms == {f \in Forms(3) : is_code_point_valid(f[2])}
        upto[p \in 0 .. Len(text)] ==
            IF p = 0 THEN {<<>>}
            ELSE UNION {{Append(out, f[2]) : out \in upto[p - Len(f[1])]} :
                    f \in {g \in forms : Len(g[1]) <= p /\ SubSeq(text, p - Len(g[1]) + 1, p) = g[1]}}
    IN  upto[Len(text)]

\* A literal has the value its digits and escape sequences stand for, whatever underscores,
\* prefixes and zeroes it has, and is refused exactly if it has none: no overflow at the last
\* digit, no escape sequence that runs over the end or takes too much.
LiteralsExact ==
    (folded.t # "Pending" /\ expr.op \in LiteralKinds) =>
        LET text == expr.a.n
            ds == DigitsOf(text)
            point == {i \in DOMAIN ds : ds[i] = Dot}
            plain == SelectSeq(ds, LAMBDA c : c # Dot)
        IN  CASE expr.op = "IntegerLiteral" ->
                    folded = IF IsIntegerText(text) THEN Int_(NumberOf(ds, Base(text))) ELSE Error("invalid")
              [] expr.op = "TupleField" ->
                    folded = IF IsFieldText(text) THEN Int_(NumberOf(ds, 10)) ELSE Error("invalid")
              [] expr.op = "FloatLiteral" ->
                    IF Sound(plain, Base(text)) /\ Cardinality(point) <= 1
                    THEN /\ folded.t = "FloatResult"
                         /\ folded.n[1] = NumberOf(plain, Base(text))
                         /\ folded.n[2] = Base(text) ^ (IF point = {} THEN 0 ELSE Len(ds) - Max(point))
                    ELSE folded.t = "invalid"
              [] expr.op = "StringLiteral" ->
                    IF Readings(text) = {} THEN folded.t = "invalid"
                    ELSE folded.t = "String" /\ Readings(text) = {folded.n}

\* The integer i lies beside float f, but is the same as float.
LosesPrecision(i, f) == is_integer(i) /\ f.t = "Float" /\ 2 * i.n # f.n /\ convert_float(i) = f

\* The order is the one of equality: two numbers are equal exactly if neither
\* is before the other; and the order is the same seen from both sides. Left out
\* are an integer and a float that are different, but cannot be told apart after the
\* conversion, and what is not a number.
OrderConsistent ==
    (executed.t # "Pending" /\ expr.op \in {"Lt", "Lte", "Gt", "Gte"}
        /\ is_numeric(expr.a) /\ is_numeric(expr.b)) =>
            /\ compare(expr.a, expr.b) = -compare(expr.b, expr.a)
            /\ expr.a = NaN \/ expr.b = NaN \/ LosesPrecision(expr.a, expr.b) \/ LosesPrecision(expr.b, expr.a)
                  \/ ((compare(expr.a, expr.b) = 0) <=> equal(expr.a, expr.b))

\* Integers are exact from the text of a literal through every operator to the word they are
\* stored in, or the program is told, but for what WrongArithmetic lists (math.cpp, literals.cpp,
\* primitives.cpp, const_eval.cpp).
IntegersExact == TypeOK /\ ArithmeticExact /\ BitsExact /\ IntegersStored /\ LiteralsExact

\* Compiler and machine agree about every operator that both have, the negation of minus one
\* apart, and order and equality agree where integers do not lose precision as floats
\* (const_eval.cpp, math.cpp, value.cpp).
OperatorsAgree == FoldingAgrees /\ OrderConsistent
=============================================================================

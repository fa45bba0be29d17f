---------------------------- MODULE ValuesProofs ----------------------------
(***************************************************************************)
(* Proofs about the operators on values, for integers of any width, and    *)
(* about strings, for any contents and any hash function.                  *)
(***************************************************************************)
EXTENDS Values, Strings, WellFoundedInduction, TLAPS

Arithmetic == {"Add", "Sub", "Mul", "Div", "Mod", "Pow"}
Comparison == {"Lt", "Lte", "Gt", "Gte"}

\* The operators and operands of an expression.
Operations ==
    [op : Binary, a : Operands, b : Operands] \cup [op : Unary, a : Operands, b : {Null}]

\* What both sides have computed belongs to the expression.
ResultsOK ==
    /\ expr \in Operations \/ expr.op \in LiteralKinds
    /\ executed = Pending \/ (expr.op \notin LiteralKinds /\ executed \in execute(expr.op, expr.a, expr.b))
    /\ folded = Pending \/ expr.op \in LiteralKinds \/ folded = eval(expr.op, expr.a, expr.b)

LEMMA OperandKinds ==
    ASSUME NEW v \in Operands
    PROVE  /\ v.t \in {"Integer", "Float", "NaN", "Null", "Boolean", "Other"}
           /\ v.t \in {"Integer", "Float"} => v.n \in Int
           /\ v = [t |-> v.t, n |-> v.n]
           /\ v.t = "NaN" <=> v = NaN
           /\ v.t = "Null" <=> v = Null
  BY WidthAssumption DEF Operands, Int_, Float_, NaN, Null, Bool

LEMMA ArithmeticAgrees ==
    ASSUME NEW op \in Arithmetic, NEW a \in Operands, NEW b \in Operands,
           NEW x \in execute(op, a, b), eval(op, a, b).t \notin Errors
    PROVE  x = eval(op, a, b)
  <1>1. x = binary_op(op, a, b)
    BY DEF execute, Arithmetic, Bitwise
  <1>2. eval(op, a, b) = eval_binary_operation(op, a, b)
    BY DEF eval, Unary, Arithmetic
  <1>3. eval(op, a, b) =
            IF ~is_numeric(a) \/ ~is_numeric(b) THEN Error("TypeError")
            ELSE IF is_integer(a) /\ is_integer(b) THEN eval_ints(op, a.n, b.n)
            ELSE floats(op, convert_float(a), convert_float(b))
    BY <1>2 DEF eval_binary_operation, Arithmetic, Bitwise
  <1>4. is_numeric(a) /\ is_numeric(b)
    BY <1>3 DEF Error, Errors
  <1>5. CASE is_integer(a) /\ is_integer(b)
    <2>1. x = ints(op, a.n, b.n)
      BY <1>1, <1>4, <1>5 DEF binary_op, is_integer, is_float
    <2>2. eval(op, a, b) = eval_ints(op, a.n, b.n)
      BY <1>3, <1>4, <1>5
    <2>3. eval_ints(op, a.n, b.n).t \notin Errors => eval_ints(op, a.n, b.n) = ints(op, a.n, b.n)
      BY DEF eval_ints, ints, Error, Errors, Arithmetic
    <2> QED BY <2>1, <2>2, <2>3
  <1>6. CASE ~(is_integer(a) /\ is_integer(b))
    BY <1>1, <1>3, <1>4, <1>6 DEF binary_op, is_numeric, is_integer, is_float
  <1> QED BY <1>5, <1>6

\* A number as it is compared with a float.
LEMMA FloatOf ==
    ASSUME NEW v \in Operands, is_numeric(v), v # NaN
    PROVE  /\ convert_float(v) = Float_(convert_float(v).n) /\ convert_float(v).n \in Int
           /\ is_integer(v) => convert_float(v).n = nearest(2 * v.n) /\ v.n \in Int
           /\ ~is_integer(v) => convert_float(v) = v /\ v.t = "Float" /\ v = Float_(v.n) /\ v.n \in Int
  <1>1. CASE is_integer(v)
    <2>1. v.n \in MinInt .. MaxInt /\ v.n \in Int
      BY <1>1, OperandKinds DEF Operands, Int_, Float_, NaN, Null, Bool, is_integer
    <2>2. nearest(2 * v.n) \in Int
      BY <2>1, RangeAssumption
    <2> QED BY <1>1, <2>1, <2>2 DEF convert_float, Float_
  <1>2. CASE ~is_integer(v)
    BY <1>2, OperandKinds DEF convert_float, Float_, is_numeric, is_integer, is_float, NaN
  <1> QED BY <1>1, <1>2

\* An integer that equals a float is converted to it.
LEMMA EqualFloat ==
    ASSUME NEW i \in Operands, NEW f \in Operands, is_integer(i), is_float(f), int_float_equal(i.n, f)
    PROVE  convert_float(i) = f /\ f # NaN
  <1>1. f.t = "Float" /\ nearest(2 * i.n) = f.n
    BY DEF int_float_equal
  <1> QED BY <1>1, OperandKinds DEF convert_float, Float_, NaN

\* The order of two numbers.
Before(a, b) ==
    IF is_float(a) \/ is_float(b) THEN convert_float(a).n < convert_float(b).n ELSE a.n < b.n

LEMMA CompareIs ==
    ASSUME NEW a \in Operands, NEW b \in Operands, is_numeric(a), is_numeric(b)
    PROVE  compare(a, b) = IF a = NaN \/ b = NaN THEN 0
                           ELSE IF Before(b, a) THEN 1 ELSE IF Before(a, b) THEN -1 ELSE 0
  <1>1. a # Null /\ b # Null
    BY DEF is_numeric, is_integer, is_float, Null
  <1>2. CASE a = NaN \/ b = NaN
    BY <1>1, <1>2 DEF compare
  <1>3. CASE a # NaN /\ b # NaN
    <2>1. CASE is_float(a) \/ is_float(b)
      <3>1. convert_float(a).n \in Int /\ convert_float(b).n \in Int
        BY <1>3, FloatOf
      <3> QED BY <1>1, <1>3, <2>1, <3>1 DEF compare, Before
    <2>2. CASE ~(is_float(a) \/ is_float(b))
      <3>1. a.n \in Int /\ b.n \in Int
        BY <2>2, OperandKinds DEF is_numeric, is_integer
      <3> QED BY <1>1, <1>3, <2>2, <3>1 DEF compare, Before
    <2> QED BY <2>1, <2>2
  <1> QED BY <1>2, <1>3

\* One of two different numbers is before the other.
LEMMA BeforeIs ==
    ASSUME NEW a \in Operands, NEW b \in Operands, is_numeric(a), is_numeric(b), a # NaN, b # NaN
    PROVE  /\ ~(Before(a, b) /\ Before(b, a))
           /\ is_equal(a, b) => ~Before(a, b) /\ ~Before(b, a)
           /\ ~Before(a, b) /\ ~Before(b, a) =>
                 is_equal(a, b) \/ LosesPrecision(a, b) \/ LosesPrecision(b, a)
  <1>1. CASE is_float(a) /\ is_float(b)
    <2>1. convert_float(a) = a /\ convert_float(b) = b /\ a = Float_(a.n) /\ b = Float_(b.n) /\ a.n \in Int /\ b.n \in Int
      BY <1>1, FloatOf DEF is_float, is_integer
    <2>2. is_equal(a, b) <=> a = b
      BY <1>1 DEF is_equal, is_float, is_integer
    <2> QED BY <1>1, <2>1, <2>2 DEF Before
  <1>2. ASSUME NEW i \in Operands, NEW f \in Operands, is_integer(i), is_float(f), f # NaN
        PROVE  /\ int_float_equal(i.n, f) => convert_float(i) = f
               /\ convert_float(i).n = f.n => int_float_equal(i.n, f) \/ LosesPrecision(i, f)
               /\ convert_float(i).n \in Int /\ f.n \in Int /\ convert_float(f) = f
    <2>1. /\ convert_float(i) = Float_(convert_float(i).n) /\ convert_float(i).n = nearest(2 * i.n) /\ i.n \in Int
          /\ convert_float(f) = f /\ f = Float_(f.n) /\ f.n \in Int /\ f.t = "Float" /\ convert_float(i).n \in Int
      <3>1. is_numeric(i) /\ i # NaN /\ is_numeric(f) /\ ~is_integer(f)
        BY <1>2 DEF is_float, is_integer, is_numeric, NaN
      <3>2. convert_float(i) = Float_(convert_float(i).n) /\ convert_float(i).n \in Int
        BY <3>1, FloatOf
      <3>3. convert_float(i).n = nearest(2 * i.n) /\ i.n \in Int
        BY <1>2, <3>1, FloatOf
      <3>4. convert_float(f) = f /\ f.t = "Float" /\ f = Float_(f.n) /\ f.n \in Int
        BY <1>2, <3>1, FloatOf
      <3> QED BY <3>2, <3>3, <3>4
    <2>2. ASSUME convert_float(i).n = f.n, ~LosesPrecision(i, f)
          PROVE  int_float_equal(i.n, f)
      <3>1. 2 * i.n = f.n
        BY <1>2, <2>1, <2>2 DEF LosesPrecision
      <3>2. i.n \in MinInt .. MaxInt
        BY <1>2 DEF Operands, Int_, Float_, NaN, Null, Bool, is_integer
      <3>3. (IF f.n < 0 THEN -(Abs(f.n) \div 2) ELSE f.n \div 2) = i.n
        BY <2>1, <3>1 DEF Abs
      <3>4. truncated(f) = i.n
        BY <3>2, <3>3 DEF truncated
      <3> QED BY <2>1, <2>2, <3>1, <3>4 DEF int_float_equal
    <2> QED BY <1>2, <2>1, <2>2, EqualFloat
  <1>3. CASE is_integer(a) /\ is_float(b)
    <2>1. is_equal(a, b) <=> int_float_equal(a.n, b)
      BY <1>3 DEF is_equal, is_integer, is_float
    <2> QED BY <1>2, <1>3, <2>1 DEF Before
  <1>4. CASE is_float(a) /\ is_integer(b)
    <2>1. is_equal(a, b) <=> int_float_equal(b.n, a)
      BY <1>4 DEF is_equal, is_float, is_integer
    <2> QED BY <1>2, <1>4, <2>1 DEF Before
  <1>5. CASE is_integer(a) /\ is_integer(b)
    <2>1. is_equal(a, b) <=> a = b
      BY <1>5 DEF is_equal, is_float, is_integer, NaN
    <2>2. a.n \in Int /\ b.n \in Int /\ (a = b <=> a.n = b.n) /\ ~is_float(a) /\ ~is_float(b)
      BY <1>5, OperandKinds DEF is_integer, is_float
    <2> QED BY <1>5, <2>1, <2>2 DEF Before
  <1> QED BY <1>1, <1>3, <1>4, <1>5 DEF is_numeric

LEMMA ComparisonAgrees ==
    ASSUME NEW op \in Comparison, NEW a \in Operands, NEW b \in Operands,
           NEW x \in execute(op, a, b), eval(op, a, b).t \notin Errors
    PROVE  x = eval(op, a, b)
  <1>1. x = IF compare(a, b) = 2 THEN Error("type") ELSE Bool(CmpResult(op, compare(a, b)))
    BY DEF execute, Comparison, Bitwise
  <1>2. eval(op, a, b) = numeric_compare(op, a, b)
    BY DEF eval, eval_binary_operation, Unary, Comparison, Bitwise
  <1>3. is_numeric(a) /\ is_numeric(b)
    BY <1>2 DEF numeric_compare, Error, Errors
  <1> DEFINE c == IF is_equal(a, b) \/ a = NaN \/ b = NaN THEN 0
                  ELSE IF Before(a, b) THEN -1 ELSE IF Before(b, a) THEN 1 ELSE 0
  <1>4. eval(op, a, b) = Bool(CmpResult(op, c))
    <2>1. CASE is_equal(a, b) \/ a = NaN \/ b = NaN
      BY <1>2, <1>3, <2>1 DEF numeric_compare
    <2>2. CASE ~(is_equal(a, b) \/ a = NaN \/ b = NaN)
      <3>1. CASE is_float(a) \/ is_float(b)
        <4>1. convert_float(a).n \in Int /\ convert_float(b).n \in Int
          BY <1>3, <2>2, FloatOf
        <4> QED BY <1>2, <1>3, <2>2, <3>1, <4>1 DEF numeric_compare, Before
      <3>2. CASE ~(is_float(a) \/ is_float(b))
        <4>1. a.n \in Int /\ b.n \in Int
          BY <1>3, <3>2, OperandKinds DEF is_numeric, is_integer
        <4> QED BY <1>2, <1>3, <2>2, <3>2, <4>1 DEF numeric_compare, Before
      <3> QED BY <3>1, <3>2
    <2> QED BY <2>1, <2>2
  <1>5. compare(a, b) = c
    BY <1>3, CompareIs, BeforeIs
  <1>6. c # 2
    OBVIOUS
  <1> HIDE DEF c
  <1> QED BY <1>1, <1>4, <1>5, <1>6

LEMMA EqualityAgrees ==
    ASSUME NEW op \in {"Eq", "NEq"}, NEW a \in Operands, NEW b \in Operands,
           NEW x \in execute(op, a, b)
    PROVE  x = eval(op, a, b)
  BY DEF execute, eval, eval_binary_operation, Unary, equal, is_equal, Bitwise

LEMMA UnaryAgrees ==
    ASSUME NEW op \in Unary, NEW a \in Operands, NEW b, ~(op = "UNeg" /\ a = Int_(-1)),
           NEW x \in execute(op, a, b), eval(op, a, b).t \notin Errors
    PROVE  x = eval(op, a, b)
  <1>1. eval(op, a, b) = eval_unary_operation(op, a)
    BY DEF eval
  <1>2. CASE op = "LNot"
    BY <1>1, <1>2 DEF execute, eval_unary_operation, is_truthy, Bool, Bitwise
  <1>3. CASE op = "BNot"
    BY <1>1, <1>3 DEF execute, eval_unary_operation, Error, Errors, Bitwise
  <1>4. CASE op = "UAdd"
    BY <1>1, <1>4 DEF execute, eval_unary_operation, Error, Errors, Bitwise
  <1>5. CASE op = "UNeg"
    <2>1. x \in unary_minus(a)
      BY <1>5 DEF execute, Bitwise
    <2>2. eval(op, a, b) = IF is_integer(a) THEN checked(-a.n)
                           ELSE IF a.t = "Float" THEN Float_(-a.n)
                           ELSE IF a = NaN THEN NaN ELSE Error("TypeError")
      BY <1>1, <1>5 DEF eval_unary_operation
    <2>3. CASE is_integer(a)
      <3>1. a.n \in Int /\ a = Int_(a.n)
        BY <2>3, OperandKinds DEF is_integer, Int_
      <3>2. -a.n \in MinInt .. MaxInt /\ eval(op, a, b) = Int_(-a.n)
        BY <2>2, <2>3 DEF checked, Error, Errors
      <3>3. a.n # -1
        BY <1>5, <3>1
      <3>4. a.n # MinInt
        <4>1. PICK k : k = 2 ^ (Width - 1)
          OBVIOUS
        <4>2. MinInt = -k /\ MaxInt = k - 1 /\ -a.n <= MaxInt /\ MinInt \in Int /\ MaxInt \in Int
          BY <3>2, <4>1 DEF MinInt, MaxInt
        <4>3. k \in Int
          BY <4>1, WidthAssumption
        <4> QED BY <3>1, <4>2, <4>3
      <3>5. x = Int_(-a.n)
        BY <2>1, <2>3, <3>1, <3>3, <3>4 DEF unary_minus, is_integer, NaN
      <3> QED BY <3>2, <3>5
    <2>4. CASE ~is_integer(a)
      BY <2>1, <2>2, <2>4, OperandKinds DEF unary_minus, is_integer, Error, Errors, NaN
    <2> QED BY <2>3, <2>4
  <1> QED BY <1>2, <1>3, <1>4, <1>5 DEF Unary

LEMMA ResultsInvariant == Spec => []ResultsOK
  <1>1. Init => ResultsOK
    BY DEF Init, ResultsOK, Operations, LiteralKinds
  <1>2. ResultsOK /\ [Next]_vars => ResultsOK'
    <2> SUFFICES ASSUME ResultsOK, [Next]_vars
                 PROVE  ResultsOK'
      OBVIOUS
    <2>1. CASE Fold
      BY <2>1 DEF Fold, ResultsOK
    <2>2. CASE Execute
      BY <2>2 DEF Execute, ResultsOK
    <2>3. CASE ReadLiteral
      BY <2>3 DEF ReadLiteral, ResultsOK
    <2>4. CASE UNCHANGED vars
      BY <2>4 DEF vars, ResultsOK
    <2> QED BY <2>1, <2>2, <2>3, <2>4 DEF Next
  <1> QED BY <1>1, <1>2, PTL DEF Spec

LEMMA Agreement ==
    ASSUME ResultsOK
    PROVE  FoldingAgrees
  <1> SUFFICES ASSUME folded.t # "Pending", executed.t # "Pending", folded.t \notin Errors,
                      expr.op \notin Bitwise, ~(expr.op = "UNeg" /\ expr.a = Int_(-1))
               PROVE  Same(executed, folded)
    BY DEF FoldingAgrees
  <1>1. /\ expr.op \notin LiteralKinds /\ executed \in execute(expr.op, expr.a, expr.b)
        /\ folded = eval(expr.op, expr.a, expr.b) /\ expr \in Operations
    BY DEF ResultsOK, Pending
  <1>2. executed = folded
    <2>1. expr.a \in Operands
      BY <1>1 DEF Operations
    <2>2. CASE expr.op \in Unary
      BY <1>1, <2>1, <2>2, UnaryAgrees
    <2>3. CASE expr.op \in Binary
      <3>1. expr.b \in Operands
        BY <1>1, <2>3 DEF Operations, Operands, Binary, Unary
      <3> QED BY <1>1, <2>1, <2>3, <3>1, ArithmeticAgrees, ComparisonAgrees, EqualityAgrees
            DEF Binary, Arithmetic, Comparison
    <2> QED BY <1>1, <2>2, <2>3 DEF Operations
  <1> QED BY <1>2 DEF Same

LEMMA Order ==
    ASSUME NEW a \in Operands, NEW b \in Operands, is_numeric(a), is_numeric(b)
    PROVE  /\ compare(a, b) = -compare(b, a)
           /\ a = NaN \/ b = NaN \/ LosesPrecision(a, b) \/ LosesPrecision(b, a)
                 \/ ((compare(a, b) = 0) <=> equal(a, b))
  <1>1. equal(a, b) <=> is_equal(a, b)
    BY DEF equal, is_equal
  <1> QED BY <1>1, CompareIs, BeforeIs

\* For every operator that the machine has and all operands, what the compiler folds is what the
\* machine would have computed, unless -1 is negated; and the order of numbers is the one of
\* equality, unless an integer loses precision (const_eval.cpp, math.cpp, value.cpp).
THEOREM OperatorsAgreeCorrect == Spec => []OperatorsAgree
  <1>1. ResultsOK => OperatorsAgree
    <2> SUFFICES ASSUME ResultsOK
                 PROVE  OrderConsistent
      BY Agreement DEF OperatorsAgree
    <2>1. expr.op \in Comparison => expr.a \in Operands /\ expr.b \in Operands
      BY DEF ResultsOK, Operations, Comparison, LiteralKinds, Unary
    <2> QED BY <2>1, Order DEF OrderConsistent, Comparison
  <1> QED BY <1>1, ResultsInvariant, PTL

-----------------------------------------------------------------------------
(* Numbers. *)

\* A set of numbers has a least element. What follows by induction is derived from this.
LEMMA LeastNumber ==
    ASSUME NEW T, T \subseteq Nat, T # {}
    PROVE  \E x \in T : \A y \in T : x <= y
  <1> DEFINE R == {ss \in Nat \X Nat : ss[1] < ss[2]}
  <1>1. IsWellFoundedOn(R, Nat)
    BY NatLessThanWellFounded, Zenon DEF OpToRel
  <1>2. PICK x \in T : \A y \in T : ~(<<y, x>> \in R)
    <2> HIDE DEF R
    <2> QED BY <1>1, WFMin
  <1>3. \A y \in T : (y < x) => <<y, x>> \in R
    OBVIOUS
  <1>4. \A y \in T : ~(y < x)
    <2> HIDE DEF R
    <2> QED BY <1>2, <1>3
  <1>5. \A y \in T : x <= y
    BY <1>4
  <1> QED BY <1>5

\* A set that holds 0 and the successor of each of its elements below n reaches n.
LEMMA UpTo ==
    ASSUME NEW n \in Nat, NEW G,
           0 \in G, \A k \in 0 .. n - 1 : k \in G => k + 1 \in G
    PROVE  \A k \in 0 .. n : k \in G
  <1> DEFINE bad == {k \in 0 .. n : k \notin G}
  <1> SUFFICES ASSUME bad # {}
               PROVE  FALSE
    OBVIOUS
  <1>1. bad \subseteq Nat
    OBVIOUS
  <1> HIDE DEF bad
  <1>2. PICK k \in bad : \A j \in bad : k <= j
    BY <1>1, LeastNumber
  <1>3. k \in 0 .. n /\ k \notin G /\ \A j \in 0 .. n : j \notin G => k <= j
    BY <1>2 DEF bad
  <1>4. k # 0 /\ k - 1 \in 0 .. n - 1 /\ k - 1 \in 0 .. n
    BY <1>3
  <1>5. k - 1 \in G
    BY <1>3, <1>4
  <1>6. (k - 1) + 1 \in G
    BY <1>4, <1>5
  <1> QED BY <1>3, <1>6

\* The powers of two up to the nth.
Doubles(g, n) == g = [k \in 0 .. n |-> IF k = 0 THEN 1 ELSE 2 * g[k - 1]]

\* Such a function exists, which the operator then picks.
LEMMA DoublesExist ==
    ASSUME NEW n \in Nat
    PROVE  \E g : Doubles(g, n)
  <1> DEFINE G == {m \in 0 .. n : \E g : Doubles(g, m)}
  <1>1. 0 \in G
    <2> DEFINE g == [k \in 0 .. 0 |-> 1]
    <2>1. Doubles(g, 0)
      BY DEF Doubles
    <2> QED BY <2>1
  <1>2. ASSUME NEW m \in 0 .. n - 1, m \in G
        PROVE  m + 1 \in G
    <2>1. PICK g : Doubles(g, m)
      BY <1>2
    <2>2. g = [k \in 0 .. m |-> IF k = 0 THEN 1 ELSE 2 * g[k - 1]]
      BY <2>1 DEF Doubles
    <2> DEFINE f == [k \in 0 .. m + 1 |-> IF k = m + 1 THEN 2 * g[m] ELSE g[k]]
    <2>3. ASSUME NEW k \in 0 .. m + 1
          PROVE  f[k] = IF k = 0 THEN 1 ELSE 2 * f[k - 1]
      <3>1. CASE k = m + 1
        BY <3>1
      <3>2. CASE k # m + 1
        <4>1. f[k] = g[k] /\ k \in 0 .. m
          BY <3>2
        <4>2. k # 0 => f[k - 1] = g[k - 1]
          BY <3>2
        <4> QED BY <2>2, <4>1, <4>2
      <3> QED BY <3>1, <3>2
    <2>4. Doubles(f, m + 1)
      <3> DEFINE r == [k \in 0 .. m + 1 |-> IF k = 0 THEN 1 ELSE 2 * f[k - 1]]
      <3>1. \A k \in 0 .. m + 1 : f[k] = r[k]
        BY <2>3
      <3>2. f = [k \in 0 .. m + 1 |-> f[k]] /\ r = [k \in 0 .. m + 1 |-> r[k]]
        OBVIOUS
      <3> HIDE DEF f, r
      <3>3. f = r
        BY <3>1, <3>2
      <3> QED BY <3>3 DEF r, Doubles
    <2> QED BY <2>4
  <1> HIDE DEF G
  <1>3. \A k \in 0 .. n : k \in G
    BY <1>1, <1>2, UpTo
  <1> QED BY <1>3 DEF G

\* A buffer is never made smaller than is required.
LEMMA CapacitySuffices ==
    ASSUME NEW n \in Nat, MinCapacity \in Nat
    PROVE  next_capacity(n) \in Nat /\ next_capacity(n) >= n
  <1> DEFINE g == CHOOSE h : Doubles(h, n)
             fits(k) == g[k] >= n /\ \A j \in 0 .. n : g[j] >= n => k <= j
             c == CHOOSE k \in 0 .. n : fits(k)
  <1>1. ceil_pow2_fast(n) = g[c]
    BY Zenon DEF ceil_pow2_fast, Doubles
  <1>2. g = [k \in 0 .. n |-> IF k = 0 THEN 1 ELSE 2 * g[k - 1]]
    <2>1. \E h : Doubles(h, n)
      BY DoublesExist
    <2>2. Doubles(g, n)
      BY <2>1, Zenon
    <2> QED BY <2>2, Zenon DEF Doubles
  <1> HIDE DEF g
  <1>3. \A k \in 0 .. n : g[k] \in Nat /\ g[k] > k
    <2> DEFINE G == {k \in 0 .. n : g[k] \in Nat /\ g[k] > k}
    <2>1. 0 \in G
      BY <1>2
    <2>2. ASSUME NEW k \in 0 .. n - 1, k \in G
          PROVE  k + 1 \in G
      <3>1. g[k + 1] = 2 * g[k]
        BY <1>2
      <3> QED BY <2>2, <3>1
    <2> HIDE DEF G
    <2>3. \A k \in 0 .. n : k \in G
      BY <2>1, <2>2, UpTo
    <2> QED BY <2>3 DEF G
  <1>4. \E k \in 0 .. n : fits(k)
    <2> DEFINE T == {k \in 0 .. n : g[k] >= n}
    <2>1. n \in T /\ T \subseteq Nat
      BY <1>3
    <2> HIDE DEF T
    <2>2. PICK k \in T : \A j \in T : k <= j
      BY <2>1, LeastNumber
    <2> QED BY <2>2 DEF T
  <1>5. c \in 0 .. n /\ fits(c)
    BY <1>4, Zenon
  <1> HIDE DEF c
  <1>6. g[c] \in Nat /\ g[c] >= n
    BY <1>3, <1>5
  <1> QED BY <1>1, <1>6 DEF next_capacity

-----------------------------------------------------------------------------
(* Strings: the invariant. *)

Data == Seq(Nat)
StringObjects ==
    [t : {"String", "StringSlice", "StringIterator"}, data : Data, hash : Nat,
     of : Nat, offset : Nat, size : Nat]

\* s is the part of d of n bytes behind the first a.
Within(d, a, n, s) == a + n <= Len(d) /\ s = [k \in 1 .. n |-> d[a + k]]

\* An object stands for s: a string has its bytes, another object lies within a string.
Shows(os, o, s) ==
    IF o.t = "String" THEN o.data = s
    ELSE /\ o.of \in DOMAIN os /\ os[o.of].t = "String"
         /\ Within(os[o.of].data, o.offset, o.size, s)

\* h is the hash of d, or not yet known, with or without the flag of interned strings.
HashOf(h, d) == h % InternedFlag \in {0, str_hash(d)} /\ h < 2 * InternedFlag

ObjectsInv ==
    /\ objects \in Seq(StringObjects) /\ content \in Seq(Data) /\ Len(content) = Len(objects)
    /\ \A i \in Ids : Shows(objects, objects[i], content[i])

\* Exactly the strings of the table have the flag, and no two of them the same bytes.
InternedInv ==
    /\ \A i \in interned : i \in Ids /\ IsString(i)
    /\ \A i \in Ids : IsString(i) =>
        HashOf(objects[i].hash, objects[i].data) /\ (IsInterned(i) <=> i \in interned)
    /\ \A i, j \in interned : objects[i].data = objects[j].data => i = j

\* The buffer begins with what was appended.
BuilderInv ==
    /\ buffer \in Data /\ appended \in Data /\ size \in Nat
    /\ size <= Len(buffer) /\ size = Len(appended)
    /\ \A k \in 1 .. size : buffer[k] = appended[k]

StringsInv == ObjectsInv /\ InternedInv /\ BuilderInv

\* What the theorem assumes of the hash function.
StringsGiven == \A s \in Data : byte_hash(s) \in Nat

\* A function on 1 .. n with numbers as values is a sequence of bytes.
LEMMA IsData ==
    ASSUME NEW f, NEW n \in Nat, f = [k \in 1 .. n |-> f[k]], \A k \in 1 .. n : f[k] \in Nat
    PROVE  f \in Data /\ Len(f) = n
  <1>1. f \in [1 .. n -> Nat]
    OBVIOUS
  <1> QED BY <1>1 DEF Data

\* A longer sequence.
LEMMA AppendIs ==
    ASSUME NEW S, NEW x \in Seq(S), NEW e \in S, NEW m \in Nat, Len(x) = m
    PROVE  /\ Append(x, e) \in Seq(S) /\ Len(Append(x, e)) = m + 1
           /\ Append(x, e)[m + 1] = e
           /\ \A k \in 1 .. m : Append(x, e)[k] = x[k]
  OBVIOUS

\* SubSeq in terms of positions.
LEMMA PartIs ==
    ASSUME NEW d \in Data, NEW a \in Nat, NEW n \in Nat, a + n <= Len(d)
    PROVE  /\ SubSeq(d, a + 1, a + n) = [k \in 1 .. n |-> d[a + k]]
           /\ SubSeq(d, a + 1, a + n) \in Data
           /\ Len(SubSeq(d, a + 1, a + n)) = n
  <1>1. SubSeq(d, a + 1, a + n) = [k \in 1 .. n |-> d[a + k]]
    BY DEF Data
  <1>2. \A k \in 1 .. n : d[a + k] \in Nat
    BY DEF Data
  <1>3. [k \in 1 .. n |-> d[a + k]] \in Data /\ Len([k \in 1 .. n |-> d[a + k]]) = n
    BY <1>2 DEF Data
  <1> QED BY <1>1, <1>3

\* What lies within a sequence of bytes is one.
LEMMA WithinIs ==
    ASSUME NEW d \in Data, NEW a \in Nat, NEW n \in Nat, NEW s, Within(d, a, n, s)
    PROVE  s = SubSeq(d, a + 1, a + n) /\ s \in Data /\ Len(s) = n
           /\ \A k \in 1 .. n : s[k] = d[a + k]
  <1>1. a + n <= Len(d) /\ s = [k \in 1 .. n |-> d[a + k]]
    BY DEF Within
  <1>2. /\ SubSeq(d, a + 1, a + n) = [k \in 1 .. n |-> d[a + k]]
        /\ SubSeq(d, a + 1, a + n) \in Data
        /\ Len(SubSeq(d, a + 1, a + n)) = n
    BY <1>1, PartIs
  <1>3. s = SubSeq(d, a + 1, a + n)
    BY <1>1, <1>2, Zenon
  <1>4. s \in Data /\ Len(s) = n
    BY <1>2, <1>3, Zenon
  <1> QED BY <1>1, <1>3, <1>4

\* The part of a part.
LEMMA WithinPart ==
    ASSUME NEW d \in Data, NEW a \in Nat, NEW n \in Nat, NEW s, Within(d, a, n, s),
           NEW b \in Nat, NEW m \in Nat, b + m <= n
    PROVE  Within(d, a + b, m, SubSeq(s, b + 1, b + m))
  <1>1. s \in Data /\ Len(s) = n /\ \A k \in 1 .. n : s[k] = d[a + k]
    BY WithinIs
  <1>2. SubSeq(s, b + 1, b + m) = [k \in 1 .. m |-> s[b + k]]
    BY <1>1, PartIs
  <1>3. \A k \in 1 .. m : s[b + k] = d[(a + b) + k]
    BY <1>1
  <1>4. (a + b) + m <= Len(d)
    BY DEF Within, Data
  <1> QED BY <1>2, <1>3, <1>4 DEF Within

\* All of a string.
LEMMA WithinAll ==
    ASSUME NEW d \in Data
    PROVE  Within(d, 0, Len(d), d)
  <1>1. Len(d) \in Nat /\ d = [k \in 1 .. Len(d) |-> d[k]]
    BY DEF Data
  <1>2. \A k \in 1 .. Len(d) : d[0 + k] = d[k]
    BY <1>1
  <1> QED BY <1>1, <1>2 DEF Within

-----------------------------------------------------------------------------
(* Hashes. *)

\* A hash is a number below the flag.
LEMMA HashRange ==
    ASSUME StringsGiven, NEW d \in Data
    PROVE  str_hash(d) \in 0 .. InternedFlag - 1
  <1>1. byte_hash(d) \in Nat /\ InternedFlag \in Nat \ {0}
    BY StringsAssumption DEF StringsGiven
  <1> DEFINE x == IF byte_hash(d) = 0 THEN 1 ELSE byte_hash(d)
  <1>2. x \in Nat /\ str_hash(d) = x % InternedFlag
    BY <1>1 DEF str_hash
  <1> HIDE DEF x
  <1>3. \A y \in Nat, n \in Nat \ {0} : y % n \in 0 .. n - 1
    OBVIOUS
  <1>4. x % InternedFlag \in 0 .. InternedFlag - 1
    BY <1>1, <1>2, <1>3, Zenon
  <1> QED BY <1>2, <1>4, Zenon

\* What the invariant says of one object.
LEMMA ObjectFacts ==
    ASSUME ObjectsInv, NEW i \in Ids
    PROVE  /\ i \in Nat \ {0} /\ objects[i] \in StringObjects /\ content[i] \in Data
           /\ Ids = 1 .. Len(objects) /\ Len(objects) \in Nat /\ Ids = DOMAIN content
           /\ Shows(objects, objects[i], content[i])
  BY DEF ObjectsInv, Ids

\* Asking for the hash of a string keeps its flag.
LEMMA CachedHash ==
    ASSUME StringsGiven, ObjectsInv, NEW i \in Ids, IsString(i),
           HashOf(objects[i].hash, objects[i].data)
    PROVE  /\ Cached(i) \in Nat /\ HashOf(Cached(i), objects[i].data)
           /\ Cached(i) % InternedFlag = str_hash(objects[i].data)
           /\ Cached(i) >= InternedFlag <=> IsInterned(i)
           /\ ~IsInterned(i) => /\ Cached(i) + InternedFlag \in Nat
                                /\ HashOf(Cached(i) + InternedFlag, objects[i].data)
                                /\ Cached(i) + InternedFlag >= InternedFlag
  <1> DEFINE h == objects[i].hash
             s == str_hash(objects[i].data)
             n == InternedFlag
  <1>1. n \in Nat \ {0} /\ h \in Nat /\ objects[i].data \in Data
    <2>1. objects[i] \in StringObjects
      BY ObjectFacts
    <2> QED BY <2>1, StringsAssumption DEF StringsGiven, StringObjects
  <1>2. s \in 0 .. n - 1
    BY <1>1, HashRange
  <1>3. h % n \in {0, s} /\ h < 2 * n
    BY DEF HashOf
  <1>4. Cached(i) = IF h % n = 0 THEN s + (IF h >= n THEN n ELSE 0) ELSE h
    BY DEF Cached, Flags, IsInterned
  <1>5. IsInterned(i) <=> h >= n
    BY DEF IsInterned
  <1> HIDE DEF h, s, n
  <1>6. Cached(i) \in Nat /\ Cached(i) < 2 * n /\ (Cached(i) >= n <=> h >= n)
    BY <1>1, <1>2, <1>3, <1>4
  <1>7. Cached(i) % n = s
    <2>1. s % n = s /\ (s + n) % n = s
      BY <1>1, <1>2
    <2> QED BY <1>1, <1>2, <1>3, <1>4, <2>1
  <1>8. HashOf(Cached(i), objects[i].data)
    BY <1>6, <1>7 DEF HashOf, n, s
  <1>9. ASSUME ~IsInterned(i)
        PROVE  HashOf(Cached(i) + n, objects[i].data) /\ Cached(i) + n \in Nat
               /\ Cached(i) + n >= n
    <2>1. Cached(i) < n /\ Cached(i) + n \in Nat /\ Cached(i) + n < 2 * n /\ Cached(i) + n >= n
      BY <1>1, <1>5, <1>6, <1>9
    <2>2. Cached(i) % n = Cached(i) /\ (Cached(i) + n) % n = Cached(i)
      BY <1>1, <1>6, <2>1
    <2> QED BY <1>7, <2>1, <2>2 DEF HashOf, n, s
  <1> QED BY <1>5, <1>6, <1>7, <1>8, <1>9 DEF n, s, h

-----------------------------------------------------------------------------
(* What the invariant says of strings. *)

\* Every object stands for what it shows.
LEMMA ViewIs ==
    ASSUME ObjectsInv, NEW i \in Ids
    PROVE  view(i) = content[i] /\ Size(i) = Len(content[i])
  <1>1. objects[i] \in StringObjects /\ Shows(objects, objects[i], content[i])
    BY ObjectFacts
  <1>2. CASE IsString(i)
    BY <1>1, <1>2 DEF Shows, IsString, view, Size
  <1>3. CASE ~IsString(i)
    <2>1. objects[i].of \in Ids
          /\ Within(objects[objects[i].of].data, objects[i].offset, objects[i].size, content[i])
      BY <1>1, <1>3 DEF Shows, IsString, Ids
    <2>2. objects[objects[i].of].data \in Data /\ objects[i].offset \in Nat /\ objects[i].size \in Nat
      BY <1>1, <2>1, ObjectFacts DEF StringObjects
    <2>3. PICK d \in Data, a \in Nat, n \in Nat :
            d = objects[objects[i].of].data /\ a = objects[i].offset /\ n = objects[i].size
      BY <2>2, Zenon
    <2>4. Within(d, a, n, content[i])
      BY <2>1, <2>3
    <2>5. content[i] = SubSeq(d, a + 1, a + n) /\ Len(content[i]) = n
      BY <2>4, WithinIs
    <2>6. view(i) = SubSeq(d, a + 1, a + n) /\ Size(i) = n
      BY <1>3, <2>3, Zenon DEF view, Size
    <2> QED BY <2>5, <2>6
  <1> QED BY <1>2, <1>3

\* The hash of a string or slice is that of its contents.
LEMMA HashIs ==
    ASSUME StringsGiven, ObjectsInv, InternedInv, NEW i \in Ids
    PROVE  hash(i) = str_hash(content[i])
  <1>1. CASE IsString(i)
    <2>1. HashOf(objects[i].hash, objects[i].data)
      BY <1>1 DEF InternedInv
    <2>2. Cached(i) % InternedFlag = str_hash(objects[i].data)
      BY <1>1, <2>1, CachedHash
    <2>3. objects[i].data = content[i]
      BY <1>1, ObjectFacts DEF Shows, IsString
    <2> QED BY <1>1, <2>2, <2>3 DEF hash
  <1>2. CASE ~IsString(i)
    BY <1>2, ViewIs DEF hash
  <1> QED BY <1>1, <1>2

\* Two strings or slices are equal exactly if their bytes are.
LEMMA EqualIs ==
    ASSUME ObjectsInv, InternedInv, NEW i \in Ids, NEW j \in Ids
    PROVE  String_equal(i, j) <=> content[i] = content[j]
  <1>1. CASE IsString(i) /\ IsString(j) /\ IsInterned(i) /\ IsInterned(j)
    <2>1. i \in interned /\ j \in interned
      BY <1>1 DEF InternedInv
    <2>2. objects[i].data = content[i] /\ objects[j].data = content[j]
      BY <1>1, ObjectFacts DEF Shows, IsString
    <2>3. content[i] = content[j] => i = j
      BY <2>1, <2>2 DEF InternedInv
    <2> QED BY <1>1, <2>3 DEF String_equal
  <1>2. CASE ~(IsString(i) /\ IsString(j) /\ IsInterned(i) /\ IsInterned(j))
    BY <1>2, ViewIs DEF String_equal
  <1> QED BY <1>1, <1>2

\* The lookup finds the string of the table that has the same bytes.
LEMMA FoundIs ==
    ASSUME StringsGiven, ObjectsInv, InternedInv, NEW i \in Ids, IsString(i)
    PROVE  Found(i) = {k \in interned : objects[k].data = objects[i].data}
  <1>1. \A k \in interned : k \in Ids /\ IsString(k)
    BY DEF InternedInv
  <1>2. \A k \in interned : String_equal(k, i) <=> content[k] = content[i]
    BY <1>1, EqualIs
  <1>3. \A k \in interned : content[k] = content[i] => hash(k) = hash(i)
    <2> SUFFICES ASSUME NEW k \in interned, content[k] = content[i]
                 PROVE  hash(k) = hash(i)
      OBVIOUS
    <2>1. hash(k) = str_hash(content[k]) /\ hash(i) = str_hash(content[i])
      BY <1>1, HashIs
    <2> QED BY <2>1
  <1>4. \A k \in interned : content[k] = objects[k].data
    BY <1>1, ObjectFacts DEF Shows, IsString
  <1>5. content[i] = objects[i].data
    BY ObjectFacts DEF Shows, IsString
  <1> QED BY <1>2, <1>3, <1>4, <1>5 DEF Found

-----------------------------------------------------------------------------
(* New objects. *)

\* A new object that shows its contents keeps the invariant.
LEMMA NewObject ==
    ASSUME StringsGiven, StringsInv, NEW o \in StringObjects, NEW s \in Data, o.hash = 0,
           Shows(objects, o, s), Create(o, s)
    PROVE  StringsInv'
  <1> DEFINE n == Len(objects)
  <1>1. objects' = Append(objects, o) /\ content' = Append(content, s) /\ interned' = interned
        /\ buffer' = buffer /\ size' = size /\ appended' = appended
    BY DEF Create
  <1>2. n \in Nat /\ objects \in Seq(StringObjects) /\ content \in Seq(Data) /\ Len(content) = n
        /\ Ids = 1 .. n
    BY DEF StringsInv, ObjectsInv, Ids
  <1>3. /\ Ids' = 1 .. n + 1
        /\ \A i \in Ids : objects'[i] = objects[i] /\ content'[i] = content[i]
        /\ objects'[n + 1] = o /\ content'[n + 1] = s
        /\ objects' \in Seq(StringObjects) /\ content' \in Seq(Data)
        /\ Len(objects') = n + 1 /\ Len(content') = n + 1
    BY <1>1, <1>2 DEF Ids
  <1> HIDE DEF n
  <1>4. \A i \in Ids' : i \in Ids \/ i = n + 1
    BY <1>2, <1>3
  <1>5. \A p \in StringObjects : \A c : Shows(objects, p, c) => Shows(objects', p, c)
    <2> SUFFICES ASSUME NEW p \in StringObjects, NEW c, Shows(objects, p, c)
                 PROVE  Shows(objects', p, c)
      OBVIOUS
    <2>1. CASE p.t = "String"
      BY <2>1 DEF Shows
    <2>2. CASE p.t # "String"
      <3>1. p.of \in Ids /\ objects[p.of].t = "String"
            /\ Within(objects[p.of].data, p.offset, p.size, c)
        BY <2>2 DEF Shows, Ids
      <3>2. p.of \in DOMAIN objects' /\ objects'[p.of] = objects[p.of]
        BY <1>2, <1>3, <3>1
      <3> QED BY <2>2, <3>1, <3>2 DEF Shows
    <2> QED BY <2>1, <2>2
  <1>6. ObjectsInv'
    <2>1. ASSUME NEW i \in Ids'
          PROVE  Shows(objects', objects'[i], content'[i])
      <3>1. CASE i \in Ids
        <4>1. objects[i] \in StringObjects /\ Shows(objects, objects[i], content[i])
          BY <3>1, ObjectFacts DEF StringsInv
        <4> QED BY <1>3, <1>5, <3>1, <4>1
      <3>2. CASE i = n + 1
        BY <1>3, <1>5, <3>2
      <3> QED BY <1>4, <3>1, <3>2
    <2> QED BY <1>3, <2>1 DEF ObjectsInv
  <1>7. InternedInv'
    <2>1. InternedInv
      BY DEF StringsInv
    <2>2. \A i \in Ids : i \in Ids' /\ i # n + 1
      BY <1>2, <1>3
    <2>3. \A i \in interned' : i \in Ids /\ i \in Ids' /\ objects'[i] = objects[i] /\ IsString(i)'
      BY <1>1, <1>3, <2>1, <2>2 DEF InternedInv, IsString
    <2>4. ASSUME NEW i \in Ids', IsString(i)'
          PROVE  HashOf(objects'[i].hash, objects'[i].data) /\ (IsInterned(i)' <=> i \in interned')
      <3>1. CASE i \in Ids
        BY <1>1, <1>3, <2>1, <2>4, <3>1 DEF InternedInv, IsString, IsInterned
      <3>2. CASE i = n + 1
        <4>1. InternedFlag \in Nat \ {0}
          BY StringsAssumption DEF StringsGiven
        <4>2. 0 % InternedFlag = 0 /\ 0 < 2 * InternedFlag /\ ~(0 >= InternedFlag)
          BY <4>1
        <4>3. objects'[i].hash = 0
          BY <1>3, <3>2
        <4>4. i \notin interned
          BY <2>1, <2>2, <3>2 DEF InternedInv
        <4> QED BY <1>1, <4>2, <4>3, <4>4 DEF HashOf, IsInterned
      <3> QED BY <1>4, <3>1, <3>2
    <2>5. \A i, j \in interned' : objects'[i].data = objects'[j].data => i = j
      <3>1. \A i, j \in interned : objects[i].data = objects[j].data => i = j
        BY <2>1 DEF InternedInv
      <3>2. SUFFICES ASSUME NEW i \in interned, NEW j \in interned,
                            objects'[i].data = objects'[j].data
                     PROVE  i = j
        BY <1>1
      <3>3. objects'[i] = objects[i] /\ objects'[j] = objects[j]
        BY <1>1, <2>3
      <3> QED BY <3>1, <3>2, <3>3
    <2> QED BY <2>3, <2>4, <2>5 DEF InternedInv
  <1>8. BuilderInv'
    BY <1>1 DEF StringsInv, BuilderInv
  <1> QED BY <1>6, <1>7, <1>8 DEF StringsInv

-----------------------------------------------------------------------------
(* Hashes and interned strings. *)

\* A string gets another form of the hash of its bytes, and the flag if it is put into
\* the table, which has no string with these bytes yet.
LEMMA NewHash ==
    ASSUME StringsInv, NEW i \in Ids, IsString(i), NEW h \in Nat,
           objects' = [objects EXCEPT ![i].hash = h], HashOf(h, objects[i].data),
           \/ interned' = interned /\ (h >= InternedFlag <=> IsInterned(i))
           \/ /\ interned' = interned \cup {i} /\ h >= InternedFlag
              /\ \A k \in interned : objects[k].data # objects[i].data,
           UNCHANGED <<buffer, size, content, appended>>
    PROVE  StringsInv'
  <1>1. ObjectsInv /\ InternedInv /\ BuilderInv
    BY DEF StringsInv
  <1>2. objects \in Seq(StringObjects) /\ Ids = 1 .. Len(objects) /\ objects[i] \in StringObjects
    BY <1>1, ObjectFacts DEF ObjectsInv
  <1>3. /\ objects' \in Seq(StringObjects) /\ Len(objects') = Len(objects) /\ Ids' = Ids
        /\ \A k \in Ids : k # i => objects'[k] = objects[k]
        /\ objects'[i] = [objects[i] EXCEPT !.hash = h]
    <2>1. [objects[i] EXCEPT !.hash = h] \in StringObjects
      BY <1>2 DEF StringObjects
    <2>2. objects' = [objects EXCEPT ![i] = [objects[i] EXCEPT !.hash = h]]
      OBVIOUS
    <2> QED BY <1>2, <2>1, <2>2 DEF Ids
  <1>4. objects'[i].t = objects[i].t /\ objects'[i].data = objects[i].data
        /\ objects'[i].of = objects[i].of /\ objects'[i].offset = objects[i].offset
        /\ objects'[i].size = objects[i].size /\ objects'[i].hash = h
    BY <1>2, <1>3 DEF StringObjects
  <1>5. \A k \in Ids : /\ objects'[k].t = objects[k].t /\ objects'[k].data = objects[k].data
                       /\ objects'[k].of = objects[k].of /\ objects'[k].offset = objects[k].offset
                       /\ objects'[k].size = objects[k].size
    BY <1>3, <1>4
  <1>6. ObjectsInv'
    <2>1. ASSUME NEW k \in Ids
          PROVE  Shows(objects', objects'[k], content[k])
      <3>1. Shows(objects, objects[k], content[k])
        BY <1>1, ObjectFacts
      <3>2. CASE objects[k].t = "String"
        BY <1>5, <3>1, <3>2 DEF Shows
      <3>3. CASE objects[k].t # "String"
        <4>1. objects[k].of \in Ids /\ objects[objects[k].of].t = "String"
              /\ Within(objects[objects[k].of].data, objects[k].offset, objects[k].size, content[k])
          BY <3>1, <3>3 DEF Shows, Ids
        <4>2. objects'[objects[k].of].t = "String" /\ objects[k].of \in DOMAIN objects'
              /\ objects'[objects[k].of].data = objects[objects[k].of].data
          BY <1>3, <1>5, <4>1 DEF Ids
        <4> QED BY <1>5, <3>3, <4>1, <4>2 DEF Shows
      <3> QED BY <3>2, <3>3
    <2> QED BY <1>1, <1>3, <2>1 DEF ObjectsInv
  <1>7. \A k \in interned : k \in Ids /\ IsString(k)
    BY <1>1 DEF InternedInv
  <1>8. \A k \in interned' : k \in interned \/ k = i
    OBVIOUS
  <1>9. \A k \in interned' : k \in Ids' /\ IsString(k)'
    BY <1>3, <1>5, <1>7, <1>8 DEF IsString
  <1>10. ASSUME NEW k \in Ids', IsString(k)'
         PROVE  HashOf(objects'[k].hash, objects'[k].data) /\ (IsInterned(k)' <=> k \in interned')
    <2>1. CASE k = i
      <3>1. i \in interned <=> IsInterned(i)
        BY <1>1 DEF InternedInv
      <3>2. IsInterned(k)' <=> h >= InternedFlag
        BY <1>4, <2>1 DEF IsInterned
      <3> QED BY <1>4, <2>1, <3>1, <3>2
    <2>2. CASE k # i
      <3>1. objects'[k] = objects[k] /\ IsString(k) /\ k \in Ids /\ (k \in interned' <=> k \in interned)
        BY <1>3, <1>10, <2>2 DEF IsString
      <3>2. HashOf(objects[k].hash, objects[k].data) /\ (IsInterned(k) <=> k \in interned)
        BY <1>1, <3>1 DEF InternedInv
      <3>3. IsInterned(k)' <=> IsInterned(k)
        BY <3>1 DEF IsInterned
      <3> QED BY <3>1, <3>2, <3>3
    <2> QED BY <2>1, <2>2
  <1>11. ASSUME NEW j \in interned', NEW k \in interned', objects'[j].data = objects'[k].data
         PROVE  j = k
    <2>1. j \in Ids /\ k \in Ids
      BY <1>7, <1>8
    <2>2. objects[j].data = objects[k].data
      BY <1>5, <1>11, <2>1
    <2>3. \A a, b \in interned : objects[a].data = objects[b].data => a = b
      BY <1>1 DEF InternedInv
    <2> QED BY <1>8, <2>2, <2>3
  <1>12. InternedInv'
    BY <1>9, <1>10, <1>11 DEF InternedInv
  <1>13. BuilderInv'
    BY <1>1 DEF BuilderInv
  <1> QED BY <1>6, <1>12, <1>13 DEF StringsInv

\* Caching a hash changes neither contents nor flag.
LEMMA UseHash ==
    ASSUME StringsGiven, StringsInv, NEW i \in Ids, use_hash(i)
    PROVE  StringsInv'
  <1>1. ObjectsInv /\ InternedInv /\ IsString(i)
    BY DEF StringsInv, use_hash
  <1>2. HashOf(objects[i].hash, objects[i].data)
    BY <1>1 DEF InternedInv
  <1>3. Cached(i) \in Nat /\ HashOf(Cached(i), objects[i].data)
        /\ (Cached(i) >= InternedFlag <=> IsInterned(i))
    BY <1>1, <1>2, CachedHash
  <1>4. objects' = [objects EXCEPT ![i].hash = Cached(i)] /\ interned' = interned
        /\ UNCHANGED <<buffer, size, content, appended>>
    BY DEF use_hash
  <1> QED BY <1>1, <1>3, <1>4, NewHash

\* A string that is not found is put into the table; what is interned is found.
LEMMA Intern ==
    ASSUME StringsGiven, StringsInv, NEW i \in Ids, IsString(i), intern_impl(i),
           UNCHANGED <<buffer, size, content, appended>>
    PROVE  StringsInv'
  <1>1. ObjectsInv /\ InternedInv
    BY DEF StringsInv
  <1>2. HashOf(objects[i].hash, objects[i].data) /\ (IsInterned(i) <=> i \in interned)
    BY <1>1 DEF InternedInv
  <1>3. Found(i) = {k \in interned : objects[k].data = objects[i].data}
    BY <1>1, FoundIs
  <1>4. CASE Found(i) # {}
    <2>1. Cached(i) \in Nat /\ HashOf(Cached(i), objects[i].data)
          /\ (Cached(i) >= InternedFlag <=> IsInterned(i))
      BY <1>1, <1>2, CachedHash
    <2>2. objects' = [objects EXCEPT ![i].hash = Cached(i)] /\ interned' = interned
      BY <1>4 DEF intern_impl
    <2> QED BY <2>1, <2>2, NewHash
  <1>5. CASE Found(i) = {}
    <2>1. \A k \in interned : objects[k].data # objects[i].data
      BY <1>3, <1>5
    <2>2. ~IsInterned(i)
      BY <1>2, <2>1
    <2>3. Cached(i) + InternedFlag \in Nat /\ HashOf(Cached(i) + InternedFlag, objects[i].data)
          /\ Cached(i) + InternedFlag >= InternedFlag
      BY <1>1, <1>2, <2>2, CachedHash
    <2>4. objects' = [objects EXCEPT ![i].hash = Cached(i) + InternedFlag]
          /\ interned' = interned \cup {i}
      BY <1>5 DEF intern_impl
    <2>5. PICK h \in Nat : h = Cached(i) + InternedFlag
      BY <2>3
    <2> QED BY <2>1, <2>3, <2>4, <2>5, NewHash
  <1> QED BY <1>4, <1>5

-----------------------------------------------------------------------------
(* Slices, iterators and copies. *)

\* A part of what an object stands for, made from the string behind it.
LEMMA NewPart ==
    ASSUME StringsGiven, StringsInv, NEW i \in Ids, NEW a \in Nat, NEW n \in Nat,
           a + n <= Len(content[i]), NEW t \in {"StringSlice", "StringIterator"},
           NEW s, s = SubSeq(content[i], a + 1, a + n),
           Create(IF IsString(i) THEN Part(t, i, a, n)
                  ELSE Part(t, objects[i].of, objects[i].offset + a, n), s)
    PROVE  StringsInv'
  <1>1. ObjectsInv
    BY DEF StringsInv
  <1>2. objects[i] \in StringObjects /\ Shows(objects, objects[i], content[i]) /\ content[i] \in Data
        /\ i \in Nat
    BY <1>1, ObjectFacts
  <1>3. s \in Data
    BY <1>2, PartIs
  <1>4. CASE IsString(i)
    <2> DEFINE o == Part(t, i, a, n)
    <2>1. objects[i].data = content[i] /\ objects[i].t = "String"
      BY <1>2, <1>4 DEF Shows, IsString
    <2>2. Within(content[i], 0, Len(content[i]), content[i])
      BY <1>2, WithinAll
    <2>3. Len(content[i]) \in Nat /\ 0 + a = a
      BY <1>2 DEF Data
    <2>4. Within(content[i], 0 + a, n, SubSeq(content[i], a + 1, a + n))
      BY <1>2, <2>2, <2>3, WithinPart
    <2>5. o \in StringObjects /\ o.hash = 0 /\ o.t # "String" /\ o.of = i /\ o.offset = a /\ o.size = n
      BY <1>2 DEF Part, StringObjects, Data
    <2>6. Shows(objects, o, s)
      BY <2>1, <2>3, <2>4, <2>5 DEF Shows, Ids
    <2>7. Create(o, s)
      BY <1>4
    <2> HIDE DEF o
    <2> QED BY <1>3, <2>5, <2>6, <2>7, NewObject
  <1>5. CASE ~IsString(i)
    <2> DEFINE o == Part(t, objects[i].of, objects[i].offset + a, n)
    <2>1. PICK b \in Nat, m \in Nat, j \in Nat :
            b = objects[i].offset /\ m = objects[i].size /\ j = objects[i].of
      BY <1>2 DEF StringObjects
    <2>2. j \in DOMAIN objects /\ objects[j].t = "String" /\ Within(objects[j].data, b, m, content[i])
      BY <1>2, <1>5, <2>1 DEF Shows, IsString
    <2>3. objects[j].data \in Data
      BY <1>1, <2>2, ObjectFacts DEF Ids, StringObjects
    <2>4. Len(content[i]) = m
      BY <2>2, <2>3, WithinIs
    <2>5. Within(objects[j].data, b + a, n, SubSeq(content[i], a + 1, a + n))
      BY <2>2, <2>3, <2>4, WithinPart
    <2>6. o \in StringObjects /\ o.hash = 0 /\ o.t # "String" /\ o.of = j /\ o.offset = b + a /\ o.size = n
      <3>1. PICK c \in Nat : c = b + a
        OBVIOUS
      <3>2. o = [t |-> t, data |-> <<>>, hash |-> 0, of |-> j, offset |-> c, size |-> n]
        BY <2>1, <3>1 DEF Part
      <3>3. <<>> \in Data
        BY DEF Data
      <3> HIDE DEF o
      <3> QED BY <3>1, <3>2, <3>3 DEF StringObjects
    <2>7. Shows(objects, o, s)
      BY <2>2, <2>5, <2>6 DEF Shows
    <2>8. Create(o, s)
      BY <1>5
    <2> HIDE DEF o
    <2> QED BY <1>3, <2>6, <2>7, <2>8, NewObject
  <1> QED BY <1>4, <1>5

\* Of what is behind the end there is nothing.
LEMMA NothingBehind ==
    ASSUME NEW d \in Data, NEW a \in Nat, a >= Len(d)
    PROVE  SubSeq(d, a + 1, Len(d)) = <<>> /\ SubSeq(d, Len(d) + 1, Len(d)) = <<>>
  BY DEF Data

\* The first bytes, at most all of them.
LEMMA SliceFirst ==
    ASSUME StringsGiven, StringsInv, NEW i \in Ids, NEW arg \in Int, slice_first(i, arg)
    PROVE  StringsInv'
  <1> DEFINE n == MinOf(slice_arg(arg), Size(i))
  <1>1. Size(i) = Len(content[i]) /\ content[i] \in Data
    BY ViewIs, ObjectFacts DEF StringsInv
  <1>2. n \in Nat /\ 0 + n = n /\ 0 + n <= Len(content[i])
    BY <1>1 DEF MinOf, slice_arg, Data
  <1>3. Create(StringSlice(i, 0, n), SubSeq(content[i], 1, n))
    BY <1>1 DEF slice_first
  <1> HIDE DEF n
  <1>4. objects[i].offset \in Nat
    BY ObjectFacts DEF StringsInv, StringObjects
  <1>5. Create(IF IsString(i) THEN Part("StringSlice", i, 0, n)
               ELSE Part("StringSlice", objects[i].of, objects[i].offset + 0, n),
               SubSeq(content[i], 0 + 1, 0 + n))
    BY <1>2, <1>3 DEF StringSlice
  <1> QED BY <1>2, <1>5, NewPart

\* The last bytes, at most all of them.
LEMMA SliceLast ==
    ASSUME StringsGiven, StringsInv, NEW i \in Ids, NEW arg \in Int, slice_last(i, arg)
    PROVE  StringsInv'
  <1> DEFINE n == MinOf(slice_arg(arg), Size(i))
             a == Size(i) - n
  <1>1. Size(i) = Len(content[i]) /\ content[i] \in Data
    BY ViewIs, ObjectFacts DEF StringsInv
  <1>2. n \in Nat /\ a \in Nat /\ a + n <= Len(content[i]) /\ a + n = Len(content[i])
    BY <1>1 DEF MinOf, slice_arg, Data
  <1>3. Create(StringSlice(i, a, n), SubSeq(content[i], a + 1, a + n))
    BY <1>1, <1>2 DEF slice_last
  <1> HIDE DEF n, a
  <1>4. Create(IF IsString(i) THEN Part("StringSlice", i, a, n)
               ELSE Part("StringSlice", objects[i].of, objects[i].offset + a, n),
               SubSeq(content[i], a + 1, a + n))
    BY <1>3 DEF StringSlice
  <1> QED BY <1>2, <1>4, NewPart

\* A slice from the middle, with both ends inside.
LEMMA Slice ==
    ASSUME StringsGiven, StringsInv, NEW i \in Ids, NEW arg1 \in Int, NEW arg2 \in Int,
           slice(i, arg1, arg2)
    PROVE  StringsInv'
  <1> DEFINE a == MinOf(slice_arg(arg1), Size(i))
             n == MinOf(slice_arg(arg2), Size(i) - a)
             x == slice_arg(arg1)
             y == slice_arg(arg2)
  <1>1. Size(i) = Len(content[i]) /\ content[i] \in Data /\ Len(content[i]) \in Nat
    BY ViewIs, ObjectFacts DEF StringsInv, Data
  <1>2. x \in Nat /\ y \in Nat
    BY DEF slice_arg
  <1> HIDE DEF x, y
  <1>3. a \in Nat /\ n \in Nat /\ a + n <= Len(content[i])
    BY <1>1, <1>2 DEF MinOf, x, y
  <1>4. Create(StringSlice(i, a, n), SubSeq(content[i], x + 1, MinOf(x + y, Len(content[i]))))
    BY DEF slice, x, y
  <1>5. SubSeq(content[i], x + 1, MinOf(x + y, Len(content[i]))) = SubSeq(content[i], a + 1, a + n)
    <2>1. CASE x <= Len(content[i])
      <3>1. a = x /\ MinOf(x + y, Len(content[i])) = a + n
        BY <1>1, <1>2, <2>1 DEF MinOf, x, y
      <3> QED BY <3>1
    <2>2. CASE x > Len(content[i])
      <3>1. a = Len(content[i]) /\ n = 0 /\ a + n = Len(content[i])
            /\ MinOf(x + y, Len(content[i])) = Len(content[i])
        BY <1>1, <1>2, <2>2 DEF MinOf, x, y
      <3>2. SubSeq(content[i], x + 1, Len(content[i])) = <<>>
            /\ SubSeq(content[i], Len(content[i]) + 1, Len(content[i])) = <<>>
        BY <1>1, <1>2, <2>2, NothingBehind
      <3> QED BY <3>1, <3>2
    <2>3. x <= Len(content[i]) \/ x > Len(content[i])
      BY <1>1, <1>2
    <2> QED BY <2>1, <2>2, <2>3, Zenon
  <1> HIDE DEF a, n
  <1>6. Create(IF IsString(i) THEN Part("StringSlice", i, a, n)
               ELSE Part("StringSlice", objects[i].of, objects[i].offset + a, n),
               SubSeq(content[i], a + 1, a + n))
    BY <1>4, <1>5 DEF StringSlice
  <1> QED BY <1>3, <1>6, NewPart

\* An iterator has everything before it.
LEMMA MakeIterator ==
    ASSUME StringsGiven, StringsInv, NEW i \in Ids, make_iterator(i)
    PROVE  StringsInv'
  <1>1. Size(i) = Len(content[i]) /\ content[i] \in Data /\ Len(content[i]) \in Nat
    BY ViewIs, ObjectFacts DEF StringsInv, Data
  <1>2. PICK n \in Nat : n = Len(content[i]) /\ 0 + n = n
    BY <1>1
  <1>3. content[i] = SubSeq(content[i], 0 + 1, 0 + n)
    <2>1. Within(content[i], 0, n, content[i])
      BY <1>1, <1>2, WithinAll
    <2> QED BY <1>1, <2>1, WithinIs
  <1>4. objects[i].offset \in Nat /\ objects[i].offset + 0 = objects[i].offset
    BY ObjectFacts DEF StringsInv, StringObjects
  <1>5. Create(IF IsString(i) THEN Part("StringIterator", i, 0, n)
               ELSE Part("StringIterator", objects[i].of, objects[i].offset + 0, n), content[i])
    BY <1>1, <1>2, <1>4 DEF make_iterator
  <1> QED BY <1>2, <1>3, <1>5, NewPart

\* A new string.
LEMMA NewText ==
    ASSUME StringsGiven, StringsInv, NEW s \in Data, Create(NewString(s), s)
    PROVE  StringsInv'
  <1> DEFINE o == NewString(s)
  <1>1. o \in StringObjects /\ o.hash = 0 /\ Shows(objects, o, s)
    BY DEF NewString, StringObjects, Shows
  <1> HIDE DEF o
  <1> QED BY <1>1, NewObject DEF o

\* The copy of a slice has the bytes that the slice shows.
LEMMA CopySlice ==
    ASSUME StringsGiven, StringsInv, NEW i \in Ids, to_string(i)
    PROVE  StringsInv'
  <1>1. view(i) = content[i] /\ content[i] \in Data
    BY ViewIs, ObjectFacts DEF StringsInv
  <1>2. Create(NewString(content[i]), content[i])
    BY <1>1 DEF to_string
  <1> QED BY <1>1, <1>2, NewText

\* One byte less is before the iterator, and stands for itself in a new string.
LEMMA IteratorNext ==
    ASSUME StringsGiven, StringsInv, NEW i \in Ids, iterator_next(i)
    PROVE  StringsInv'
  <1>1. ObjectsInv /\ InternedInv /\ BuilderInv
    BY DEF StringsInv
  <1>2. objects[i] \in StringObjects /\ Shows(objects, objects[i], content[i]) /\ content[i] \in Data
        /\ Ids = 1 .. Len(objects) /\ Len(objects) \in Nat
    BY <1>1, ObjectFacts
  <1>0. PICK a \in Nat, n \in Nat, j \in Nat :
            a = objects[i].offset /\ n = objects[i].size /\ j = objects[i].of
    BY <1>2 DEF StringObjects
  <1>3. PICK d : a = objects[i].offset /\ n = objects[i].size /\ j = objects[i].of /\ d = objects[j].data
    BY <1>0
  <1>4. objects[i].t = "StringIterator" /\ n > 0
    BY <1>3 DEF iterator_next
  <1>5. j \in Ids /\ objects[j].t = "String" /\ Within(d, a, n, content[i])
    BY <1>2, <1>3, <1>4 DEF Shows, Ids
  <1>6. d \in Data
    BY <1>1, <1>3, <1>5, ObjectFacts DEF StringObjects
  <1>7. Len(content[i]) = n /\ (\A k \in 1 .. n : content[i][k] = d[a + k]) /\ a + n <= Len(d)
    BY <1>5, <1>6, WithinIs DEF Within
  <1> DEFINE old == [objects EXCEPT ![i].offset = @ + 1, ![i].size = @ - 1]
             o == NewString(<<d[a + 1]>>)
             t == Tail(content[i])
             h == Head(content[i])
  <1>8. /\ objects' = Append(old, o)
        /\ content' = Append([content EXCEPT ![i] = t], <<h>>)
        /\ interned' = interned /\ buffer' = buffer /\ size' = size /\ appended' = appended
    BY <1>3 DEF iterator_next
  <1>9. h = d[a + 1] /\ h \in Nat /\ t \in Data /\ Len(t) = n - 1
        /\ \A k \in 1 .. n - 1 : t[k] = d[(a + 1) + k]
    BY <1>2, <1>4, <1>7 DEF Data
  <1> HIDE DEF t, h
  <1>10. Within(d, a + 1, n - 1, t)
    <2>1. t = [k \in 1 .. n - 1 |-> t[k]]
      BY <1>9 DEF Data
    <2>2. t = [k \in 1 .. n - 1 |-> d[(a + 1) + k]]
      BY <1>9, <2>1
    <2>3. (a + 1) + (n - 1) <= Len(d)
      BY <1>6, <1>7 DEF Data
    <2> QED BY <2>2, <2>3 DEF Within
  <1>11. <<h>> \in Data /\ o = NewString(<<h>>)
    BY <1>9 DEF Data
  <1>12. o \in StringObjects /\ o.t = "String" /\ o.data = <<h>> /\ o.hash = 0
    BY <1>11 DEF NewString, StringObjects
  <1> DEFINE m == Len(objects)
             p == [objects[i] EXCEPT !.offset = a + 1, !.size = n - 1]
  <1>13. /\ p \in StringObjects /\ p.t = "StringIterator" /\ p.of = j
         /\ p.offset = a + 1 /\ p.size = n - 1
    <2>1. a + 1 \in Nat /\ n - 1 \in Nat
      BY <1>4
    <2> QED BY <1>2, <1>3, <1>4, <2>1 DEF StringObjects
  <1>14. old = [objects EXCEPT ![i] = p]
    BY <1>2, <1>3 DEF StringObjects
  <1> HIDE DEF p, o
  <1>15. old \in Seq(StringObjects) /\ Len(old) = m /\ old[i] = p
         /\ \A k \in Ids : k # i => old[k] = objects[k]
    <2>1. objects \in Seq(StringObjects)
      BY <1>1 DEF ObjectsInv
    <2> HIDE DEF old
    <2> QED BY <1>2, <1>13, <1>14, <2>1
  <1> HIDE DEF old
  <1>16. /\ Ids' = 1 .. m + 1 /\ objects' \in Seq(StringObjects) /\ Len(objects') = m + 1
         /\ objects'[i] = p /\ objects'[m + 1] = o
         /\ \A k \in Ids : k # i => objects'[k] = objects[k]
    <2>1. m \in Nat /\ Ids = 1 .. m /\ objects' = Append(old, o)
      BY <1>2, <1>8
    <2> HIDE DEF m
    <2>2. objects' \in Seq(StringObjects) /\ Len(objects') = m + 1
          /\ objects'[m + 1] = o /\ \A k \in 1 .. m : objects'[k] = old[k]
      BY <1>12, <1>15, <2>1, AppendIs
    <2>3. Ids' = 1 .. m + 1
      BY <2>1, <2>2 DEF Ids
    <2>4. i \in 1 .. m
      BY <2>1
    <2>5. objects'[i] = p
      BY <1>15, <2>2, <2>4
    <2>7. ASSUME NEW k \in Ids, k # i
          PROVE  objects'[k] = objects[k]
      <3>1. k \in 1 .. m
        BY <2>1
      <3> QED BY <1>15, <2>2, <2>7, <3>1
    <2> QED BY <2>2, <2>3, <2>5, <2>7
  <1>17. /\ content' \in Seq(Data) /\ Len(content') = m + 1
         /\ content'[i] = t /\ content'[m + 1] = <<h>>
         /\ \A k \in Ids : k # i => content'[k] = content[k]
    <2>1. content \in Seq(Data) /\ Len(content) = m
      BY <1>1 DEF ObjectsInv
    <2> DEFINE c == [content EXCEPT ![i] = t]
    <2>2. c \in Seq(Data) /\ Len(c) = m /\ c[i] = t /\ \A k \in Ids : k # i => c[k] = content[k]
      BY <1>2, <1>9, <2>1
    <2> HIDE DEF c
    <2>3. content' = Append(c, <<h>>)
      BY <1>8 DEF c
    <2>4. m \in Nat /\ Ids = 1 .. m
      BY <1>2
    <2> HIDE DEF m
    <2>5. content' \in Seq(Data) /\ Len(content') = m + 1 /\ content'[m + 1] = <<h>>
          /\ \A k \in 1 .. m : content'[k] = c[k]
      BY <1>11, <2>2, <2>3, <2>4, AppendIs
    <2> QED BY <2>2, <2>4, <2>5
  <1> HIDE DEF m
  <1>18. \A k \in Ids' : k \in Ids \/ k = m + 1
    BY <1>2, <1>16 DEF m
  <1>19. \A k \in Ids : k \in Ids' /\ k # m + 1
    BY <1>2, <1>16 DEF m
  <1>20. \A k \in Ids : IsString(k) => k # i
    BY <1>4 DEF IsString
  <1>21. ASSUME NEW k \in Ids'
         PROVE  Shows(objects', objects'[k], content'[k])
    <2>1. CASE k = m + 1
      BY <1>12, <1>16, <1>17, <2>1 DEF Shows
    <2>2. CASE k = i
      <3>1. j \in DOMAIN objects' /\ objects'[j] = objects[j]
        BY <1>5, <1>16, <1>19, <1>20 DEF Ids, IsString
      <3> QED BY <1>3, <1>5, <1>10, <1>13, <1>16, <1>17, <2>2, <3>1 DEF Shows
    <2>3. CASE k \in Ids /\ k # i
      <3>1. objects'[k] = objects[k] /\ content'[k] = content[k]
            /\ Shows(objects, objects[k], content[k])
        BY <1>1, <1>16, <1>17, <2>3, ObjectFacts
      <3>2. CASE objects[k].t = "String"
        BY <3>1, <3>2 DEF Shows
      <3>3. CASE objects[k].t # "String"
        <4>1. objects[k].of \in Ids /\ objects[objects[k].of].t = "String"
              /\ Within(objects[objects[k].of].data, objects[k].offset, objects[k].size, content[k])
          BY <3>1, <3>3 DEF Shows, Ids
        <4>2. objects[k].of \in DOMAIN objects' /\ objects'[objects[k].of] = objects[objects[k].of]
          BY <1>16, <1>19, <1>20, <4>1 DEF Ids, IsString
        <4> QED BY <3>1, <3>3, <4>1, <4>2 DEF Shows
      <3> QED BY <3>2, <3>3
    <2> QED BY <1>18, <2>1, <2>2, <2>3
  <1>22. ObjectsInv'
    BY <1>16, <1>17, <1>21 DEF ObjectsInv
  <1>23. InternedInv'
    <2>1. \A k \in interned : k \in Ids /\ k # i /\ IsString(k)
      BY <1>1, <1>20 DEF InternedInv
    <2>2. \A k \in interned' : k \in Ids' /\ IsString(k)'
      BY <1>8, <1>16, <1>19, <2>1 DEF IsString
    <2>3. ASSUME NEW k \in Ids', IsString(k)'
          PROVE  HashOf(objects'[k].hash, objects'[k].data) /\ (IsInterned(k)' <=> k \in interned')
      <3>1. k # i
        BY <1>13, <1>16, <2>3 DEF IsString
      <3>2. CASE k \in Ids
        BY <1>1, <1>8, <1>16, <2>3, <3>1, <3>2 DEF InternedInv, IsString, IsInterned
      <3>3. CASE k = m + 1
        <4>1. InternedFlag \in Nat \ {0}
          BY StringsAssumption DEF StringsGiven
        <4>2. 0 % InternedFlag = 0 /\ 0 < 2 * InternedFlag /\ ~(0 >= InternedFlag)
          BY <4>1
        <4>3. objects'[k].hash = 0
          BY <1>12, <1>16, <3>3
        <4>4. k \notin interned
          BY <1>19, <2>1, <3>3
        <4> QED BY <1>8, <4>2, <4>3, <4>4 DEF HashOf, IsInterned
      <3> QED BY <1>18, <3>2, <3>3
    <2>4. ASSUME NEW k \in interned', NEW l \in interned', objects'[k].data = objects'[l].data
          PROVE  k = l
      <3>1. objects'[k] = objects[k] /\ objects'[l] = objects[l] /\ k \in interned /\ l \in interned
        BY <1>8, <1>16, <2>1
      <3>2. \A x, y \in interned : objects[x].data = objects[y].data => x = y
        BY <1>1 DEF InternedInv
      <3> QED BY <2>4, <3>1, <3>2
    <2> QED BY <2>2, <2>3, <2>4 DEF InternedInv
  <1>24. BuilderInv'
    BY <1>1, <1>8 DEF BuilderInv
  <1> QED BY <1>22, <1>23, <1>24 DEF StringsInv

-----------------------------------------------------------------------------
(* The builder. *)

\* Bytes are written behind the ones that are there, in the old buffer or in a larger
\* one that begins with the bytes of the old one.
LEMMA AppendImpl ==
    ASSUME StringsGiven, BuilderInv, NEW s \in Data, append_impl(s), appended' = appended \o s
    PROVE  BuilderInv'
  <1> DEFINE room == reserve_free(Len(s))
             n == Len(s)
  <1>1. n \in Nat /\ size \in Nat /\ buffer \in Data /\ appended \in Data /\ size = Len(appended)
        /\ Len(buffer) \in Nat /\ size <= Len(buffer) /\ \A k \in 1 .. size : buffer[k] = appended[k]
    BY DEF BuilderInv, Data
  <1>2. /\ room \in Data /\ size + n <= Len(room) /\ Len(room) \in Nat
        /\ \A k \in 1 .. size : room[k] = buffer[k]
    <2>1. CASE size + n <= Len(buffer)
      BY <1>1, <2>1 DEF reserve_free
    <2>2. CASE ~(size + n <= Len(buffer))
      <3> DEFINE c == next_capacity(size + n)
                 new == [k \in 1 .. c |-> IF k <= Len(buffer) THEN buffer[k] ELSE 0]
      <3>1. room = new
        BY <2>2, Zenon DEF reserve_free
      <3>2. MinCapacity \in Nat /\ size + n \in Nat
        BY <1>1, StringsAssumption
      <3>3. c \in Nat /\ c >= size + n
        BY <3>2, CapacitySuffices
      <3> HIDE DEF c, room
      <3>4. \A k \in 1 .. c : new[k] \in Nat
        BY <1>1, <3>3 DEF Data
      <3>5. new \in Data /\ Len(new) = c
        <4>1. new = [k \in 1 .. c |-> new[k]]
          OBVIOUS
        <4> HIDE DEF new
        <4> QED BY <3>3, <3>4, <4>1, IsData, Zenon
      <3>6. \A k \in 1 .. size : new[k] = buffer[k]
        BY <1>1, <3>3
      <3> HIDE DEF new
      <3> QED BY <3>1, <3>3, <3>5, <3>6
    <2> QED BY <2>1, <2>2
  <1>3. size' = size + n
        /\ buffer' = [k \in DOMAIN room |->
                        IF k \in size + 1 .. size + n THEN s[k - size] ELSE room[k]]
    BY Zenon DEF append_impl
  <1> HIDE DEF room
  <1>4. DOMAIN room = 1 .. Len(room) /\ \A k \in 1 .. Len(room) : room[k] \in Nat
    BY <1>2 DEF Data
  <1>5. \A k \in size + 1 .. size + n : k - size \in 1 .. n /\ s[k - size] \in Nat
    BY <1>1 DEF Data
  <1>6. \A k \in 1 .. Len(room) : buffer'[k] \in Nat
    BY <1>3, <1>4, <1>5
  <1>7. buffer' \in Data /\ Len(buffer') = Len(room)
    <2>1. buffer' = [k \in 1 .. Len(room) |-> buffer'[k]]
      BY <1>3, <1>4
    <2>2. Len(room) \in Nat
      BY <1>2
    <2> QED BY <1>6, <2>1, <2>2, IsData, Zenon
  <1>8. appended' \in Data /\ Len(appended') = size + n
        /\ \A k \in 1 .. size + n :
            appended'[k] = IF k <= size THEN appended[k] ELSE s[k - size]
    BY <1>1 DEF Data
  <1>9. ASSUME NEW k \in 1 .. size + n
        PROVE  buffer'[k] = appended'[k]
    <2>1. k \in 1 .. Len(room)
      BY <1>1, <1>2
    <2>2. CASE k <= size
      <3>1. k \in 1 .. size /\ k \notin size + 1 .. size + n
        BY <1>1, <2>2
      <3> QED BY <1>1, <1>2, <1>3, <1>4, <1>8, <2>1, <2>2, <3>1
    <2>3. CASE k > size
      <3>1. k \in size + 1 .. size + n /\ ~(k <= size)
        BY <1>1, <2>3
      <3> QED BY <1>3, <1>4, <1>8, <2>1, <3>1
    <2> QED BY <1>1, <2>2, <2>3
  <1>10. size' \in Nat /\ size' <= Len(buffer') /\ size' = Len(appended')
    BY <1>1, <1>2, <1>3, <1>7, <1>8
  <1> QED BY <1>3, <1>7, <1>8, <1>9, <1>10 DEF BuilderInv

\* What does not change the objects keeps what is known of them.
LEMMA SameObjects ==
    ASSUME StringsInv, BuilderInv', UNCHANGED <<objects, interned, content>>
    PROVE  StringsInv'
  <1>1. ObjectsInv'
    BY DEF StringsInv, ObjectsInv, Ids
  <1>2. InternedInv'
    BY DEF StringsInv, InternedInv, Ids, IsString, IsInterned
  <1> QED BY <1>1, <1>2 DEF StringsInv

\* A string or slice is appended; an empty one leaves the builder alone.
LEMMA AppendStep ==
    ASSUME StringsGiven, StringsInv, NEW i \in Ids, append(i)
    PROVE  StringsInv'
  <1>1. BuilderInv /\ view(i) = content[i] /\ Size(i) = Len(content[i]) /\ content[i] \in Data
    BY ViewIs, ObjectFacts DEF StringsInv
  <1>2. appended' = appended \o content[i] /\ UNCHANGED <<objects, interned, content>>
    BY DEF append
  <1>3. BuilderInv'
    <2>1. CASE Size(i) = 0
      <3>1. buffer' = buffer /\ size' = size
        BY <2>1 DEF append
      <3>2. appended' = appended
        <4>1. Len(content[i]) = 0
          BY <1>1, <2>1
        <4>2. content[i] = <<>>
          BY <1>1, <4>1 DEF Data
        <4> QED BY <1>1, <1>2, <4>2 DEF BuilderInv, Data
      <3> QED BY <1>1, <3>1, <3>2 DEF BuilderInv
    <2>2. CASE Size(i) # 0
      <3>1. append_impl(content[i])
        BY <1>1, <2>2 DEF append
      <3> QED BY <1>1, <1>2, <3>1, AppendImpl
    <2> QED BY <2>1, <2>2
  <1> QED BY <1>2, <1>3, SameObjects

\* One byte is appended.
LEMMA AppendByte ==
    ASSUME StringsGiven, StringsInv, NEW b \in Bytes, append_byte(b)
    PROVE  StringsInv'
  <1>1. b \in Nat /\ <<b>> \in Data
    BY StringsAssumption DEF StringsGiven, Data
  <1>2. BuilderInv /\ appended \in Data
    BY DEF StringsInv, BuilderInv
  <1>3. appended' = appended \o <<b>> /\ append_impl(<<b>>) /\ UNCHANGED <<objects, interned, content>>
    <2>1. Append(appended, b) = appended \o <<b>>
      BY <1>1, <1>2 DEF Data
    <2> QED BY <2>1 DEF append_byte
  <1>4. BuilderInv'
    BY <1>1, <1>2, <1>3, AppendImpl
  <1> QED BY <1>3, <1>4, SameObjects

\* Clearing keeps the buffer with its bytes, and counts none of them.
LEMMA ClearStep ==
    ASSUME StringsInv, clear
    PROVE  StringsInv'
  <1>1. BuilderInv'
    BY DEF StringsInv, BuilderInv, clear, Data
  <1> QED BY <1>1, SameObjects DEF clear

\* The text of the builder.
LEMMA BuilderText ==
    ASSUME BuilderInv
    PROVE  SubSeq(buffer, 1, size) = appended /\ appended \in Data
  <1>1. buffer \in Data /\ appended \in Data /\ size \in Nat /\ size <= Len(buffer)
        /\ size = Len(appended) /\ \A k \in 1 .. size : buffer[k] = appended[k]
    BY DEF BuilderInv
  <1>2. SubSeq(buffer, 0 + 1, 0 + size) = [k \in 1 .. size |-> buffer[0 + k]]
    BY <1>1, PartIs
  <1>3. \A k \in 1 .. size : buffer[0 + k] = appended[k]
    BY <1>1
  <1>4. appended = [k \in 1 .. size |-> appended[k]]
    BY <1>1 DEF Data
  <1>5. 0 + 1 = 1 /\ 0 + size = size
    BY <1>1
  <1> QED BY <1>1, <1>2, <1>3, <1>4, <1>5

-----------------------------------------------------------------------------
(* The theorem. *)

\* There is nothing at first.
LEMMA StringsInit ==
    ASSUME SInit
    PROVE  StringsInv
  BY DEF SInit, StringsInv, ObjectsInv, InternedInv, BuilderInv, Data, Ids

\* Every step keeps the invariant.
LEMMA StringsStep ==
    ASSUME StringsGiven, StringsInv, [SNext]_svars
    PROVE  StringsInv'
  <1>1. Contents \subseteq Data /\ SliceArgs \subseteq Int
    BY StringsAssumption DEF StringsGiven, Data
  <1>2. ASSUME NEW s \in Contents, Create(NewString(s), s)
        PROVE  StringsInv'
    BY <1>1, <1>2, NewText
  <1>3. ASSUME NEW i \in Ids, use_hash(i)
        PROVE  StringsInv'
    BY <1>3, UseHash
  <1>4. ASSUME NEW i \in Ids, get_interned_string(i)
        PROVE  StringsInv'
    BY <1>4, Intern DEF get_interned_string
  <1>5. ASSUME NEW i \in Ids, get_symbol(i)
        PROVE  StringsInv'
    BY <1>5, Intern DEF get_symbol
  <1>6. ASSUME NEW i \in Ids, to_string(i)
        PROVE  StringsInv'
    BY <1>6, CopySlice
  <1>7. ASSUME NEW i \in Ids, make_iterator(i)
        PROVE  StringsInv'
    BY <1>7, MakeIterator
  <1>8. ASSUME NEW i \in Ids, iterator_next(i)
        PROVE  StringsInv'
    BY <1>8, IteratorNext
  <1>9. ASSUME NEW i \in Ids, append(i)
        PROVE  StringsInv'
    BY <1>9, AppendStep
  <1>10. ASSUME NEW i \in Ids, NEW n \in SliceArgs, slice_first(i, n)
         PROVE  StringsInv'
    BY <1>1, <1>10, SliceFirst
  <1>11. ASSUME NEW i \in Ids, NEW n \in SliceArgs, slice_last(i, n)
         PROVE  StringsInv'
    BY <1>1, <1>11, SliceLast
  <1>12. ASSUME NEW i \in Ids, NEW n \in SliceArgs, NEW m \in SliceArgs, slice(i, n, m)
         PROVE  StringsInv'
    BY <1>1, <1>12, Slice
  <1>13. ASSUME NEW b \in Bytes, append_byte(b)
         PROVE  StringsInv'
    BY <1>13, AppendByte
  <1>14. CASE clear
    BY <1>14, ClearStep
  <1>15. CASE builder_to_string
    <2>1. SubSeq(buffer, 1, size) = appended /\ appended \in Data
      BY BuilderText DEF StringsInv
    <2>2. Create(NewString(appended), appended)
      BY <1>15, <2>1 DEF builder_to_string
    <2> QED BY <2>1, <2>2, NewText
  <1>16. CASE UNCHANGED svars
    <2>1. BuilderInv'
      BY <1>16 DEF StringsInv, BuilderInv, svars
    <2> QED BY <1>16, <2>1, SameObjects DEF svars
  <1> QED BY <1>2, <1>3, <1>4, <1>5, <1>6, <1>7, <1>8, <1>9, <1>10, <1>11, <1>12, <1>13, <1>14,
             <1>15, <1>16 DEF SNext

\* What the run checks follows from the invariant.
LEMMA StringsInvContents ==
    ASSUME StringsGiven, StringsInv
    PROVE  StringsAreContents
  <1>1. ObjectsInv /\ InternedInv /\ BuilderInv
    BY DEF StringsInv
  <1>2. PartsInside
    <2> SUFFICES ASSUME NEW i \in Ids, ~IsString(i)
                 PROVE  /\ IsString(objects[i].of)
                        /\ objects[i].offset >= 0 /\ objects[i].size >= 0
                        /\ objects[i].offset + objects[i].size <= Len(objects[objects[i].of].data)
      BY DEF PartsInside
    <2>1. objects[i] \in StringObjects /\ Shows(objects, objects[i], content[i])
      BY <1>1, ObjectFacts
    <2> QED BY <2>1 DEF Shows, Within, IsString, StringObjects
  <1>3. \A i \in Ids : view(i) = content[i]
    BY <1>1, ViewIs
  <1>4. size <= Len(buffer) /\ SubSeq(buffer, 1, size) = appended
    BY <1>1, BuilderText DEF BuilderInv
  <1>5. ASSUME NEW i \in Ids, NEW j \in Ids
        PROVE  /\ String_equal(i, j) <=> content[i] = content[j]
               /\ content[i] = content[j] => hash(i) = hash(j)
    <2>1. String_equal(i, j) <=> content[i] = content[j]
      BY <1>1, EqualIs
    <2>2. hash(i) = str_hash(content[i]) /\ hash(j) = str_hash(content[j])
      BY <1>1, HashIs
    <2> QED BY <2>1, <2>2
  <1> QED BY <1>2, <1>3, <1>4, <1>5 DEF StringsAreContents

\* Strings, slices of slices, iterators and the builder have the bytes they were asked for;
\* equality and hashes are those of the bytes, whether interned or cached, and every name has
\* one symbol (String::equal, StringSlice::hash, Context::intern_impl, StringBuilder).
THEOREM StringsAreContentsCorrect ==
    ASSUME \A s \in Seq(Nat) : byte_hash(s) \in Nat
    PROVE  SSpec => []StringsAreContents
  <1>1. StringsGiven
    BY DEF StringsGiven, Data
  <1>2. SInit => StringsInv
    BY StringsInit
  <1>3. StringsInv /\ [SNext]_svars => StringsInv'
    BY <1>1, StringsStep
  <1>4. StringsInv => StringsAreContents
    BY <1>1, StringsInvContents
  <1> QED BY <1>2, <1>3, <1>4, PTL DEF SSpec
=============================================================================

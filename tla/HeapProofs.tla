----------------------------- MODULE HeapProofs -----------------------------
(***************************************************************************)
(* Proofs about Heap, for pages of any size, any classes of free blocks    *)
(* and any requests.                                                       *)
(***************************************************************************)
EXTENDS Heap, SequenceTheorems, FiniteSetTheorems, WellFoundedInduction, TLAPS

\* Sizes are positive (the assumptions on the constants, split).
LEMMA Sizes ==
    /\ Cells \in Nat \ {0} /\ LargeCells \in Nat \ {0} /\ CellSize \in Nat \ {0}
    /\ Requests \subseteq (Nat \ {0}) \X BOOLEAN
  BY HeapAssumption

-----------------------------------------------------------------------------
(* Sets of numbers. *)

\* A set of natural numbers has a least element.
LEMMA LeastNumber ==
    ASSUME NEW T, T \subseteq Nat, T # {}
    PROVE  Min(T) \in T /\ \A y \in T : Min(T) <= y
  <1> DEFINE R == {ss \in Nat \X Nat : ss[1] < ss[2]}
  <1>1. IsWellFoundedOn(R, Nat)
    BY NatLessThanWellFounded, Zenon DEF OpToRel
  <1>2. PICK x \in T : \A y \in T : ~(<<y, x>> \in R)
    <2> HIDE DEF R
    <2> QED BY <1>1, WFMin
  <1>3. \A y \in T : (y < x) => <<y, x>> \in R
    OBVIOUS
  <1>4. \A y \in T : ~(y < x)
    <2> HIDE DEF R
    <2> QED BY <1>2, <1>3
  <1>5. \A y \in T : x <= y
    BY <1>4
  <1> QED BY <1>5 DEF Min

\* What NextIn computes.
LEMMA NextInProperties ==
    ASSUME NEW s \in SUBSET CellIndices, NEW c \in CellIndices
    PROVE  /\ NextIn(s, c) \in Nat
           /\ c < NextIn(s, c) /\ NextIn(s, c) <= Cells
           /\ NextIn(s, c) \in s \cup {Cells}
           /\ \A d \in s : c < d => NextIn(s, c) <= d
  <1> DEFINE T == {d \in s : d > c} \cup {Cells}
  <1>1. T \subseteq Nat /\ T # {} /\ T \subseteq s \cup {Cells} /\ \A d \in T : d <= Cells
    <2>1. s \subseteq Nat /\ \A d \in s : d <= Cells
      BY Sizes DEF CellIndices
    <2>2. Cells \in Nat /\ Cells <= Cells
      BY Sizes
    <2> QED BY <2>1, <2>2
  <1>2. \A d \in T : c < d
    BY Sizes DEF CellIndices
  <1>3. \A d \in s : c < d => d \in T
    BY DEF CellIndices
  <1>4. NextIn(s, c) = Min(T)
    BY DEF NextIn
  <1> HIDE DEF T
  <1>5. Min(T) \in T /\ \A y \in T : Min(T) <= y
    BY <1>1, LeastNumber
  <1> QED BY <1>1, <1>2, <1>3, <1>4, <1>5

\* These facts determine it.
LEMMA NextInUnique ==
    ASSUME NEW s \in SUBSET CellIndices, NEW c \in CellIndices,
           NEW e \in Nat, c < e, e <= Cells, e \in s \cup {Cells},
           \A d \in s : c < d => e <= d
    PROVE  NextIn(s, c) = e
  <1>1. NextIn(s, c) \in Nat /\ NextIn(s, c) \in s \cup {Cells} /\ NextIn(s, c) <= Cells
        /\ c < NextIn(s, c) /\ \A d \in s : c < d => NextIn(s, c) <= d
    BY NextInProperties
  <1>2. NextIn(s, c) <= e
    BY <1>1
  <1>3. e <= NextIn(s, c)
    BY <1>1
  <1> QED BY <1>1, <1>2, <1>3

\* The number of a new large object is not taken.
LEMMA FreshNumber ==
    ASSUME NEW D, IsFiniteSet(D)
    PROVE  LET n == Min((1 .. Cardinality(D) + 1) \ D) IN n \in Nat \ {0} /\ n \notin D
  <1> DEFINE k == Cardinality(D)
             T == (1 .. k + 1) \ D
  <1>1. k \in Nat
    BY FS_CardinalityType
  <1>2. IsFiniteSet(1 .. k + 1) /\ Cardinality(1 .. k + 1) = k + 1
    <2>1. k + 1 \in Int /\ 1 \in Int /\ ~(1 > k + 1) /\ (k + 1) - 1 + 1 = k + 1
      BY <1>1
    <2> HIDE DEF k
    <2> QED BY <2>1, FS_Interval
  <1>3. T # {}
    <2> SUFFICES ASSUME (1 .. k + 1) \subseteq D
                 PROVE  FALSE
      OBVIOUS
    <2>1. Cardinality(1 .. k + 1) <= k
      BY FS_Subset
    <2> QED BY <1>1, <1>2, <2>1
  <1>4. T \subseteq Nat
    BY <1>1
  <1>5. Min(T) \in T
    BY <1>3, <1>4, LeastNumber
  <1> QED BY <1>1, <1>5

\* A request takes at least one cell.
LEMMA PositiveQuotient ==
    ASSUME NEW b \in Nat \ {0}, NEW d \in Nat \ {0}
    PROVE  ceil_div(b, d) \in Nat \ {0}
  <1>1. b + d - 1 \in Nat /\ d <= b + d - 1
    OBVIOUS
  <1>2. \A a \in Nat : d <= a => a \div d \in Nat \ {0}
    OBVIOUS
  <1> QED BY <1>1, <1>2 DEF ceil_div

-----------------------------------------------------------------------------
(* Sequences that contain every element of a set once. *)

Enumerates(s, S) ==
    /\ s \in Seq(S)
    /\ \A x \in S : \E k \in 1 .. Len(s) : s[k] = x
    /\ \A j, k \in 1 .. Len(s) : s[j] = s[k] => j = k

LEMMA EnumeratesRange ==
    ASSUME NEW S, NEW s, Enumerates(s, S)
    PROVE  IsInjective(s) /\ Range(s) = S
  <1>1. DOMAIN s = 1 .. Len(s) /\ s \in [1 .. Len(s) -> S]
    BY LenProperties DEF Enumerates
  <1> QED BY <1>1 DEF Enumerates, IsInjective, Range

LEMMA EnumeratesNothing == Enumerates(<<>>, {})
  <1>1. <<>> \in Seq({}) /\ Len(<<>>) = 0
    BY EmptySeq
  <1>2. 1 .. Len(<<>>) = {}
    BY <1>1
  <1> QED BY <1>1, <1>2 DEF Enumerates

LEMMA EnumeratesOne ==
    ASSUME NEW b
    PROVE  Enumerates(<<b>>, {b})
  <1>1. <<b>> \in Seq({b}) /\ Len(<<b>>) = 1 /\ <<b>>[1] = b
    OBVIOUS
  <1>2. 1 \in 1 .. 1 /\ \A j \in 1 .. 1 : j = 1
    OBVIOUS
  <1> QED BY <1>1, <1>2 DEF Enumerates

LEMMA EnumeratesConcat ==
    ASSUME NEW S, NEW T, NEW s, NEW t, Enumerates(s, S), Enumerates(t, T), S \cap T = {}
    PROVE  Enumerates(s \o t, S \cup T)
  <1> DEFINE U == S \cup T
             m == Len(s)
             n == Len(t)
             u == s \o t
  <1>1. s \in Seq(U) /\ t \in Seq(U)
    BY SeqMonotonic DEF Enumerates
  <1>2. m \in Nat /\ n \in Nat
    BY <1>1, LenProperties
  <1>3. u \in Seq(U) /\ Len(u) = m + n
        /\ \A i \in 1 .. m + n : u[i] = IF i <= m THEN s[i] ELSE t[i - m]
    BY <1>1, ConcatProperties
  <1>4. /\ \A i \in 1 .. m : s[i] \in S
        /\ \A i \in 1 .. n : t[i] \in T
    BY ElementOfSeq DEF Enumerates
  <1>5. /\ \A x \in S : \E k \in 1 .. m : s[k] = x
        /\ \A x \in T : \E k \in 1 .. n : t[k] = x
        /\ \A j, k \in 1 .. m : s[j] = s[k] => j = k
        /\ \A j, k \in 1 .. n : t[j] = t[k] => j = k
    BY DEF Enumerates
  <1> HIDE DEF U, m, n, u
  <1>6. ASSUME NEW x \in U
        PROVE  \E k \in 1 .. m + n : u[k] = x
    <2>1. CASE x \in S
      <3>1. PICK k \in 1 .. m : s[k] = x
        BY <2>1, <1>5
      <3>2. k \in 1 .. m + n /\ k <= m
        BY <1>2
      <3> QED BY <3>1, <3>2, <1>3
    <2>2. CASE x \in T
      <3>1. PICK k \in 1 .. n : t[k] = x
        BY <2>2, <1>5
      <3>2. m + k \in 1 .. m + n /\ ~(m + k <= m) /\ (m + k) - m = k
        BY <1>2
      <3>3. u[m + k] = t[(m + k) - m]
        BY <3>2, <1>3
      <3> QED BY <3>1, <3>2, <3>3
    <2> QED BY <2>1, <2>2 DEF U
  <1>7. ASSUME NEW j \in 1 .. m + n, NEW k \in 1 .. m + n, u[j] = u[k]
        PROVE  j = k
    <2>1. \A i \in 1 .. m + n : i <= m => i \in 1 .. m /\ u[i] = s[i] /\ u[i] \in S
      <3> SUFFICES ASSUME NEW i \in 1 .. m + n, i <= m
                   PROVE  i \in 1 .. m /\ u[i] = s[i] /\ u[i] \in S
        OBVIOUS
      <3>1. i \in 1 .. m
        BY <1>2
      <3> QED BY <3>1, <1>3, <1>4
    <2>2. \A i \in 1 .. m + n : ~(i <= m) => i - m \in 1 .. n /\ u[i] = t[i - m] /\ u[i] \in T
      <3> SUFFICES ASSUME NEW i \in 1 .. m + n, ~(i <= m)
                   PROVE  i - m \in 1 .. n /\ u[i] = t[i - m] /\ u[i] \in T
        OBVIOUS
      <3>1. i - m \in 1 .. n
        BY <1>2
      <3> QED BY <3>1, <1>3, <1>4
    <2>3. CASE j <= m /\ k <= m
      BY <2>1, <2>3, <1>7, <1>5
    <2>4. CASE ~(j <= m) /\ ~(k <= m)
      <3>1. j - m = k - m
        BY <2>2, <2>4, <1>7, <1>5
      <3> QED BY <3>1, <1>2
    <2>5. CASE j <= m /\ ~(k <= m)
      BY <2>1, <2>2, <2>5, <1>7
    <2>6. CASE ~(j <= m) /\ k <= m
      BY <2>1, <2>2, <2>6, <1>7
    <2> QED BY <2>3, <2>4, <2>5, <2>6
  <1> QED BY <1>3, <1>6, <1>7 DEF Enumerates, U, u

\* One more element at the head.
LEMMA EnumeratesCons ==
    ASSUME NEW S, NEW s, NEW b, Enumerates(s, S), b \notin S
    PROVE  Enumerates(<<b>> \o s, S \cup {b})
  <1>1. Enumerates(<<b>> \o s, {b} \cup S)
    BY EnumeratesOne, EnumeratesConcat, {b} \cap S = {}
  <1>2. {b} \cup S = S \cup {b}
    OBVIOUS
  <1> QED BY <1>1, <1>2

LEMMA EnumeratesRemoveAt ==
    ASSUME NEW S, NEW s, NEW k \in 1 .. Len(s), Enumerates(s, S)
    PROVE  Enumerates(RemoveAt(s, k), S \ {s[k]})
  <1> DEFINE n == Len(s)
             a == SubSeq(s, 1, k - 1)
             z == SubSeq(s, k + 1, n)
             A == {s[i] : i \in 1 .. (k - 1)}
             Z == {s[i] : i \in (k + 1) .. n}
  <1>1. n \in Nat /\ \A i \in 1 .. n : s[i] \in S
    BY LenProperties, ElementOfSeq DEF Enumerates
  <1>2. /\ \A x \in S : \E i \in 1 .. n : s[i] = x
        /\ \A i, j \in 1 .. n : s[i] = s[j] => i = j
    BY DEF Enumerates
  <1>3. k \in Nat /\ 1 <= k /\ k <= n
    BY <1>1
  <1>4. /\ \A i \in 1 .. (k - 1) : i \in 1 .. n /\ i # k
        /\ \A i \in (k + 1) .. n : i \in 1 .. n /\ i # k
        /\ \A i \in 1 .. n : i # k => i \in 1 .. (k - 1) \/ i \in (k + 1) .. n
        /\ \A i \in 1 .. (k - 1) : i \notin (k + 1) .. n
    BY <1>1, <1>3
  <1>5. Enumerates(a, A)
    <2>1. k - 1 \in Int /\ 1 \in Int /\ \A i \in 1 .. (k - 1) : s[i] \in A
      BY <1>3
    <2>2. /\ a \in Seq(A)
          /\ Len(a) = IF 1 <= k - 1 THEN k - 1 - 1 + 1 ELSE 0
          /\ \A i \in 1 .. (k - 1) - 1 + 1 : a[i] = s[1 + i - 1]
      <3> HIDE DEF A
      <3> QED BY <2>1, SubSeqProperties
    <2>3. Len(a) = k - 1 /\ \A i \in 1 .. (k - 1) : a[i] = s[i]
      BY <1>3, <2>2
    <2> HIDE DEF a, n
    <2>4. \A x \in A : \E i \in 1 .. Len(a) : a[i] = x
      BY <2>3
    <2> HIDE DEF A
    <2>5. \A i, j \in 1 .. Len(a) : a[i] = a[j] => i = j
      BY <2>3, <1>2, <1>4
    <2> QED BY <2>2, <2>4, <2>5 DEF Enumerates
  <1>6. Enumerates(z, Z)
    <2>1. k + 1 \in Int /\ n \in Int /\ \A i \in (k + 1) .. n : s[i] \in Z
      BY <1>1, <1>3
    <2>2. /\ z \in Seq(Z)
          /\ Len(z) = IF k + 1 <= n THEN n - (k + 1) + 1 ELSE 0
          /\ \A i \in 1 .. n - (k + 1) + 1 : z[i] = s[(k + 1) + i - 1]
      <3> HIDE DEF Z, n
      <3> QED BY <2>1, SubSeqProperties
    <2>3. Len(z) = n - k /\ \A i \in 1 .. (n - k) : z[i] = s[k + i] /\ k + i \in (k + 1) .. n
      <3> HIDE DEF z, n
      <3>1. n - (k + 1) + 1 = n - k
        BY <1>1, <1>3
      <3>2. Len(z) = n - k
        BY <1>1, <1>3, <2>2
      <3>3. \A i \in 1 .. (n - k) : (k + 1) + i - 1 = k + i /\ k + i \in (k + 1) .. n
        BY <1>1, <1>3
      <3> QED BY <3>1, <3>2, <3>3, <2>2
    <2> HIDE DEF z, n
    <2>4. \A i \in (k + 1) .. n : i - k \in 1 .. (n - k) /\ z[i - k] = s[i]
      <3> SUFFICES ASSUME NEW i \in (k + 1) .. n
                   PROVE  i - k \in 1 .. (n - k) /\ z[i - k] = s[i]
        OBVIOUS
      <3>1. i - k \in 1 .. (n - k) /\ k + (i - k) = i
        BY <1>1, <1>3
      <3> QED BY <3>1, <2>3
    <2>5. \A x \in Z : \E i \in 1 .. Len(z) : z[i] = x
      BY <2>3, <2>4
    <2>6. ASSUME NEW i \in 1 .. (n - k), NEW j \in 1 .. (n - k), z[i] = z[j]
          PROVE  i = j
      <3>a. PICK x, y : x = k + i /\ y = k + j
        OBVIOUS
      <3>b. x \in 1 .. n /\ y \in 1 .. n
        BY <3>a, <1>1, <1>3
      <3>c. z[i] = s[x] /\ z[j] = s[y]
        BY <3>a, <2>3
      <3>d. x = y
        BY <3>b, <3>c, <2>6, <1>2, <1>4
      <3>1. k + i = k + j
        BY <3>a, <3>d
      <3> QED BY <3>1, <1>1, <1>3
    <2>7. z \in Seq(Z) /\ Len(z) = n - k
      BY <2>2, <2>3
    <2>8. \A i, j \in 1 .. Len(z) : z[i] = z[j] => i = j
      BY <2>6, <2>7
    <2> HIDE DEF Z
    <2> QED BY ONLY <2>5, <2>7, <2>8 DEF Enumerates
  <1>7. A \cap Z = {}
    BY <1>2, <1>4
  <1>8. A \cup Z = S \ {s[k]}
    <2>1. A \cup Z \subseteq S \ {s[k]}
      BY <1>1, <1>2, <1>3, <1>4
    <2>2. S \ {s[k]} \subseteq A \cup Z
      BY <1>2, <1>4
    <2> QED BY <2>1, <2>2
  <1> HIDE DEF A, Z, a, z
  <1>9. Enumerates(a \o z, A \cup Z)
    BY <1>5, <1>6, <1>7, EnumeratesConcat
  <1>10. RemoveAt(s, k) = a \o z
    BY DEF RemoveAt, a, z, n
  <1> QED BY <1>8, <1>9, <1>10

\* Numbers in descending order.
LEMMA EnumeratesDescending ==
    ASSUME NEW S \in SUBSET Nat, IsFiniteSet(S)
    PROVE  Enumerates(Descending(S), S)
  <1> DEFINE n == Cardinality(S)
             above(c) == {d \in S : d > c}
             rank == [c \in S |-> Cardinality(above(c)) + 1]
             s == Descending(S)
  <1>1. n \in Nat
    BY FS_CardinalityType
  <1>2. \A c \in S : IsFiniteSet(above(c)) /\ Cardinality(above(c)) \in Nat
                     /\ Cardinality(above(c)) <= n
    <2> SUFFICES ASSUME NEW c \in S
                 PROVE  IsFiniteSet(above(c)) /\ Cardinality(above(c)) \in Nat
                        /\ Cardinality(above(c)) <= n
      OBVIOUS
    <2>1. above(c) \in SUBSET S
      OBVIOUS
    <2> HIDE DEF above
    <2> QED BY <2>1, FS_Subset, FS_CardinalityType
  <1>3. \A c \in S : Cardinality(above(c)) # n
    <2> SUFFICES ASSUME NEW c \in S, Cardinality(above(c)) = n
                 PROVE  FALSE
      OBVIOUS
    <2>1. above(c) \in SUBSET S /\ c \notin above(c)
      OBVIOUS
    <2> HIDE DEF above
    <2>2. S = above(c)
      BY <2>1, FS_Subset
    <2> QED BY <2>1, <2>2
  <1>4. ASSUME NEW c \in S, NEW d \in S, c < d
        PROVE  Cardinality(above(c)) # Cardinality(above(d))
    <2>1. d \in above(c)
      BY <1>4
    <2>2. \A e \in S : e > d => e > c
      BY <1>4
    <2>3. above(d) \subseteq above(c)
      BY <2>2
    <2>4. ~(d > d)
      OBVIOUS
    <2>5. d \notin above(d)
      BY <2>4
    <2> HIDE DEF above
    <2> QED BY <2>1, <2>3, <2>5, <1>2, FS_Subset
  <1>5. \A c, d \in S : Cardinality(above(c)) = Cardinality(above(d)) => c = d
    <2> HIDE DEF above
    <2> QED BY <1>4
  <1>6. rank \in Injection(S, 1 .. n)
    <2> HIDE DEF above
    <2>1. \A c \in S : rank[c] = Cardinality(above(c)) + 1
      OBVIOUS
    <2>2. \A c \in S : rank[c] \in 1 .. n
      BY <1>1, <1>2, <1>3, <2>1
    <2>3. \A c, d \in S : rank[c] = rank[d] => c = d
      BY <1>2, <1>5, <2>1
    <2>4. rank \in [S -> 1 .. n]
      BY <2>2
    <2> HIDE DEF rank
    <2>5. DOMAIN rank = S
      BY <2>4
    <2> QED BY <2>3, <2>4, <2>5 DEF Injection, IsInjective
  <1>7. IsFiniteSet(1 .. n) /\ Cardinality(1 .. n) = n
    <2>1. 1 \in Int /\ n \in Int /\ (1 > n => n = 0) /\ n - 1 + 1 = n
      BY <1>1
    <2> HIDE DEF n
    <2> QED BY <2>1, FS_Interval
  <1>8. rank \in Surjection(S, 1 .. n)
    <2> HIDE DEF rank
    <2> QED BY <1>6, <1>7, FS_Injection
  <1>9. \A k \in 1 .. n : \E c \in S : Cardinality(above(c)) = k - 1
    <2> SUFFICES ASSUME NEW k \in 1 .. n
                 PROVE  \E c \in S : Cardinality(above(c)) = k - 1
      OBVIOUS
    <2>1. PICK c \in S : rank[c] = k
      <3> HIDE DEF rank
      <3> QED BY <1>8 DEF Surjection
    <2> HIDE DEF above
    <2>2. Cardinality(above(c)) + 1 = k
      BY <2>1
    <2> QED BY <2>2, <1>1, <1>2
  <1>10. \A k \in 1 .. n : s[k] \in S /\ Cardinality(above(s[k])) = k - 1
    <2> SUFFICES ASSUME NEW k \in 1 .. n
                 PROVE  s[k] \in S /\ Cardinality(above(s[k])) = k - 1
      OBVIOUS
    <2>1. s[k] = CHOOSE c \in S : Cardinality(above(c)) = k - 1
      BY DEF Descending
    <2> HIDE DEF above, s, n
    <2> QED BY <2>1, <1>9
  <1>11. s \in [1 .. n -> S]
    <2> DEFINE pick(k) == CHOOSE c \in S : Cardinality(above(c)) = k - 1
    <2>1. s = [k \in 1 .. n |-> pick(k)]
      BY DEF Descending
    <2> HIDE DEF s, n, above, pick
    <2>2. \A k \in 1 .. n : pick(k) \in S
      BY <2>1, <1>10
    <2> QED BY <2>1, <2>2
  <1> HIDE DEF s, n, above
  <1>12. s \in Seq(S) /\ Len(s) = n
    BY <1>1, <1>11
  <1>13. ASSUME NEW x \in S
         PROVE  \E k \in 1 .. n : s[k] = x
    <2>1. Cardinality(above(x)) + 1 \in 1 .. n /\ (Cardinality(above(x)) + 1) - 1 = Cardinality(above(x))
      BY <1>1, <1>2, <1>3
    <2>2. s[Cardinality(above(x)) + 1] = x
      BY <2>1, <1>5, <1>10
    <2> QED BY <2>1, <2>2
  <1>14. ASSUME NEW j \in 1 .. n, NEW k \in 1 .. n, s[j] = s[k]
         PROVE  j = k
    <2>1. j - 1 = k - 1
      BY <1>10, <1>14
    <2> QED BY <2>1, <1>1
  <1> QED BY <1>12, <1>13, <1>14 DEF Enumerates, s

-----------------------------------------------------------------------------
(* The invariant. *)

PageRecords == [block : SUBSET CellIndices, mark : SUBSET CellIndices, finalizers : SUBSET CellIndices]
LobRecords  == [cells : Nat, marked : BOOLEAN, finalizer : BOOLEAN]

\* The request has its fields, and a size while the allocation is in progress.
RequestTypes ==
    /\ DOMAIN request = DOMAIN NoRequest
    /\ request.bytes \in Nat /\ request.finalizer \in BOOLEAN
    /\ stage \notin {"run", "destroyed"} => request.bytes # 0

\* The heap has the types of its variables; only the sweep leaves pages to be swept.
HeapTypes ==
    /\ pages \in Seq(PageRecords)
    /\ lobs \in [DOMAIN lobs -> LobRecords] /\ DOMAIN lobs \subseteq Nat /\ IsFiniteSet(DOMAIN lobs)
    /\ DOMAIN lists = 0 .. (ClassCount - 1)
    /\ stage \in Stages
    /\ RequestTypes
    /\ to_sweep \subseteq DOMAIN pages /\ (stage # "sweep" => to_sweep = {})

\* Roots rs and objects os refer to objects of os.
References(rs, os) ==
    /\ DOMAIN os \subseteq Nat \X Nat
    /\ os \in [DOMAIN os -> [cells : Nat, finalizer : BOOLEAN, finalized : Nat,
                             field : DOMAIN os \cup {null}]]
    /\ rs \subseteq DOMAIN os

\* Between collections nothing is marked; the sweep resets the marks of a page.
MarksReset ==
    stage # "trace" =>
        /\ \A p \in DOMAIN pages \ to_sweep : pages[p].block \cap pages[p].mark = {}
        /\ \A n \in DOMAIN lobs : ~lobs[n].marked

\* What a marked object refers to is marked, unless it is still to be traced.
MarksClosed ==
    stage = "trace" =>
        /\ to_trace \subseteq Reachable
        /\ \A r \in roots : Marked(r)
        /\ \A r \in Reachable \ to_trace :
            Marked(r) /\ objects[r].field # null => Marked(objects[r].field)

\* On pages that are to be swept, what can be reached is marked.
MarksComplete ==
    stage = "sweep" => \A r \in Reachable : r[1] \in to_sweep => r[2] \in pages[r[1]].mark

\* The free blocks of the pages that have been swept.
FreeSpace == UNION {FreeBlocksOf(p) : p \in DOMAIN pages \ to_sweep}

\* Lists ls contain the blocks in S, by size classes.
Listed(ls, S) == \A i \in DOMAIN ls : Enumerates(ls[i], {b \in S : class_index(b.size) = i})

\* The lists contain the free blocks; every cell belongs to a block.
ListsMatch ==
    stage # "destroyed" =>
        /\ \A p \in DOMAIN pages : 0 \in Starts(p)
        /\ Listed(lists, FreeSpace)

HeapInv ==
    /\ HeapTypes /\ References(roots, objects)
    /\ ObjectsIntact
    /\ MarksReset /\ MarksClosed /\ MarksComplete
    /\ ListsMatch

-----------------------------------------------------------------------------
(* References. *)

\* What can be reached is among the objects, contains the roots, and everything
\* that its members refer to.
LEMMA ReachableClosed ==
    ASSUME NEW rs, NEW os, References(rs, os)
    PROVE  /\ ReachableFrom(rs, os) \subseteq DOMAIN os
           /\ rs \subseteq ReachableFrom(rs, os)
           /\ \A r \in ReachableFrom(rs, os) :
                os[r].field \in ReachableFrom(rs, os) \cup {null}
  <1> DEFINE closed == {s \in {rs \cup t : t \in SUBSET (DOMAIN os \ rs)} : Fields(os, s) \subseteq s}
  <1>1. ReachableFrom(rs, os) = {r \in DOMAIN os : \A s \in closed : r \in s}
    BY DEF ReachableFrom
  <1>2. \A s \in closed : rs \subseteq s /\ Fields(os, s) \subseteq s
    OBVIOUS
  <1>3. rs \subseteq DOMAIN os /\ \A r \in DOMAIN os : os[r].field \in DOMAIN os \cup {null}
    BY DEF References
  <1> HIDE DEF closed
  <1>4. \A r \in DOMAIN os : (\A s \in closed : r \in s) =>
            os[r].field = null \/ \A s \in closed : os[r].field \in s
    BY <1>2 DEF Fields
  <1> QED BY <1>1, <1>2, <1>3, <1>4

\* It is the least such set.
LEMMA ReachableLeast ==
    ASSUME NEW rs, NEW os, NEW S, References(rs, os), rs \subseteq S,
           \A r \in S \cap DOMAIN os : os[r].field \in S \cup {null}
    PROVE  ReachableFrom(rs, os) \subseteq S
  <1> DEFINE closed == {s \in {rs \cup t : t \in SUBSET (DOMAIN os \ rs)} : Fields(os, s) \subseteq s}
             T == S \cap DOMAIN os
  <1>1. ReachableFrom(rs, os) = {r \in DOMAIN os : \A s \in closed : r \in s}
    BY DEF ReachableFrom
  <1>2. rs \subseteq T /\ \A r \in T : os[r].field \in T \cup {null}
    BY DEF References
  <1>3. T = rs \cup (T \ rs) /\ T \ rs \in SUBSET (DOMAIN os \ rs)
    BY <1>2
  <1>4. Fields(os, T) \subseteq T
    BY <1>2 DEF Fields
  <1>5. T \in closed
    BY <1>3, <1>4
  <1> QED BY <1>1, <1>5

\* The parts of an object.
LEMMA ObjectTypes ==
    ASSUME NEW rs, NEW os, References(rs, os), NEW r \in DOMAIN os
    PROVE  /\ r = <<r[1], r[2]>> /\ r[1] \in Nat /\ r[2] \in Nat
           /\ os[r] \in [cells : Nat, finalizer : BOOLEAN, finalized : Nat, field : DOMAIN os \cup {null}]
           /\ os[r].field \in DOMAIN os \cup {null}
           /\ os[r].finalized \in Nat
  <1>1. DOMAIN os \subseteq Nat \X Nat /\ r \in Nat \X Nat
    BY DEF References
  <1>2. os[r] \in [cells : Nat, finalizer : BOOLEAN, finalized : Nat, field : DOMAIN os \cup {null}]
    BY DEF References
  <1> QED BY <1>1, <1>2

-----------------------------------------------------------------------------
(* Blocks: s is the set of the cells that start a block. *)

\* A new start x within the block at c changes the end of that block only.
LEMMA NextInSplit ==
    ASSUME NEW s \in SUBSET CellIndices, NEW c \in s, NEW x \in CellIndices,
           c < x, x < NextIn(s, c)
    PROVE  /\ NextIn(s \cup {x}, c) = x
           /\ NextIn(s \cup {x}, x) = NextIn(s, c)
           /\ \A d \in s : d # c => NextIn(s \cup {x}, d) = NextIn(s, d)
           /\ x \notin s
  <1> DEFINE t == s \cup {x}
             e == NextIn(s, c)
  <1>1. t \in SUBSET CellIndices /\ c \in CellIndices /\ Cells \in Nat
        /\ \A d \in CellIndices : d \in Nat /\ d < Cells
    BY Sizes DEF CellIndices
  <1>2. /\ e \in Nat /\ c < e /\ e <= Cells
        /\ e \in s \cup {Cells}
        /\ \A d \in s : c < d => e <= d
    BY <1>1, NextInProperties
  <1> HIDE DEF e
  <1>3. x \notin s
    BY <1>1, <1>2 DEF e
  <1>4. NextIn(t, c) = x
    <2>1. \A d \in t : c < d => x <= d
      BY <1>1, <1>2 DEF e
    <2>2. x \in Nat /\ x <= Cells /\ x \in t \cup {Cells}
      BY <1>1
    <2> HIDE DEF t
    <2> QED BY <1>1, <2>1, <2>2, NextInUnique
  <1>5. NextIn(t, x) = e
    <2>1. \A d \in t : x < d => e <= d
      BY <1>1, <1>2
    <2>2. x < e /\ e \in t \cup {Cells}
      BY <1>2 DEF e
    <2> HIDE DEF t
    <2> QED BY <1>1, <1>2, <2>1, <2>2, NextInUnique
  <1>6. ASSUME NEW d \in s, d # c
        PROVE  NextIn(t, d) = NextIn(s, d)
    <2> DEFINE f == NextIn(s, d)
    <2>1. /\ f \in Nat /\ d < f /\ f <= Cells
          /\ f \in s \cup {Cells}
          /\ \A y \in s : d < y => f <= y
      BY <1>1, NextInProperties
    <2> HIDE DEF f
    <2>2. d < x => f <= x
      <3>1. CASE d < c
        BY <3>1, <2>1, <1>1
      <3>2. CASE c < d
        <4>1. e <= d
          BY <3>2, <1>2
        <4> QED BY <4>1, <1>1, <1>2 DEF e
      <3> QED BY <3>1, <3>2, <1>6, <1>1
    <2>3. \A y \in t : d < y => f <= y
      BY <2>1, <2>2
    <2>4. f \in t \cup {Cells}
      BY <2>1
    <2>5. NextIn(t, d) = f
      <3> HIDE DEF t
      <3> QED BY <1>1, <2>1, <2>3, <2>4, NextInUnique
    <2> QED BY <2>5 DEF f
  <1> QED BY <1>3, <1>4, <1>5, <1>6 DEF e

\* Free blocks (which start at the cells in M) are merged with those before them;
\* the starts of the others (B) remain.
LEMMA NextInMerge ==
    ASSUME NEW B \in SUBSET CellIndices, NEW M \in SUBSET CellIndices, B \cap M = {}
    PROVE  LET F == {c \in M : \A d \in M : d < c => NextIn(B, d) < c}
           IN  /\ \A d \in B : NextIn(B \cup F, d) = NextIn(B \cup M, d)
               /\ \A c \in F : NextIn(B \cup F, c) = NextIn(B, c)
  <1> DEFINE F == {c \in M : \A d \in M : d < c => NextIn(B, d) < c}
  <1>2. F \subseteq M /\ \A c \in F : \A d \in M : d < c => NextIn(B, d) < c
    OBVIOUS
  <1>6. Cells \in Nat /\ \A d \in CellIndices : d \in Nat /\ d < Cells
    BY Sizes DEF CellIndices
  <1>3. \A c \in M : (\A d \in M : d < c => NextIn(B, d) < c) => c \in F
    OBVIOUS
  <1> HIDE DEF F
  <1>1. /\ B \cup F \in SUBSET CellIndices /\ B \cup M \in SUBSET CellIndices
        /\ Cells \in Nat /\ \A d \in CellIndices : d \in Nat /\ d < Cells
    BY <1>2, <1>6
  <1>4. ASSUME NEW d \in B
        PROVE  NextIn(B \cup F, d) = NextIn(B \cup M, d)
    <2> DEFINE e == NextIn(B \cup M, d)
    <2>1. /\ e \in Nat /\ d < e /\ e <= Cells
          /\ e \in B \cup M \cup {Cells}
          /\ \A y \in B \cup M : d < y => e <= y
      BY <1>1, NextInProperties
    <2> HIDE DEF e
    <2>2. e \in M => e \in F
      <3> SUFFICES ASSUME e \in M, NEW y \in M, y < e
                   PROVE  NextIn(B, y) < e
        BY <1>3
      <3>1. y < d
        <4>1. ~(d < y)
          BY <2>1, <1>1
        <4>2. d # y
          OBVIOUS
        <4> QED BY <4>1, <4>2, <1>1
      <3>2. NextIn(B, y) <= d /\ NextIn(B, y) \in Nat
        BY <3>1, NextInProperties
      <3> QED BY <3>2, <2>1, <1>1
    <2>3. e \in (B \cup F) \cup {Cells}
      BY <2>1, <2>2
    <2>4. \A y \in B \cup F : d < y => e <= y
      BY <2>1, <1>2
    <2>5. NextIn(B \cup F, d) = e
      BY <1>1, <2>1, <2>3, <2>4, NextInUnique
    <2> QED BY <2>5 DEF e
  <1>5. ASSUME NEW c \in F
        PROVE  NextIn(B \cup F, c) = NextIn(B, c)
    <2> DEFINE e == NextIn(B, c)
    <2>1. c \in M /\ c \in CellIndices
      BY <1>2
    <2>2. /\ e \in Nat /\ c < e /\ e <= Cells
          /\ e \in B \cup {Cells}
          /\ \A y \in B : c < y => e <= y
      BY <2>1, NextInProperties
    <2>3. \A y \in F : c < y => e < y
      BY <2>1, <1>2
    <2> HIDE DEF e
    <2>4. \A y \in B \cup F : c < y => e <= y
      BY <2>2, <2>3, <1>1, <1>2
    <2>5. e \in (B \cup F) \cup {Cells}
      BY <2>2
    <2>6. NextIn(B \cup F, c) = e
      BY <1>1, <2>1, <2>2, <2>4, <2>5, NextInUnique
    <2> QED BY <2>6 DEF e
  <1> QED BY <1>4, <1>5 DEF F

-----------------------------------------------------------------------------
(* Pages and free lists. *)

LEMMA PageTypes ==
    ASSUME HeapTypes
    PROVE  /\ Len(pages) \in Nat /\ DOMAIN pages = 1 .. Len(pages)
           /\ \A p \in DOMAIN pages :
                /\ pages[p] \in PageRecords
                /\ pages[p].block \in SUBSET CellIndices
                /\ pages[p].mark \in SUBSET CellIndices
                /\ pages[p].finalizers \in SUBSET CellIndices
                /\ Starts(p) \in SUBSET CellIndices
  <1>1. pages \in Seq(PageRecords)
    BY DEF HeapTypes
  <1>2. Len(pages) \in Nat /\ DOMAIN pages = 1 .. Len(pages)
    BY <1>1, LenProperties
  <1>3. \A p \in DOMAIN pages : pages[p] \in PageRecords
    BY <1>1, <1>2, ElementOfSeq
  <1>4. \A x \in PageRecords : x.block \in SUBSET CellIndices /\ x.mark \in SUBSET CellIndices
                               /\ x.finalizers \in SUBSET CellIndices
    BY DEF PageRecords
  <1> QED BY <1>2, <1>3, <1>4 DEF Starts

\* A free block has a start of its own and reaches to the next start.
LEMMA FreeBlockTypes ==
    ASSUME HeapTypes, NEW p \in DOMAIN pages, NEW b \in FreeBlocksOf(p)
    PROVE  /\ b = [page |-> p, cell |-> b.cell, size |-> b.size]
           /\ b.page = p
           /\ b.cell \in pages[p].mark \ pages[p].block /\ b.cell \in Starts(p)
           /\ b.cell \in CellIndices /\ b.cell \in Nat
           /\ b.size \in 1 .. Cells
           /\ b.size \in Nat /\ b.size >= 1
           /\ NextIn(Starts(p), b.cell) = b.cell + b.size
           /\ b.cell + b.size <= Cells
  <1>1. PICK c \in pages[p].mark \ pages[p].block :
            b = [page |-> p, cell |-> c, size |-> NextIn(Starts(p), c) - c]
    BY DEF FreeBlocksOf
  <1>2. c \in Starts(p) /\ Starts(p) \in SUBSET CellIndices /\ c \in CellIndices
    BY PageTypes DEF Starts
  <1>3. NextIn(Starts(p), c) \in Nat /\ c < NextIn(Starts(p), c) /\ NextIn(Starts(p), c) <= Cells
    BY <1>2, NextInProperties
  <1>4. b.page = p /\ b.cell = c /\ b.size = NextIn(Starts(p), c) - c
    BY <1>1
  <1>5. c \in Nat /\ Cells \in Nat
    BY <1>2, Sizes DEF CellIndices
  <1>6. /\ b.size \in 1 .. Cells /\ b.size \in Nat /\ b.size >= 1
        /\ NextIn(Starts(p), c) = c + b.size
    BY <1>3, <1>4, <1>5
  <1> QED BY <1>1, <1>2, <1>3, <1>4, <1>5, <1>6

\* A block becomes free.
LEMMA InsertListed ==
    ASSUME NEW ls, NEW S, NEW b, Listed(ls, S), b \notin S,
           DOMAIN ls = 0 .. (ClassCount - 1), b.size \in 1 .. Cells
    PROVE  Listed(insert_free(ls, b), S \cup {b}) /\ DOMAIN insert_free(ls, b) = DOMAIN ls
  <1> DEFINE j == class_index(b.size)
             new == [ls EXCEPT ![j] = <<b>> \o @]
             class(T, i) == {x \in T : class_index(x.size) = i}
  <1>1. j \in DOMAIN ls
    BY ClassAssumption
  <1>2. DOMAIN new = DOMAIN ls /\ new[j] = <<b>> \o ls[j] /\ \A i \in DOMAIN ls : i # j => new[i] = ls[i]
    BY <1>1
  <1>3. class(S \cup {b}, j) = class(S, j) \cup {b} /\ b \notin class(S, j)
    OBVIOUS
  <1>4. \A i \in DOMAIN ls : i # j => class(S \cup {b}, i) = class(S, i)
    OBVIOUS
  <1>5. \A i \in DOMAIN ls : Enumerates(ls[i], class(S, i))
    BY DEF Listed
  <1>6. insert_free(ls, b) = new
    BY DEF insert_free
  <1> HIDE DEF class, new, j
  <1>7. Enumerates(new[j], class(S \cup {b}, j))
    <2>1. Enumerates(ls[j], class(S, j)) /\ b \notin class(S, j)
      BY <1>1, <1>3, <1>5
    <2>2. Enumerates(<<b>> \o ls[j], class(S, j) \cup {b})
      BY <2>1, EnumeratesCons
    <2> QED BY <2>2, <1>2, <1>3
  <1>8. \A i \in DOMAIN new : Enumerates(new[i], class(S \cup {b}, i))
    BY <1>2, <1>4, <1>5, <1>7
  <1> QED BY <1>2, <1>6, <1>8 DEF Listed, class

\* A block is taken from list j, where it has position k.
LEMMA RemoveListed ==
    ASSUME NEW ls, NEW S, Listed(ls, S), NEW j \in DOMAIN ls, NEW k \in 1 .. Len(ls[j])
    PROVE  /\ Listed([ls EXCEPT ![j] = RemoveAt(@, k)], S \ {ls[j][k]})
           /\ ls[j][k] \in S
  <1> DEFINE b == ls[j][k]
             new == [ls EXCEPT ![j] = RemoveAt(@, k)]
             class(T, i) == {x \in T : class_index(x.size) = i}
  <1>1. \A i \in DOMAIN ls : Enumerates(ls[i], class(S, i))
    BY DEF Listed
  <1>2. DOMAIN new = DOMAIN ls /\ new[j] = RemoveAt(ls[j], k) /\ \A i \in DOMAIN ls : i # j => new[i] = ls[i]
    OBVIOUS
  <1>3. b \in class(S, j)
    <2> HIDE DEF class
    <2> QED BY <1>1, ElementOfSeq DEF Enumerates
  <1>4. b \in S /\ class_index(b.size) = j
    BY <1>3
  <1>5. class(S \ {b}, j) = class(S, j) \ {b}
    OBVIOUS
  <1>6. \A i \in DOMAIN ls : i # j => class(S \ {b}, i) = class(S, i)
    BY <1>4
  <1> HIDE DEF class, new
  <1>7. Enumerates(new[j], class(S \ {b}, j))
    <2>1. Enumerates(ls[j], class(S, j))
      BY <1>1
    <2>2. Enumerates(RemoveAt(ls[j], k), class(S, j) \ {ls[j][k]})
      BY <2>1, EnumeratesRemoveAt
    <2> QED BY <2>2, <1>2, <1>5
  <1>8. \A i \in DOMAIN new : Enumerates(new[i], class(S \ {b}, i))
    BY <1>1, <1>2, <1>6, <1>7
  <1> QED BY <1>4, <1>8 DEF Listed, class, new

\* The block that allocate_exact finds.
LEMMA FoundBlock ==
    ASSUME HeapTypes, Listed(lists, FreeSpace), NEW n \in Nat, Candidates(n) # {}
    PROVE  /\ Found(n) \in FreeSpace /\ Found(n).size >= n
           /\ Listed(Without(n), FreeSpace \ {Found(n)})
           /\ DOMAIN Without(n) = DOMAIN lists
  <1> DEFINE j == Min(Candidates(n))
             fits == {k \in 1 .. Len(lists[j]) : lists[j][k].size >= n}
             k == first_fit(j, n)
  <1>1. DOMAIN lists \subseteq Nat
    BY ClassAssumption DEF HeapTypes
  <1>2. Candidates(n) \subseteq Nat
    BY <1>1 DEF Candidates
  <1>3. j \in Candidates(n)
    BY <1>2, LeastNumber
  <1>4. j \in DOMAIN lists /\ k # 0
    BY <1>3 DEF Candidates
  <1>5. k = IF fits # {} THEN Min(fits) ELSE 0
    BY DEF first_fit, SelectInSeq
  <1>6. fits \subseteq Nat
    OBVIOUS
  <1>7. k \in fits
    <2> HIDE DEF fits, k
    <2> QED BY <1>4, <1>5, <1>6, LeastNumber
  <1>8. k \in 1 .. Len(lists[j]) /\ lists[j][k].size >= n
    BY <1>7
  <1>9. Found(n) = lists[j][k] /\ Without(n) = [lists EXCEPT ![j] = RemoveAt(@, k)]
    BY DEF Found, Without
  <1> HIDE DEF j, k
  <1>10. /\ Listed([lists EXCEPT ![j] = RemoveAt(@, k)], FreeSpace \ {lists[j][k]})
         /\ lists[j][k] \in FreeSpace
    BY <1>4, <1>8, RemoveListed
  <1> QED BY <1>8, <1>9, <1>10

\* The free blocks that a sweep finds on a page.
LEMMA SweptBlocks ==
    ASSUME HeapTypes, NEW p \in DOMAIN pages, NEW i
    PROVE  Enumerates(FreeBlockList(p, i),
                      {b \in {FreeBlock(p, c) : c \in free_starts(p)} : class_index(b.size) = i})
  <1> DEFINE F == FreeCellsOf(p, i)
             s == Descending(F)
             t == FreeBlockList(p, i)
             T == {FreeBlock(p, c) : c \in F}
  <1>1. F \in SUBSET Nat /\ IsFiniteSet(F)
    <2>1. F \subseteq CellIndices
      BY PageTypes DEF FreeCellsOf, free_starts, SweptMark
    <2>2. IsFiniteSet(CellIndices)
      BY Sizes, FS_Interval DEF CellIndices
    <2>3. CellIndices \subseteq Nat
      BY Sizes DEF CellIndices
    <2> HIDE DEF F
    <2> QED BY <2>1, <2>2, <2>3, FS_Subset
  <1>2. Enumerates(s, F)
    <2> HIDE DEF F
    <2> QED BY <1>1, EnumeratesDescending
  <1>3. Len(s) \in Nat /\ DOMAIN s = 1 .. Len(s) /\ \A k \in 1 .. Len(s) : s[k] \in F
    BY <1>2, LenProperties, ElementOfSeq DEF Enumerates
  <1>4. t = [k \in 1 .. Len(s) |-> FreeBlock(p, s[k])]
    BY <1>3 DEF FreeBlockList
  <1>5. {b \in {FreeBlock(p, c) : c \in free_starts(p)} : class_index(b.size) = i} = T
    BY DEF FreeCellsOf
  <1>6. \A c, d : FreeBlock(p, c) = FreeBlock(p, d) => c = d
    BY DEF FreeBlock
  <1> HIDE DEF s, t, F
  <1>7. \A k \in 1 .. Len(s) : t[k] = FreeBlock(p, s[k]) /\ t[k] \in T
    BY <1>3, <1>4
  <1>8. t \in Seq(T) /\ Len(t) = Len(s)
    <2>1. t \in [1 .. Len(s) -> T]
      BY <1>4, <1>7
    <2> HIDE DEF T
    <2> QED BY <2>1, <1>3
  <1>9. \A x \in T : \E k \in 1 .. Len(s) : t[k] = x
    <2> SUFFICES ASSUME NEW c \in F
                 PROVE  \E k \in 1 .. Len(s) : t[k] = FreeBlock(p, c)
      OBVIOUS
    <2>1. PICK k \in 1 .. Len(s) : s[k] = c
      BY <1>2 DEF Enumerates
    <2> QED BY <2>1, <1>7
  <1>10. \A j, k \in 1 .. Len(s) : t[j] = t[k] => j = k
    <2> SUFFICES ASSUME NEW j \in 1 .. Len(s), NEW k \in 1 .. Len(s), t[j] = t[k]
                 PROVE  j = k
      OBVIOUS
    <2>1. s[j] = s[k]
      BY <1>6, <1>7
    <2> QED BY <2>1, <1>2 DEF Enumerates
  <1> HIDE DEF T
  <1>11. Enumerates(t, T)
    BY <1>8, <1>9, <1>10 DEF Enumerates
  <1> QED BY <1>5, <1>11 DEF t

-----------------------------------------------------------------------------
(* Steps of the mutator. *)

\* Sufficient for ObjectsIntact: nothing new can be reached, and the storage of
\* what can be reached is left alone.
LEMMA IntactStep ==
    ASSUME stage # "destroyed", ObjectsIntact,
           \A r \in Reachable' : r \in Reachable /\ objects'[r].cells = objects[r].cells,
           \A r \in Reachable : IsLob(r) /\ r[2] \in DOMAIN lobs =>
                r[2] \in DOMAIN lobs' /\ lobs'[r[2]].cells = lobs[r[2]].cells,
           \A r \in Reachable :
                r[1] \in DOMAIN pages /\ r[2] \in pages[r[1]].block =>
                    /\ r[1] \in DOMAIN pages' /\ r[2] \in pages'[r[1]].block
                    /\ NextIn(Starts(r[1])', r[2]) = NextIn(Starts(r[1]), r[2])
    PROVE  ObjectsIntact'
  <1> SUFFICES ASSUME NEW r \in Reachable'
               PROVE  IF IsLob(r)
                      THEN r[2] \in DOMAIN lobs' /\ lobs'[r[2]].cells = objects'[r].cells
                      ELSE /\ r[1] \in DOMAIN pages' /\ r[2] \in pages'[r[1]].block
                           /\ NextIn(Starts(r[1])', r[2]) - r[2] = objects'[r].cells
    BY DEF ObjectsIntact
  <1>1. r \in Reachable /\ objects'[r].cells = objects[r].cells
    OBVIOUS
  <1>2. CASE IsLob(r)
    BY <1>1, <1>2 DEF ObjectsIntact
  <1>3. CASE ~IsLob(r)
    BY <1>1, <1>3 DEF ObjectsIntact
  <1> QED BY <1>2, <1>3

\* Roots and objects may change; the heap does not.
LEMMA MutatorStep ==
    ASSUME HeapInv, stage \in {"run", "find"} \/ (stage = "sweep" /\ to_sweep = {}),
           stage' \in {"run", "find", "roots"},
           UNCHANGED <<pages, lobs, lists, to_sweep>>, RequestTypes',
           References(roots, objects)',
           \A r \in Reachable' : r \in Reachable /\ objects'[r].cells = objects[r].cells
    PROVE  HeapInv'
  <1> USE DEF HeapInv
  <1>1. HeapTypes'
    BY DEF HeapTypes, Stages
  <1>2. \A p : Starts(p)' = Starts(p)
    BY DEF Starts
  <1>3. ObjectsIntact'
    BY <1>2, IntactStep
  <1>4. MarksReset'
    BY DEF MarksReset
  <1>5. MarksClosed' /\ MarksComplete'
    BY DEF MarksClosed, MarksComplete
  <1>6. FreeSpace' = FreeSpace
    BY <1>2 DEF FreeSpace, FreeBlocksOf
  <1>7. ListsMatch'
    BY <1>2, <1>6 DEF ListsMatch, Listed
  <1> QED BY <1>1, <1>3, <1>4, <1>5, <1>7

\* What the mutator can reach from roots rs among objects os, when these refer to
\* nothing that it could not reach.
LEMMA NothingNew ==
    ASSUME References(roots, objects), NEW rs, NEW os, References(rs, os), rs \subseteq Reachable,
           \A r \in Reachable \cap DOMAIN os : os[r].field \in Reachable \cup {null}
    PROVE  ReachableFrom(rs, os) \subseteq Reachable
  BY ReachableLeast

\* History forgets objects, but nothing that can be reached.
LEMMA HistoryProperties ==
    ASSUME NEW rs, NEW os, References(rs, os)
    PROVE  /\ References(rs, History(rs, os))
           /\ DOMAIN History(rs, os) \subseteq DOMAIN os
           /\ \A r \in DOMAIN os : os[r].finalizer => r \in DOMAIN History(rs, os)
           /\ \A r \in DOMAIN History(rs, os) :
                /\ History(rs, os)[r].cells = os[r].cells
                /\ History(rs, os)[r].finalizer = os[r].finalizer
                /\ History(rs, os)[r].finalized = os[r].finalized
                /\ History(rs, os)[r].field \in {os[r].field, null}
           /\ ReachableFrom(rs, History(rs, os)) \subseteq ReachableFrom(rs, os)
  <1> DEFINE live == ReachableFrom(rs, os)
             D == {r \in DOMAIN os : r \in live \/ os[r].finalizer}
             H == History(rs, os)
  <1>1. H = [r \in D |-> [os[r] EXCEPT !.field = IF r \in live THEN @ ELSE null]]
    BY DEF History
  <1>2. live \subseteq DOMAIN os /\ rs \subseteq live /\ \A r \in live : os[r].field \in live \cup {null}
    BY ReachableClosed
  <1> HIDE DEF live
  <1>3. D \subseteq DOMAIN os /\ live \subseteq D /\ \A r \in DOMAIN os : os[r].finalizer => r \in D
    BY <1>2
  <1> HIDE DEF D, H
  <1>4. DOMAIN H = D
    BY <1>1
  <1>5. ASSUME NEW r \in D
        PROVE  /\ H[r] \in [cells : Nat, finalizer : BOOLEAN, finalized : Nat, field : D \cup {null}]
               /\ H[r].cells = os[r].cells /\ H[r].finalizer = os[r].finalizer
               /\ H[r].finalized = os[r].finalized
               /\ H[r].field = IF r \in live THEN os[r].field ELSE null
    <2>1. os[r] \in [cells : Nat, finalizer : BOOLEAN, finalized : Nat, field : DOMAIN os \cup {null}]
      BY <1>3, ObjectTypes
    <2>2. H[r] = [os[r] EXCEPT !.field = IF r \in live THEN @ ELSE null]
      BY <1>1
    <2>3. r \in live => os[r].field \in D \cup {null}
      BY <1>2, <1>3
    <2> QED BY <2>1, <2>2, <2>3
  <1>6. References(rs, H)
    <2>1. H \in [D -> [cells : Nat, finalizer : BOOLEAN, finalized : Nat, field : D \cup {null}]]
      <3>1. H = [r \in D |-> H[r]]
        BY <1>1
      <3> QED BY <3>1, <1>5
    <2>2. DOMAIN H \subseteq Nat \X Nat
      BY <1>3, <1>4 DEF References
    <2> QED BY <2>1, <2>2, <1>2, <1>3, <1>4 DEF References
  <1>7. \A r \in live \cap DOMAIN H : H[r].field \in live \cup {null}
    BY <1>2, <1>4, <1>5
  <1>8. ReachableFrom(rs, H) \subseteq live
    BY <1>2, <1>6, <1>7, ReachableLeast
  <1> QED BY <1>3, <1>4, <1>5, <1>6, <1>8 DEF H, live

LEMMA InitHeapInv == Init => HeapInv
  <1> SUFFICES ASSUME Init
               PROVE  HeapInv
    OBVIOUS
  <1> USE DEF Init
  <1>1. HeapTypes
    <2>1. pages \in Seq(PageRecords)
      BY EmptySeq
    <2>2. DOMAIN lobs = {} /\ lobs \in [{} -> LobRecords] /\ DOMAIN pages = {}
      OBVIOUS
    <2>3. IsFiniteSet(DOMAIN lobs)
      BY <2>2, FS_EmptySet
    <2>4. RequestTypes
      BY DEF RequestTypes, NoRequest
    <2> QED BY <2>1, <2>2, <2>3, <2>4 DEF HeapTypes, Stages
  <1>2. References(roots, objects)
    BY DEF References
  <1>3. Reachable = {}
    <2>1. DOMAIN objects = {}
      OBVIOUS
    <2> QED BY <1>2, <2>1, ReachableClosed DEF Reachable
  <1>4. ObjectsIntact /\ MarksReset /\ MarksClosed /\ MarksComplete
    BY <1>3 DEF ObjectsIntact, MarksReset, MarksClosed, MarksComplete
  <1>5. FreeSpace = {}
    BY DEF FreeSpace
  <1>6. Listed(lists, FreeSpace)
    <2> SUFFICES ASSUME NEW i \in DOMAIN lists
                 PROVE  Enumerates(lists[i], {b \in FreeSpace : class_index(b.size) = i})
      BY DEF Listed
    <2>1. lists[i] = <<>> /\ {b \in FreeSpace : class_index(b.size) = i} = {}
      BY <1>5
    <2> QED BY <2>1, EnumeratesNothing
  <1> QED BY <1>1, <1>2, <1>4, <1>6 DEF HeapInv, ListsMatch

LEMMA AllocateStep ==
    ASSUME HeapInv, NEW r \in Requests, Allocate(r[1], r[2])
    PROVE  HeapInv'
  <1>1. r[1] \in Nat \ {0} /\ r[2] \in BOOLEAN
    BY Sizes
  <1>2. RequestTypes'
    BY <1>1 DEF Allocate, RequestTypes, NoRequest
  <1>3. Reachable' = Reachable
    BY DEF Allocate, mutator, Reachable
  <1>4. stage' \in {"roots", "find"} /\ stage = "run"
    BY DEF Allocate
  <1>5. UNCHANGED <<pages, lobs, lists, to_sweep, roots, objects>>
    BY DEF Allocate, heap, collector, mutator
  <1> QED BY <1>2, <1>3, <1>4, <1>5, MutatorStep DEF HeapInv

\* The allocation fails, or waits for the collector.
LEMMA WaitStep ==
    ASSUME HeapInv, CollectOnFailure \/ LimitReached \/ AllocatorFailure
    PROVE  HeapInv'
  <1>1. stage = "find"
    BY DEF CollectOnFailure, LimitReached, AllocatorFailure, NothingFits, NeedsMemory, NeedsPage
  <1>2. RequestTypes' /\ stage' \in {"run", "roots"}
    <2>1. RequestTypes
      BY DEF HeapInv, HeapTypes
    <2>2. CASE CollectOnFailure
      BY <2>1, <2>2, <1>1 DEF CollectOnFailure, RequestTypes, NoRequest
    <2>3. CASE LimitReached \/ AllocatorFailure
      <3>1. request' = NoRequest /\ stage' = "run"
        BY <2>3 DEF LimitReached, AllocatorFailure
      <3> QED BY <3>1 DEF RequestTypes, NoRequest
    <2> QED BY <2>2, <2>3
  <1>3. UNCHANGED <<pages, lobs, lists, to_sweep, roots, objects>>
    BY DEF CollectOnFailure, LimitReached, AllocatorFailure, heap, collector, mutator
  <1>4. Reachable' = Reachable
    BY <1>3 DEF Reachable
  <1> QED BY <1>1, <1>2, <1>3, <1>4, MutatorStep DEF HeapInv

\* The objects os when a reference has been stored.
StoresIn(os, ref, value) == os = [objects EXCEPT ![ref].field = value]

\* Storing a reference changes one field.
LEMMA StoredObjects ==
    ASSUME References(roots, objects), NEW ref \in Reachable, NEW value \in Reachable \cup {null},
           NEW os, StoresIn(os, ref, value)
    PROVE  /\ References(roots, os) /\ DOMAIN os = DOMAIN objects
           /\ \A r \in DOMAIN objects :
                /\ os[r].cells = objects[r].cells
                /\ os[r].finalizer = objects[r].finalizer
                /\ os[r].finalized = objects[r].finalized
                /\ os[r].field = IF r = ref THEN value ELSE objects[r].field
  <1>1. Reachable \subseteq DOMAIN objects /\ roots \subseteq Reachable
    BY ReachableClosed DEF Reachable
  <1>a. PICK Records : Records = [cells : Nat, finalizer : BOOLEAN, finalized : Nat,
                                  field : DOMAIN objects \cup {null}]
    OBVIOUS
  <1>2. DOMAIN os = DOMAIN objects
        /\ \A r \in DOMAIN objects :
            /\ os[r] \in Records
            /\ os[r].cells = objects[r].cells
            /\ os[r].finalizer = objects[r].finalizer
            /\ os[r].finalized = objects[r].finalized
            /\ os[r].field = IF r = ref THEN value ELSE objects[r].field
    <2>1. \A r \in DOMAIN objects : r # ref => os[r] = objects[r]
      BY DEF StoresIn
    <2>2. os[ref] = [objects[ref] EXCEPT !.field = value] /\ DOMAIN os = DOMAIN objects
      BY <1>1 DEF StoresIn
    <2>3. \A r \in DOMAIN objects : objects[r] \in Records
      BY <1>a, ObjectTypes
    <2>4. value \in DOMAIN objects \cup {null}
      BY <1>1
    <2>5. /\ os[ref] \in Records
          /\ os[ref].cells = objects[ref].cells /\ os[ref].field = value
          /\ os[ref].finalizer = objects[ref].finalizer
          /\ os[ref].finalized = objects[ref].finalized
      <3>1. objects[ref] \in Records
        BY <1>1, <2>3
      <3> QED BY ONLY <3>1, <2>2, <2>4, <1>a
    <2> QED BY <2>1, <2>2, <2>3, <2>5
  <1>3. os = [r \in DOMAIN objects |-> os[r]]
    BY DEF StoresIn
  <1>4. References(roots, os)
    BY <1>2, <1>3, <1>a DEF References
  <1> QED BY <1>2, <1>4

LEMMA StoreStep ==
    ASSUME HeapInv, NEW ref, NEW value, Store(ref, value)
    PROVE  HeapInv'
  <1>a. PICK os : StoresIn(os, ref, value)
    BY DEF StoresIn
  <1>1. /\ References(roots, objects) /\ stage = "run"
        /\ ref \in Reachable /\ value \in Reachable \cup {null}
        /\ roots' = roots /\ objects' = History(roots, os)
        /\ UNCHANGED <<pages, lobs, lists, stage, request, to_sweep>>
    BY <1>a DEF HeapInv, Store, heap, collector, StoresIn
  <1>2. /\ Reachable \subseteq DOMAIN objects /\ roots \subseteq Reachable
        /\ \A r \in Reachable : objects[r].field \in Reachable \cup {null}
    BY <1>1, ReachableClosed DEF Reachable
  <1>3. /\ References(roots, os) /\ DOMAIN os = DOMAIN objects
        /\ \A r \in DOMAIN objects :
            /\ os[r].cells = objects[r].cells
            /\ os[r].field = IF r = ref THEN value ELSE objects[r].field
    BY <1>1, <1>a, StoredObjects
  <1>4. ReachableFrom(roots, os) \subseteq Reachable
    <2>1. \A r \in Reachable \cap DOMAIN os : os[r].field \in Reachable \cup {null}
      BY <1>1, <1>2, <1>3
    <2> QED BY <2>1, <1>1, <1>2, <1>3, NothingNew
  <1>5. Reachable' \subseteq Reachable /\ References(roots, objects)'
        /\ Reachable' \subseteq DOMAIN objects'
    BY <1>1, <1>3, <1>4, HistoryProperties, ReachableClosed DEF Reachable
  <1>6. \A r \in Reachable' : objects'[r].cells = objects[r].cells
    BY <1>1, <1>2, <1>3, <1>5, HistoryProperties
  <1>7. RequestTypes'
    BY <1>1 DEF HeapInv, HeapTypes, RequestTypes
  <1> QED BY <1>1, <1>5, <1>6, <1>7, MutatorStep

LEMMA KeepStep ==
    ASSUME HeapInv, NEW ref, Keep(ref)
    PROVE  HeapInv'
  <1>1. /\ References(roots, objects) /\ stage = "run"
        /\ ref \in Reachable /\ roots' = roots \cup {ref}
        /\ UNCHANGED <<pages, lobs, lists, stage, request, to_sweep, objects>>
    BY DEF HeapInv, Keep, heap, collector
  <1>2. /\ Reachable \subseteq DOMAIN objects /\ roots \subseteq Reachable
        /\ \A r \in Reachable : objects[r].field \in Reachable \cup {null}
    BY <1>1, ReachableClosed DEF Reachable
  <1>3. References(roots', objects)
    BY <1>1, <1>2 DEF References
  <1>4. ReachableFrom(roots', objects) \subseteq Reachable
    BY <1>1, <1>2, <1>3, NothingNew
  <1>5. References(roots, objects)' /\ Reachable' \subseteq Reachable
    BY <1>1, <1>3, <1>4 DEF Reachable
  <1>6. RequestTypes'
    BY <1>1 DEF HeapInv, HeapTypes, RequestTypes
  <1> QED BY <1>1, <1>5, <1>6, MutatorStep

LEMMA DropStep ==
    ASSUME HeapInv, NEW ref, Drop(ref)
    PROVE  HeapInv'
  <1>1. /\ References(roots, objects) /\ stage = "run"
        /\ roots' = roots \ {ref} /\ objects' = History(roots', objects)
        /\ UNCHANGED <<pages, lobs, lists, stage, request, to_sweep>>
    BY DEF HeapInv, Drop, heap, collector
  <1>2. /\ Reachable \subseteq DOMAIN objects /\ roots \subseteq Reachable
        /\ \A r \in Reachable : objects[r].field \in Reachable \cup {null}
    BY <1>1, ReachableClosed DEF Reachable
  <1>3. References(roots', objects)
    BY <1>1 DEF References
  <1>4. ReachableFrom(roots', objects) \subseteq Reachable
    BY <1>1, <1>2, <1>3, NothingNew
  <1>5. References(roots, objects)' /\ Reachable' \subseteq Reachable
        /\ Reachable' \subseteq DOMAIN objects'
    BY <1>1, <1>3, <1>4, HistoryProperties, ReachableClosed DEF Reachable
  <1>6. \A r \in Reachable' : objects'[r].cells = objects[r].cells
    BY <1>1, <1>3, <1>5, HistoryProperties
  <1>7. RequestTypes'
    BY <1>1 DEF HeapInv, HeapTypes, RequestTypes
  <1> QED BY <1>1, <1>5, <1>6, <1>7, MutatorStep

-----------------------------------------------------------------------------
(* Steps of the allocation. *)

\* The new object is the only thing that the mutator can reach and could not reach before.
LEMMA CreatedProperties ==
    ASSUME References(roots, objects), RequestTypes, NEW ref \in Nat \X Nat, Created(ref),
           Request \in Nat
    PROVE  /\ References(roots, objects)' /\ RequestTypes'
           /\ Reachable' \subseteq Reachable \cup {ref}
           /\ \A r \in Reachable : r # ref => objects'[r] = objects[r]
           /\ DOMAIN objects' = DOMAIN objects \cup {ref}
           /\ \A r \in DOMAIN objects : r # ref => objects'[r] = objects[r]
           /\ objects'[ref] = [cells |-> Request, finalizer |-> request.finalizer,
                               finalized |-> 0, field |-> null]
           /\ stage' = "run" /\ to_sweep' = to_sweep
  <1> DEFINE new == [cells |-> Request, finalizer |-> request.finalizer,
                     finalized |-> 0, field |-> null]
             D == DOMAIN objects \cup {ref}
  <1>1. /\ roots' = roots \cup {ref} /\ stage' = "run" /\ request' = NoRequest
        /\ to_sweep' = to_sweep
        /\ objects' = Insert(objects, ref, new)
    BY DEF Created, collector
  <1>2. objects' = [r \in D |-> IF r = ref THEN new ELSE objects[r]]
    BY <1>1 DEF Insert
  <1>3. RequestTypes'
    BY <1>1 DEF RequestTypes, NoRequest
  <1>4. new \in [cells : Nat, finalizer : BOOLEAN, finalized : Nat, field : D \cup {null}]
        /\ new.field = null
    BY DEF RequestTypes
  <1> HIDE DEF new
  <1>5. \A r \in D : objects'[r] = IF r = ref THEN new ELSE objects[r]
    BY <1>2
  <1>6. DOMAIN objects' = D
    BY <1>2
  <1>7. \A r \in D : objects'[r] \in [cells : Nat, finalizer : BOOLEAN, finalized : Nat,
                                      field : D \cup {null}]
    <2> SUFFICES ASSUME NEW r \in D
                 PROVE  objects'[r] \in [cells : Nat, finalizer : BOOLEAN, finalized : Nat,
                                         field : D \cup {null}]
      OBVIOUS
    <2>1. CASE r = ref
      BY <2>1, <1>4, <1>5
    <2>2. CASE r # ref
      <3>1. r \in DOMAIN objects /\ objects'[r] = objects[r]
        BY <2>2, <1>5
      <3>2. objects[r] \in [cells : Nat, finalizer : BOOLEAN, finalized : Nat,
                            field : DOMAIN objects \cup {null}]
        BY <3>1, ObjectTypes
      <3> QED BY <3>1, <3>2
    <2> QED BY <2>1, <2>2
  <1>8. References(roots', objects')
    <2>1. objects' = [r \in D |-> objects'[r]]
      BY <1>2
    <2>2. D \subseteq Nat \X Nat /\ roots' \subseteq D
      BY <1>1 DEF References
    <2> HIDE DEF D
    <2>3. objects' \in [D -> [cells : Nat, finalizer : BOOLEAN, finalized : Nat,
                              field : D \cup {null}]]
      BY <2>1, <1>7
    <2> QED BY <2>2, <2>3, <1>6 DEF References
  <1>9. /\ Reachable \subseteq DOMAIN objects /\ roots \subseteq Reachable
        /\ \A r \in Reachable : objects[r].field \in Reachable \cup {null}
    BY ReachableClosed DEF Reachable
  <1>10. ReachableFrom(roots', objects') \subseteq Reachable \cup {ref}
    <2>1. roots' \subseteq Reachable \cup {ref}
      BY <1>1, <1>9
    <2>2. \A r \in (Reachable \cup {ref}) \cap DOMAIN objects' :
            objects'[r].field \in (Reachable \cup {ref}) \cup {null}
      BY <1>4, <1>5, <1>6, <1>9
    <2> QED BY <2>1, <2>2, <1>8, ReachableLeast
  <1>11. \A r \in Reachable : r # ref => objects'[r] = objects[r]
    BY <1>5, <1>9
  <1>12. objects'[ref] = new /\ \A r \in DOMAIN objects : r # ref => objects'[r] = objects[r]
    BY <1>5
  <1> QED BY <1>1, <1>3, <1>6, <1>8, <1>10, <1>11, <1>12 DEF Reachable, new

\* Sufficient for ObjectsIntact when an object is created: it has its storage, and
\* that of the others is left alone.
LEMMA IntactCreated ==
    ASSUME stage # "destroyed", ObjectsIntact, NEW ref,
           Reachable' \subseteq Reachable \cup {ref},
           \A r \in Reachable : r # ref => objects'[r] = objects[r],
           IF IsLob(ref)
           THEN ref[2] \in DOMAIN lobs' /\ lobs'[ref[2]].cells = objects'[ref].cells
           ELSE /\ ref[1] \in DOMAIN pages' /\ ref[2] \in pages'[ref[1]].block
                /\ NextIn(Starts(ref[1])', ref[2]) - ref[2] = objects'[ref].cells,
           \A r \in Reachable : IsLob(r) /\ r[2] \in DOMAIN lobs =>
                r[2] \in DOMAIN lobs' /\ lobs'[r[2]].cells = lobs[r[2]].cells,
           \A r \in Reachable :
                r # ref /\ r[1] \in DOMAIN pages /\ r[2] \in pages[r[1]].block =>
                    /\ r[1] \in DOMAIN pages' /\ r[2] \in pages'[r[1]].block
                    /\ NextIn(Starts(r[1])', r[2]) = NextIn(Starts(r[1]), r[2])
    PROVE  ObjectsIntact'
  <1> SUFFICES ASSUME NEW r \in Reachable', r # ref
               PROVE  IF IsLob(r)
                      THEN r[2] \in DOMAIN lobs' /\ lobs'[r[2]].cells = objects'[r].cells
                      ELSE /\ r[1] \in DOMAIN pages' /\ r[2] \in pages'[r[1]].block
                           /\ NextIn(Starts(r[1])', r[2]) - r[2] = objects'[r].cells
    BY DEF ObjectsIntact
  <1>1. r \in Reachable /\ objects'[r] = objects[r]
    OBVIOUS
  <1>2. CASE IsLob(r)
    BY <1>1, <1>2 DEF ObjectsIntact
  <1>3. CASE ~IsLob(r)
    BY <1>1, <1>3 DEF ObjectsIntact
  <1> QED BY <1>2, <1>3

\* A request in progress has at least one cell.
LEMMA RequestPositive ==
    ASSUME HeapTypes, stage = "find"
    PROVE  Request \in Nat \ {0} /\ request.finalizer \in BOOLEAN
  <1>1. request.bytes \in Nat \ {0} /\ request.finalizer \in BOOLEAN
    BY DEF HeapTypes, RequestTypes
  <1> QED BY <1>1, Sizes, PositiveQuotient DEF Request

LEMMA AllocateLobStep ==
    ASSUME HeapInv, AllocateLob
    PROVE  HeapInv'
  <1>1. HeapTypes /\ References(roots, objects) /\ RequestTypes /\ stage = "find"
    BY DEF HeapInv, HeapTypes, AllocateLob
  <1>2. Request \in Nat /\ request.finalizer \in BOOLEAN
    BY <1>1, RequestPositive
  <1>a. PICK n : n = Min((1 .. Cardinality(DOMAIN lobs) + 1) \ DOMAIN lobs)
    OBVIOUS
  <1>b. PICK lob : lob = [cells |-> Request, marked |-> FALSE, finalizer |-> request.finalizer]
    OBVIOUS
  <1> DEFINE ref == <<0, n>>
             D == DOMAIN lobs \cup {n}
  <1>3. lobs' = Insert(lobs, n, lob) /\ Created(ref) /\ pages' = pages /\ lists' = lists
    BY <1>a, <1>b DEF AllocateLob
  <1>4. n \in Nat \ {0} /\ n \notin DOMAIN lobs
    BY <1>1, <1>a, FreshNumber DEF HeapTypes
  <1>5. lob \in LobRecords /\ lob.marked = FALSE /\ lob.cells = Request
    BY <1>2, <1>b DEF LobRecords
  <1>6. lobs' = [k \in D |-> IF k = n THEN lob ELSE lobs[k]]
    BY <1>3 DEF Insert
  <1>7. /\ References(roots, objects)' /\ RequestTypes'
        /\ Reachable' \subseteq Reachable \cup {ref}
        /\ \A r \in Reachable : r # ref => objects'[r] = objects[r]
        /\ objects'[ref] = [cells |-> Request, finalizer |-> request.finalizer,
                            finalized |-> 0, field |-> null]
        /\ stage' = "run" /\ to_sweep' = to_sweep
    <2>1. ref \in Nat \X Nat
      BY <1>4
    <2> HIDE DEF ref
    <2> QED BY <2>1, <1>1, <1>2, <1>3, CreatedProperties
  <1>8. DOMAIN lobs' = D /\ lobs'[n] = lob /\ \A k \in DOMAIN lobs : lobs'[k] = lobs[k]
    BY <1>4, <1>6
  <1>9. HeapTypes'
    <2>1. D \subseteq Nat /\ IsFiniteSet(D)
      BY <1>1, <1>4, FS_AddElement DEF HeapTypes
    <2>2. \A k \in D : lobs'[k] \in LobRecords
      BY <1>1, <1>5, <1>8 DEF HeapTypes
    <2>3. lobs' = [k \in D |-> lobs'[k]]
      BY <1>6
    <2> HIDE DEF D
    <2>4. lobs' \in [D -> LobRecords]
      BY <2>2, <2>3
    <2> QED BY <2>1, <2>4, <1>1, <1>3, <1>7, <1>8 DEF HeapTypes, Stages
  <1>10. \A p : Starts(p)' = Starts(p)
    BY <1>3 DEF Starts
  <1>11. ObjectsIntact'
    <2>1. IsLob(ref) /\ ref[2] = n
      BY DEF IsLob
    <2>2. ref[2] \in DOMAIN lobs' /\ lobs'[ref[2]].cells = objects'[ref].cells
      BY <2>1, <1>5, <1>7, <1>8
    <2>3. ObjectsIntact
      BY DEF HeapInv
    <2> HIDE DEF ref
    <2> QED BY <2>1, <2>2, <2>3, <1>1, <1>3, <1>7, <1>8, <1>10, IntactCreated
  <1>12. MarksReset'
    <2>1. MarksReset
      BY DEF HeapInv
    <2>2. \A k \in DOMAIN lobs' : ~lobs'[k].marked
      BY <2>1, <1>1, <1>5, <1>8 DEF MarksReset
    <2> QED BY <2>1, <2>2, <1>1, <1>3, <1>7 DEF MarksReset
  <1>13. MarksClosed' /\ MarksComplete'
    BY <1>7 DEF MarksClosed, MarksComplete
  <1>14. ListsMatch'
    <2>1. FreeSpace' = FreeSpace
      BY <1>3, <1>7, <1>10 DEF FreeSpace, FreeBlocksOf
    <2>2. ListsMatch
      BY DEF HeapInv
    <2> QED BY <2>1, <2>2, <1>1, <1>3, <1>10 DEF ListsMatch, Listed
  <1> QED BY <1>7, <1>9, <1>11, <1>12, <1>13, <1>14 DEF HeapInv

\* Page pg when an object has taken the first cells of block b.
Divided(pg, b, rest, finalizer) ==
    IF rest.size = 0
    THEN mark_finalizer(set_allocated(pg, b.cell), b.cell, finalizer)
    ELSE mark_finalizer(set_free(set_allocated(pg, b.cell), rest.cell), b.cell, finalizer)

\* The first n cells of the free block b of page p become an allocated block, and the
\* rest of it, if there is one, a free block.
Divides(p, b, n, rest, finalizer) ==
    /\ p \in DOMAIN pages /\ pages[p].block \cap pages[p].mark = {}
    /\ b \in FreeBlocksOf(p) /\ n \in Nat \ {0} /\ n <= b.size /\ finalizer \in BOOLEAN
    /\ rest = [page |-> b.page, cell |-> b.cell + n, size |-> b.size - n]
    /\ pages' = [pages EXCEPT ![p] = Divided(pages[p], b, rest, finalizer)]

LEMMA SplitPage ==
    ASSUME HeapTypes, NEW p, NEW b, NEW n, NEW rest, NEW finalizer,
           Divides(p, b, n, rest, finalizer)
    PROVE  /\ pages' \in Seq(PageRecords) /\ DOMAIN pages' = DOMAIN pages
           /\ \A q \in DOMAIN pages : q # p => pages'[q] = pages[q]
           /\ pages'[p].block = pages[p].block \cup {b.cell}
           /\ pages'[p].finalizers =
                pages[p].finalizers \cup (IF finalizer THEN {b.cell} ELSE {})
           /\ pages'[p].block \cap pages'[p].mark = {}
           /\ Starts(p) \subseteq Starts(p)'
           /\ NextIn(Starts(p)', b.cell) = b.cell + n
           /\ \A d \in pages[p].block : NextIn(Starts(p)', d) = NextIn(Starts(p), d)
           /\ FreeBlocksOf(p)' =
                (FreeBlocksOf(p) \ {b}) \cup (IF rest.size = 0 THEN {} ELSE {rest})
           /\ rest.size # 0 => rest \notin FreeBlocksOf(p) /\ rest.size \in 1 .. Cells
           /\ rest.page = p
  <1>0. /\ p \in DOMAIN pages /\ pages[p].block \cap pages[p].mark = {}
        /\ b \in FreeBlocksOf(p) /\ n \in Nat \ {0} /\ n <= b.size /\ finalizer \in BOOLEAN
        /\ rest = [page |-> b.page, cell |-> b.cell + n, size |-> b.size - n]
        /\ pages' = [pages EXCEPT ![p] = Divided(pages[p], b, rest, finalizer)]
    BY DEF Divides
  <1> DEFINE B == pages[p].block
             M == pages[p].mark
             S == Starts(p)
             c == b.cell
             x == c + n
             B1 == pages'[p].block
             M1 == pages'[p].mark
             S1 == B1 \cup M1
  <1>1. /\ b = [page |-> p, cell |-> c, size |-> b.size] /\ b.page = p
        /\ c \in M \ B /\ c \in S /\ c \in CellIndices /\ c \in Nat
        /\ b.size \in 1 .. Cells /\ b.size \in Nat /\ NextIn(S, c) = c + b.size
        /\ c + b.size <= Cells
    BY <1>0, FreeBlockTypes
  <1>2. /\ pages[p] \in PageRecords /\ B \in SUBSET CellIndices /\ M \in SUBSET CellIndices
        /\ S = B \cup M /\ S \in SUBSET CellIndices
        /\ pages[p].finalizers \in SUBSET CellIndices
        /\ Len(pages) \in Nat /\ DOMAIN pages = 1 .. Len(pages)
    BY <1>0, PageTypes DEF Starts
  <1>3. /\ rest.page = p /\ rest.cell = x /\ rest.size = b.size - n /\ rest.size \in Nat
        /\ rest = [page |-> p, cell |-> x, size |-> rest.size]
    <2>1. rest.page = b.page /\ rest.cell = x /\ rest.size = b.size - n
      BY <1>0
    <2>2. b.size - n \in Nat
      BY <1>0, <1>1
    <2> QED BY <2>1, <2>2, <1>0, <1>1
  <1>4. rest.size # 0 => x \in CellIndices /\ x # c /\ c < x /\ x < NextIn(S, c) /\ x \notin S
                         /\ rest.size \in 1 .. Cells
    <2> SUFFICES ASSUME rest.size # 0
                 PROVE  x \in CellIndices /\ x # c /\ c < x /\ x < NextIn(S, c) /\ x \notin S
                        /\ rest.size \in 1 .. Cells
      OBVIOUS
    <2>1. x \in Nat /\ c < x /\ x < c + b.size /\ x < Cells
      <3>1. /\ c \in Nat /\ b.size \in Nat /\ n \in Nat /\ n # 0 /\ Cells \in Nat
            /\ b.size - n \in Nat /\ b.size - n # 0 /\ c + b.size <= Cells
        BY <1>0, <1>1, <1>3, Sizes
      <3> HIDE DEF c
      <3> QED BY ONLY <3>1
    <2>2. x \in CellIndices
      BY <2>1, Sizes DEF CellIndices
    <2>3. x < NextIn(S, c) /\ x # c
      BY <1>1, <2>1
    <2>4. x \notin S
      BY <1>1, <1>2, <2>1, <2>2, <2>3, NextInSplit
    <2>5. rest.size \in 1 .. Cells
      BY <1>0, <1>1, <1>3, Sizes
    <2> QED BY <2>1, <2>2, <2>3, <2>4, <2>5
  <1>5. /\ B1 = B \cup {c}
        /\ M1 = (M \ {c}) \cup (IF rest.size = 0 THEN {} ELSE {x})
        /\ pages'[p].finalizers = pages[p].finalizers \cup (IF finalizer THEN {c} ELSE {})
        /\ DOMAIN pages' = DOMAIN pages
        /\ pages' \in Seq(PageRecords)
        /\ \A q \in DOMAIN pages : q # p => pages'[q] = pages[q]
    <2> DEFINE new == IF rest.size = 0
                      THEN mark_finalizer(set_allocated(pages[p], c), c, finalizer)
                      ELSE mark_finalizer(set_free(set_allocated(pages[p], c), x), c, finalizer)
    <2>1. pages' = [pages EXCEPT ![p] = new]
      BY <1>0, <1>3 DEF Divided
    <2>2. pages[p] = [block |-> B, mark |-> M, finalizers |-> pages[p].finalizers]
      BY <1>2 DEF PageRecords
    <2>3. new = [block |-> IF rest.size = 0 THEN B \cup {c} ELSE (B \cup {c}) \ {x},
                 mark |-> IF rest.size = 0 THEN M \ {c} ELSE (M \ {c}) \cup {x},
                 finalizers |-> IF finalizer THEN pages[p].finalizers \cup {c}
                                ELSE pages[p].finalizers]
      <3> DEFINE y == [block |-> B, mark |-> M, finalizers |-> pages[p].finalizers]
      <3>1. CASE rest.size = 0
        <4>1. new = mark_finalizer(set_allocated(y, c), c, finalizer)
          BY <3>1, <2>2
        <4> HIDE DEF new
        <4> QED BY <3>1, <4>1 DEF mark_finalizer, set_allocated
      <3>2. CASE rest.size # 0
        <4>1. new = mark_finalizer(set_free(set_allocated(y, c), x), c, finalizer)
          BY <3>2, <2>2
        <4> HIDE DEF new
        <4> QED BY <3>2, <4>1 DEF mark_finalizer, set_allocated, set_free
      <3> QED BY <3>1, <3>2
    <2> HIDE DEF new
    <2>4. /\ new.block = B \cup {c}
          /\ new.mark = (M \ {c}) \cup (IF rest.size = 0 THEN {} ELSE {x})
          /\ new.finalizers = pages[p].finalizers \cup (IF finalizer THEN {c} ELSE {})
      <3>1. /\ new.block = IF rest.size = 0 THEN B \cup {c} ELSE (B \cup {c}) \ {x}
            /\ new.mark = IF rest.size = 0 THEN M \ {c} ELSE (M \ {c}) \cup {x}
            /\ new.finalizers = IF finalizer THEN pages[p].finalizers \cup {c}
                                ELSE pages[p].finalizers
        BY <2>3
      <3>2. rest.size # 0 => x \notin B \cup {c}
        BY <1>2, <1>4
      <3> HIDE DEF B, M, c, x
      <3> QED BY <3>1, <3>2
    <2>5. new \in PageRecords
      <3>1. B \cup {c} \in SUBSET CellIndices /\ (M \ {c}) \in SUBSET CellIndices
            /\ (rest.size # 0 => x \in CellIndices)
        BY <1>1, <1>2, <1>4
      <3>2. /\ (IF rest.size = 0 THEN B \cup {c} ELSE (B \cup {c}) \ {x}) \in SUBSET CellIndices
            /\ (IF rest.size = 0 THEN M \ {c} ELSE (M \ {c}) \cup {x}) \in SUBSET CellIndices
            /\ (IF finalizer THEN pages[p].finalizers \cup {c} ELSE pages[p].finalizers)
                    \in SUBSET CellIndices
        BY <3>1, <1>1, <1>2
      <3> HIDE DEF B, M, c, x
      <3> QED BY <3>2, <2>3 DEF PageRecords
    <2>6. pages \in Seq(PageRecords)
      BY DEF HeapTypes
    <2>7. pages' \in Seq(PageRecords)
      BY <2>1, <2>5, <2>6, <1>0, <1>2, ExceptSeq
    <2>8. pages'[p] = new /\ DOMAIN pages' = DOMAIN pages
          /\ \A q \in DOMAIN pages : q # p => pages'[q] = pages[q]
      BY <2>1, <1>0
    <2> QED BY <2>4, <2>7, <2>8
  <1>6. B1 \cap M1 = {} /\ S1 = S \cup (IF rest.size = 0 THEN {} ELSE {x})
    <2> HIDE DEF B1, M1
    <2>1. rest.size # 0 => x \notin B \cup {c}
      BY <1>2, <1>4
    <2>2. B \cap M = {} /\ c \in M
      BY <1>0, <1>1
    <2> HIDE DEF B, M, c, x, S
    <2> QED BY <2>1, <2>2, <1>2, <1>5 DEF S1
  <1>7. Starts(p)' = S1
    BY DEF Starts
  <1>8. /\ NextIn(S1, c) = x
        /\ rest.size # 0 => NextIn(S1, x) = NextIn(S, c)
        /\ \A d \in S : d # c => NextIn(S1, d) = NextIn(S, d)
    <2> HIDE DEF S1, S
    <2>1. CASE rest.size = 0
      <3>1. n = b.size
        BY <2>1, <1>0, <1>1, <1>3
      <3> QED BY <2>1, <3>1, <1>1, <1>6
    <2>2. CASE rest.size # 0
      <3>1. /\ S \in SUBSET CellIndices /\ c \in S /\ x \in CellIndices
            /\ c < x /\ x < NextIn(S, c) /\ S1 = S \cup {x}
        BY <2>2, <1>1, <1>2, <1>4, <1>6
      <3> HIDE DEF c, x
      <3>2. /\ NextIn(S \cup {x}, c) = x
            /\ NextIn(S \cup {x}, x) = NextIn(S, c)
            /\ \A d \in S : d # c => NextIn(S \cup {x}, d) = NextIn(S, d)
        BY <3>1, NextInSplit
      <3> QED BY <3>1, <3>2
    <2> QED BY <2>1, <2>2
  <1>9. FreeBlocksOf(p)' =
            (FreeBlocksOf(p) \ {b}) \cup (IF rest.size = 0 THEN {} ELSE {rest})
    <2> DEFINE old(d) == [page |-> p, cell |-> d, size |-> NextIn(S, d) - d]
               block(d) == [page |-> p, cell |-> d, size |-> NextIn(S1, d) - d]
    <2>1. FreeBlocksOf(p) = {old(d) : d \in M \ B}
      BY DEF FreeBlocksOf
    <2>2. FreeBlocksOf(p)' = {block(d) : d \in M1 \ B1}
      BY <1>7 DEF FreeBlocksOf
    <2>3. M1 \ B1 = (M \ (B \cup {c})) \cup (IF rest.size = 0 THEN {} ELSE {x})
      <3>1. rest.size # 0 => x \notin B \cup {c}
        BY <1>2, <1>4
      <3> HIDE DEF B, M, c, x, B1, M1
      <3> QED BY <3>1, <1>5
    <2>4. \A d \in M \ (B \cup {c}) : block(d) = old(d)
      BY <1>2, <1>8
    <2>5. rest.size # 0 => block(x) = rest
      <3> SUFFICES ASSUME rest.size # 0
                   PROVE  block(x) = rest
        OBVIOUS
      <3>1. NextIn(S1, x) = c + b.size
        BY <1>1, <1>8
      <3>2. (c + b.size) - x = rest.size
        BY <1>0, <1>1, <1>3
      <3> QED BY <3>1, <3>2, <1>3
    <2>6. old(c) = b
      <3>1. (c + b.size) - c = b.size
        BY <1>1
      <3> QED BY <3>1, <1>1
    <2>7. \A d, e : old(d) = old(e) => d = e
      OBVIOUS
    <2> HIDE DEF old, block
    <2>8. {old(d) : d \in M \ B} \ {b} = {old(d) : d \in M \ (B \cup {c})}
      <3> HIDE DEF M, B
      <3>1. \A d \in M \ B : old(d) # b <=> d # c
        BY <2>6, <2>7
      <3> QED BY <3>1, <2>6, <1>1
    <2> HIDE DEF M, B, M1, B1, S, S1, c, x
    <2> QED BY <2>1, <2>2, <2>3, <2>4, <2>5, <2>8
  <1>10. rest.size # 0 => rest \notin FreeBlocksOf(p)
    <2> SUFFICES ASSUME rest.size # 0, rest \in FreeBlocksOf(p)
                 PROVE  FALSE
      OBVIOUS
    <2>1. rest.cell \in S
      BY <1>0, FreeBlockTypes
    <2> QED BY <2>1, <1>3, <1>4
  <1>11. S \subseteq S1
    BY <1>6
  <1>12. \A d \in B : d \in S /\ d # c
    BY <1>1, <1>2
  <1>13. \A d \in B : NextIn(S1, d) = NextIn(S, d)
    BY <1>8, <1>12
  <1>14. rest.size # 0 => rest \notin FreeBlocksOf(p) /\ rest.size \in 1 .. Cells
    BY <1>4, <1>10
  <1>15. S \subseteq Starts(p)' /\ NextIn(Starts(p)', c) = x
         /\ \A d \in B : NextIn(Starts(p)', d) = NextIn(S, d)
    BY <1>7, <1>8, <1>11, <1>13
  <1>16. pages'[p].block \cap pages'[p].mark = {}
    BY <1>6
  <1> QED BY ONLY <1>3, <1>5, <1>9, <1>14, <1>15, <1>16

\* allocate_exact takes the block that it has found from the lists and divides it.
LEMMA FoundDivides ==
    ASSUME HeapInv, AllocateExact, NEW n, n = Request, NEW b, b = Found(n),
           NEW rest, rest = [page |-> b.page, cell |-> b.cell + n, size |-> b.size - n],
           NEW p, p = b.page, NEW fin, fin = request.finalizer
    PROVE  /\ Divides(p, b, n, rest, fin) /\ n \in Nat \ {0} /\ p \in DOMAIN pages
           /\ b \in FreeBlocksOf(p) /\ b \in FreeSpace
           /\ b.cell \in Nat /\ b.size \in Nat
           /\ Listed(Without(n), FreeSpace \ {b}) /\ DOMAIN Without(n) = DOMAIN lists
           /\ lists' = IF rest.size = 0 THEN Without(n) ELSE insert_free(Without(n), rest)
           /\ stage = "find" /\ Created(<<p, b.cell>>) /\ lobs' = lobs
  <1>1. HeapTypes /\ stage = "find"
        /\ Candidates(n) # {} /\ Created(<<p, b.cell>>) /\ Split(n) /\ lobs' = lobs
    BY DEF HeapInv, AllocateExact
  <1>2. n \in Nat \ {0} /\ fin \in BOOLEAN
    BY <1>1, RequestPositive
  <1>3. to_sweep = {} /\ Listed(lists, FreeSpace) /\ MarksReset
    BY <1>1 DEF HeapInv, HeapTypes, ListsMatch
  <1>4. /\ b \in FreeSpace /\ b.size >= n
        /\ Listed(Without(n), FreeSpace \ {b}) /\ DOMAIN Without(n) = DOMAIN lists
    BY <1>1, <1>2, <1>3, FoundBlock
  <1>5. p \in DOMAIN pages /\ b \in FreeBlocksOf(p) /\ b.cell \in Nat /\ b.size \in Nat
    <2>1. PICK q \in DOMAIN pages : b \in FreeBlocksOf(q)
      BY <1>4 DEF FreeSpace
    <2>2. p = q /\ b.cell \in Nat /\ b.size \in Nat
      BY <1>1, <2>1, FreeBlockTypes
    <2> QED BY <2>1, <2>2
  <1>6. Rest(n) = rest
    BY DEF Rest
  <1>7. /\ pages' = [pages EXCEPT ![p] = Divided(pages[p], b, rest, fin)]
        /\ lists' = IF rest.size = 0 THEN Without(n) ELSE insert_free(Without(n), rest)
    BY <1>1, <1>6 DEF Split, Divided
  <1>8. pages[p].block \cap pages[p].mark = {}
    BY <1>1, <1>3, <1>5 DEF MarksReset
  <1>9. n <= b.size
    BY <1>2, <1>4, <1>5
  <1>10. Divides(p, b, n, rest, fin)
    BY <1>2, <1>5, <1>7, <1>8, <1>9 DEF Divides
  <1> QED BY <1>1, <1>2, <1>4, <1>5, <1>7, <1>10

LEMMA AllocateExactStep ==
    ASSUME HeapInv, AllocateExact
    PROVE  HeapInv'
  <1>a. PICK n : n = Request
    OBVIOUS
  <1>b. PICK b : b = Found(n)
    OBVIOUS
  <1>c. PICK rest : rest = [page |-> b.page, cell |-> b.cell + n, size |-> b.size - n]
    OBVIOUS
  <1>d. PICK p : p = b.page
    OBVIOUS
  <1>e. PICK fin : fin = request.finalizer
    OBVIOUS
  <1> DEFINE ref == <<p, b.cell>>
  <1>2. /\ Divides(p, b, n, rest, fin) /\ n \in Nat \ {0} /\ p \in DOMAIN pages
        /\ b \in FreeBlocksOf(p) /\ b \in FreeSpace
        /\ b.cell \in Nat /\ b.size \in Nat
        /\ Listed(Without(n), FreeSpace \ {b}) /\ DOMAIN Without(n) = DOMAIN lists
        /\ lists' = IF rest.size = 0 THEN Without(n) ELSE insert_free(Without(n), rest)
        /\ stage = "find" /\ Created(ref) /\ lobs' = lobs
    BY <1>a, <1>b, <1>c, <1>d, <1>e, FoundDivides
  <1>1. HeapTypes /\ References(roots, objects) /\ RequestTypes
    BY DEF HeapInv, HeapTypes
  <1>3. /\ to_sweep = {} /\ Listed(lists, FreeSpace)
        /\ \A q \in DOMAIN pages : 0 \in Starts(q)
        /\ ObjectsIntact /\ MarksReset
    BY <1>1, <1>2 DEF HeapInv, HeapTypes, ListsMatch
  <1>9. /\ pages' \in Seq(PageRecords) /\ DOMAIN pages' = DOMAIN pages
        /\ \A q \in DOMAIN pages : q # p => pages'[q] = pages[q]
        /\ pages'[p].block = pages[p].block \cup {b.cell}
        /\ pages'[p].block \cap pages'[p].mark = {}
        /\ Starts(p) \subseteq Starts(p)'
        /\ NextIn(Starts(p)', b.cell) = b.cell + n
        /\ \A d \in pages[p].block : NextIn(Starts(p)', d) = NextIn(Starts(p), d)
        /\ FreeBlocksOf(p)' =
                (FreeBlocksOf(p) \ {b}) \cup (IF rest.size = 0 THEN {} ELSE {rest})
        /\ rest.size # 0 => rest \notin FreeBlocksOf(p) /\ rest.size \in 1 .. Cells
        /\ rest.page = p
    BY <1>1, <1>2, SplitPage
  <1>10. /\ References(roots, objects)' /\ RequestTypes'
         /\ Reachable' \subseteq Reachable \cup {ref}
         /\ \A r \in Reachable : r # ref => objects'[r] = objects[r]
         /\ objects'[ref] = [cells |-> n, finalizer |-> request.finalizer,
                             finalized |-> 0, field |-> null]
         /\ stage' = "run" /\ to_sweep' = to_sweep
    <2>1. ref \in Nat \X Nat
      BY <1>1, <1>2, PageTypes
    <2> HIDE DEF ref
    <2> QED BY <2>1, <1>1, <1>2, <1>a, CreatedProperties
  <1>11. \A q \in DOMAIN pages : q # p => /\ Starts(q)' = Starts(q)
                                          /\ FreeBlocksOf(q)' = FreeBlocksOf(q)
    <2> SUFFICES ASSUME NEW q \in DOMAIN pages, q # p
                 PROVE  Starts(q)' = Starts(q) /\ FreeBlocksOf(q)' = FreeBlocksOf(q)
      OBVIOUS
    <2>1. pages'[q] = pages[q]
      BY <1>9
    <2>2. Starts(q)' = Starts(q)
      BY <2>1 DEF Starts
    <2> QED BY <2>1, <2>2 DEF FreeBlocksOf
  <1>12. HeapTypes'
    <2>1. DOMAIN lists' = DOMAIN lists
      BY <1>2 DEF insert_free
    <2> QED BY <2>1, <1>1, <1>2, <1>3, <1>9, <1>10 DEF HeapTypes, Stages
  <1>13. ObjectsIntact'
    <2>1. p # 0
      BY <1>1, <1>2, PageTypes
    <2>2. /\ ~IsLob(ref) /\ ref[1] \in DOMAIN pages' /\ ref[2] \in pages'[ref[1]].block
          /\ NextIn(Starts(ref[1])', ref[2]) - ref[2] = objects'[ref].cells
      <3>1. ref[1] = p /\ ref[2] = b.cell /\ objects'[ref].cells = n
        BY <1>10
      <3>2. (b.cell + n) - b.cell = n
        BY <1>2
      <3>3. ~IsLob(ref)
        BY <2>1, <3>1 DEF IsLob
      <3> HIDE DEF ref
      <3> QED BY <3>1, <3>2, <3>3, <1>2, <1>9
    <2>3. ASSUME NEW r \in Reachable, r[1] \in DOMAIN pages, r[2] \in pages[r[1]].block
          PROVE  /\ r[1] \in DOMAIN pages' /\ r[2] \in pages'[r[1]].block
                 /\ NextIn(Starts(r[1])', r[2]) = NextIn(Starts(r[1]), r[2])
      <3>1. CASE r[1] = p
        BY <2>3, <3>1, <1>9
      <3>2. CASE r[1] # p
        BY <2>3, <3>2, <1>9, <1>11
      <3> QED BY <3>1, <3>2
    <2> HIDE DEF ref
    <2>4. \A r \in Reachable :
            r # ref /\ r[1] \in DOMAIN pages /\ r[2] \in pages[r[1]].block =>
                /\ r[1] \in DOMAIN pages' /\ r[2] \in pages'[r[1]].block
                /\ NextIn(Starts(r[1])', r[2]) = NextIn(Starts(r[1]), r[2])
      BY <2>3
    <2>5. /\ stage # "destroyed" /\ ObjectsIntact
          /\ Reachable' \subseteq Reachable \cup {ref}
          /\ \A r \in Reachable : r # ref => objects'[r] = objects[r]
          /\ \A r \in Reachable : IsLob(r) /\ r[2] \in DOMAIN lobs =>
                r[2] \in DOMAIN lobs' /\ lobs'[r[2]].cells = lobs[r[2]].cells
      BY <1>1, <1>2, <1>3, <1>10
    <2> QED BY ONLY <2>2, <2>4, <2>5, IntactCreated
  <1>14. MarksReset'
    <2>1. \A q \in DOMAIN pages' : pages'[q].block \cap pages'[q].mark = {}
      <3> SUFFICES ASSUME NEW q \in DOMAIN pages
                   PROVE  pages'[q].block \cap pages'[q].mark = {}
        BY <1>9
      <3>1. CASE q = p
        BY <3>1, <1>9
      <3>2. CASE q # p
        BY <3>2, <1>1, <1>2, <1>3, <1>9 DEF MarksReset
      <3> QED BY <3>1, <3>2
    <2>2. \A k \in DOMAIN lobs' : ~lobs'[k].marked
      BY <1>1, <1>2, <1>3 DEF MarksReset
    <2> QED BY <2>1, <2>2 DEF MarksReset
  <1>15. MarksClosed' /\ MarksComplete'
    BY <1>10 DEF MarksClosed, MarksComplete
  <1>16. \A q \in DOMAIN pages' : 0 \in Starts(q)'
    BY <1>3, <1>9, <1>11
  <1>17. FreeSpace' = (FreeSpace \ {b}) \cup (IF rest.size = 0 THEN {} ELSE {rest})
         /\ (rest.size # 0 => rest \notin FreeSpace)
    <2>1. FreeSpace = UNION {FreeBlocksOf(q) : q \in DOMAIN pages}
          /\ FreeSpace' = UNION {FreeBlocksOf(q)' : q \in DOMAIN pages}
      BY <1>3, <1>9, <1>10 DEF FreeSpace
    <2>2. \A q \in DOMAIN pages : \A x \in FreeBlocksOf(q) : x.page = q
      BY <1>1, <1>2, FreeBlockTypes
    <2>3. \A q \in DOMAIN pages : q # p => b \notin FreeBlocksOf(q) /\ rest \notin FreeBlocksOf(q)
      BY <2>2, <1>9, <1>d
    <2>4. \A x : x \in FreeSpace' <=>
                    x \in FreeBlocksOf(p)' \/ \E q \in DOMAIN pages : q # p /\ x \in FreeBlocksOf(q)
      BY <2>1, <1>2, <1>11
    <2>5. \A x : x \in FreeSpace <=>
                    x \in FreeBlocksOf(p) \/ \E q \in DOMAIN pages : q # p /\ x \in FreeBlocksOf(q)
      BY <2>1, <1>2
    <2>6. \A x : x \in FreeSpace' <=>
                    x \in (FreeSpace \ {b}) \cup (IF rest.size = 0 THEN {} ELSE {rest})
      BY <2>3, <2>4, <2>5, <1>9
    <2>7. rest.size # 0 => rest \notin FreeSpace
      BY <2>3, <2>5, <1>9
    <2> QED BY <2>6, <2>7
  <1>18. Listed(lists', FreeSpace')
    <2>1. CASE rest.size = 0
      <3>1. FreeSpace' = FreeSpace \ {b} /\ lists' = Without(n)
        BY <2>1, <1>2, <1>17
      <3> QED BY <3>1, <1>2
    <2>2. CASE rest.size # 0
      <3>1. FreeSpace' = (FreeSpace \ {b}) \cup {rest} /\ lists' = insert_free(Without(n), rest)
            /\ rest \notin FreeSpace \ {b} /\ rest.size \in 1 .. Cells
        BY <2>2, <1>2, <1>9, <1>17
      <3>2. DOMAIN Without(n) = 0 .. (ClassCount - 1)
        BY <1>1, <1>2 DEF HeapTypes
      <3>3. Listed(insert_free(Without(n), rest), (FreeSpace \ {b}) \cup {rest})
        BY <3>1, <3>2, <1>2, InsertListed
      <3> QED BY <3>1, <3>3
    <2> QED BY <2>1, <2>2
  <1>19. ListsMatch'
    BY <1>16, <1>18 DEF ListsMatch, Listed
  <1> QED BY <1>10, <1>12, <1>13, <1>14, <1>15, <1>19 DEF HeapInv

LEMMA AddPageStep ==
    ASSUME HeapInv, AddPage
    PROVE  HeapInv'
  <1>a. PICK q : q = Len(pages) + 1
    OBVIOUS
  <1> DEFINE new == [block |-> {}, mark |-> {0}, finalizers |-> {}]
             b == [page |-> q, cell |-> 0, size |-> Cells]
  <1>1. HeapTypes /\ References(roots, objects) /\ RequestTypes /\ stage = "find"
    BY DEF HeapInv, HeapTypes, AddPage, NeedsPage, NothingFits
  <1>2. /\ to_sweep = {} /\ Listed(lists, FreeSpace)
        /\ \A p \in DOMAIN pages : 0 \in Starts(p)
        /\ ObjectsIntact /\ MarksReset
    BY <1>1 DEF HeapInv, HeapTypes, ListsMatch
  <1>3. pages' = Append(pages, new) /\ lists' = insert_free(lists, b)
        /\ request' = [request EXCEPT !.paged = TRUE]
        /\ UNCHANGED <<lobs, stage, to_sweep, roots, objects>>
    <2>1. set_free([block |-> {}, mark |-> {}, finalizers |-> {}], 0) = new
      <3> DEFINE empty == [block |-> {}, mark |-> {}, finalizers |-> {}]
      <3>1. set_free(empty, 0) = [empty EXCEPT !.block = @ \ {0}, !.mark = @ \cup {0}]
        BY DEF set_free
      <3>2. {} \ {0} = {} /\ {} \cup {0} = {0}
        OBVIOUS
      <3> QED BY <3>1, <3>2
    <2> HIDE DEF new
    <2> QED BY <2>1, <1>a DEF AddPage, collector, mutator
  <1>4. Len(pages) \in Nat /\ DOMAIN pages = 1 .. Len(pages) /\ pages \in Seq(PageRecords)
        /\ q \notin DOMAIN pages /\ 1 .. q = DOMAIN pages \cup {q} /\ q \in Nat
    <2>1. Len(pages) \in Nat /\ DOMAIN pages = 1 .. Len(pages) /\ pages \in Seq(PageRecords)
      BY <1>1, PageTypes DEF HeapTypes
    <2> QED BY <2>1, <1>a
  <1>5. Cells \in Nat /\ Cells \in 1 .. Cells /\ 0 \in CellIndices /\ {0} \in SUBSET CellIndices
    BY Sizes DEF CellIndices
  <1>6. new \in PageRecords
    BY <1>5 DEF PageRecords
  <1>7. /\ pages' \in Seq(PageRecords) /\ DOMAIN pages' = DOMAIN pages \cup {q}
        /\ pages'[q] = new /\ \A p \in DOMAIN pages : pages'[p] = pages[p]
    <2>1. /\ pages' \in Seq(PageRecords) /\ Len(pages') = q
          /\ \A p \in 1 .. Len(pages) : pages'[p] = pages[p]
          /\ pages'[q] = new
      <3> HIDE DEF new
      <3> QED BY <1>3, <1>4, <1>6, <1>a, AppendProperties
    <2>2. DOMAIN pages' = 1 .. q
      BY <2>1, LenProperties
    <2> QED BY <2>1, <2>2, <1>4
  <1> HIDE DEF new
  <1>8. /\ pages'[q].block = {} /\ pages'[q].mark = {0} /\ Starts(q)' = {0}
    BY <1>7 DEF Starts, new
  <1>9. NextIn({0}, 0) = Cells
    <2>1. Cells \in {0} \cup {Cells} /\ 0 < Cells /\ Cells <= Cells
          /\ \A d \in {0} : 0 < d => Cells <= d
      BY Sizes
    <2> QED BY <2>1, <1>5, NextInUnique
  <1>10. FreeBlocksOf(q)' = {b}
    <2>1. FreeBlocksOf(q)' = {[page |-> q, cell |-> c, size |-> NextIn({0}, c) - c] : c \in {0}}
      BY <1>8 DEF FreeBlocksOf
    <2>2. Cells - 0 = Cells
      BY <1>5
    <2> QED BY <2>1, <2>2, <1>9
  <1>11. \A p \in DOMAIN pages : /\ Starts(p)' = Starts(p)
                                 /\ FreeBlocksOf(p)' = FreeBlocksOf(p)
    BY <1>7 DEF Starts, FreeBlocksOf
  <1>12. b \notin FreeSpace /\ FreeSpace' = FreeSpace \cup {b}
    <2>1. FreeSpace = UNION {FreeBlocksOf(p) : p \in DOMAIN pages}
          /\ FreeSpace' = UNION {FreeBlocksOf(p)' : p \in DOMAIN pages \cup {q}}
      BY <1>2, <1>3, <1>7 DEF FreeSpace
    <2>2. \A p \in DOMAIN pages : \A x \in FreeBlocksOf(p) : x.page = p
      BY <1>1, FreeBlockTypes
    <2>3. b \notin FreeSpace
      BY <2>1, <2>2, <1>4
    <2>4. \A x : x \in FreeSpace' <=> x \in FreeSpace \cup {b}
      BY <2>1, <1>10, <1>11
    <2> QED BY <2>3, <2>4
  <1>13. RequestTypes'
    BY <1>1, <1>3 DEF RequestTypes, NoRequest
  <1>14. HeapTypes'
    <2>1. DOMAIN lists' = DOMAIN lists
      BY <1>3 DEF insert_free
    <2> QED BY <2>1, <1>1, <1>2, <1>3, <1>7, <1>13 DEF HeapTypes, Stages
  <1>15. ObjectsIntact'
    <2>1. Reachable' = Reachable
      BY <1>3 DEF Reachable
    <2>2. \A r \in Reachable' : r \in Reachable /\ objects'[r].cells = objects[r].cells
      BY <2>1, <1>3
    <2>3. \A r \in Reachable : IsLob(r) /\ r[2] \in DOMAIN lobs =>
            r[2] \in DOMAIN lobs' /\ lobs'[r[2]].cells = lobs[r[2]].cells
      BY <1>3
    <2>4. \A r \in Reachable :
            r[1] \in DOMAIN pages /\ r[2] \in pages[r[1]].block =>
                /\ r[1] \in DOMAIN pages' /\ r[2] \in pages'[r[1]].block
                /\ NextIn(Starts(r[1])', r[2]) = NextIn(Starts(r[1]), r[2])
      BY <1>7, <1>11
    <2>5. stage # "destroyed" /\ ObjectsIntact
      BY <1>1, <1>2
    <2> QED BY ONLY <2>2, <2>3, <2>4, <2>5, IntactStep
  <1>16. MarksReset'
    <2>1. \A p \in DOMAIN pages' : pages'[p].block \cap pages'[p].mark = {}
      <3>1. \A p \in DOMAIN pages : pages[p].block \cap pages[p].mark = {}
        BY <1>1, <1>2 DEF MarksReset
      <3>2. pages'[q].block \cap pages'[q].mark = {}
        BY <1>8
      <3> QED BY <3>1, <3>2, <1>7
    <2>2. \A k \in DOMAIN lobs' : ~lobs'[k].marked
      BY <1>1, <1>2, <1>3 DEF MarksReset
    <2> QED BY <2>1, <2>2 DEF MarksReset
  <1>17. MarksClosed' /\ MarksComplete'
    BY <1>1, <1>3 DEF MarksClosed, MarksComplete
  <1>18. Listed(lists', FreeSpace')
    <2>1. DOMAIN lists = 0 .. (ClassCount - 1) /\ b.size = Cells
      BY <1>1 DEF HeapTypes
    <2> HIDE DEF b
    <2> QED BY <2>1, <1>2, <1>3, <1>5, <1>12, InsertListed
  <1>19. ListsMatch'
    <2>1. \A p \in DOMAIN pages' : 0 \in Starts(p)'
      BY <1>2, <1>7, <1>8, <1>11
    <2> QED BY <2>1, <1>18 DEF ListsMatch, Listed
  <1>20. References(roots, objects)'
    BY <1>1, <1>3
  <1> QED BY <1>14, <1>15, <1>16, <1>17, <1>19, <1>20 DEF HeapInv

-----------------------------------------------------------------------------
(* Steps of the collector. *)

\* The object r, which has not been swept, has storage.
Stored(r) ==
    /\ r \in Nat \X Nat
    /\ IF IsLob(r) THEN r[2] \in DOMAIN lobs
                   ELSE r[1] \in DOMAIN pages /\ r[2] \in pages[r[1]].block

LEMMA ReachableStored ==
    ASSUME References(roots, objects), ObjectsIntact, stage # "destroyed", NEW r \in Reachable
    PROVE  Stored(r) /\ r = <<r[1], r[2]>> /\ r \in DOMAIN objects
  <1>1. r \in DOMAIN objects
    BY ReachableClosed DEF Reachable
  <1>2. r \in Nat \X Nat
    BY <1>1 DEF References
  <1> QED BY <1>1, <1>2 DEF ObjectsIntact, Stored

\* Marking sets the mark bits of the objects in refs, and nothing else.
LEMMA MarkProperties ==
    ASSUME HeapTypes, NEW refs, NEW rest, mark(refs, rest), \A r \in refs : Stored(r)
    PROVE  /\ pages' \in Seq(PageRecords) /\ DOMAIN pages' = DOMAIN pages
           /\ lobs' \in [DOMAIN lobs -> LobRecords]
           /\ \A p \in DOMAIN pages :
                /\ pages'[p].block = pages[p].block /\ pages'[p].finalizers = pages[p].finalizers
                /\ Starts(p)' = Starts(p) /\ FreeBlocksOf(p)' = FreeBlocksOf(p)
           /\ \A n \in DOMAIN lobs :
                lobs'[n].cells = lobs[n].cells /\ lobs'[n].finalizer = lobs[n].finalizer
           /\ \A r : Stored(r) => (Marked(r)' <=> (Marked(r) \/ r \in refs))
           /\ to_trace' = rest \cup {r \in refs : ~Marked(r)}
  <1> DEFINE marks(p) == {c \in CellIndices : <<p, c>> \in refs /\ ~Marked(<<p, c>>)}
  <1>1. /\ pages' = [p \in DOMAIN pages |-> [pages[p] EXCEPT !.mark = @ \cup marks(p)]]
        /\ lobs' = [n \in DOMAIN lobs |-> [lobs[n] EXCEPT
                        !.marked = @ \/ (<<0, n>> \in refs /\ ~Marked(<<0, n>>))]]
        /\ to_trace' = rest \cup {r \in refs : ~Marked(r)}
    <2>1. \A r : r \in {x \in refs : ~Marked(x)} <=> r \in refs /\ ~Marked(r)
      OBVIOUS
    <2> QED BY <2>1 DEF mark
  <1>2. /\ DOMAIN pages = 1 .. Len(pages) /\ Len(pages) \in Nat
        /\ \A p \in DOMAIN pages :
            /\ pages[p] \in PageRecords /\ pages[p].block \in SUBSET CellIndices
            /\ pages[p].mark \in SUBSET CellIndices /\ pages[p].finalizers \in SUBSET CellIndices
    BY PageTypes
  <1>3. \A p \in DOMAIN pages : marks(p) \in SUBSET CellIndices /\ marks(p) \subseteq pages[p].block
    <2> SUFFICES ASSUME NEW p \in DOMAIN pages, NEW c \in marks(p)
                 PROVE  c \in pages[p].block
      OBVIOUS
    <2>1. Stored(<<p, c>>) /\ p # 0
      BY <1>2
    <2> QED BY <2>1 DEF Stored, IsLob
  <1>4. \A p \in DOMAIN pages :
            /\ pages'[p] \in PageRecords
            /\ pages'[p].block = pages[p].block /\ pages'[p].finalizers = pages[p].finalizers
            /\ pages'[p].mark = pages[p].mark \cup marks(p)
    <2> HIDE DEF marks
    <2> SUFFICES ASSUME NEW p \in DOMAIN pages
                 PROVE  /\ pages'[p] \in PageRecords
                        /\ pages'[p].block = pages[p].block
                        /\ pages'[p].finalizers = pages[p].finalizers
                        /\ pages'[p].mark = pages[p].mark \cup marks(p)
      OBVIOUS
    <2>1. pages'[p] = [pages[p] EXCEPT !.mark = @ \cup marks(p)]
      BY <1>1
    <2>2. pages[p] \in PageRecords /\ pages[p].mark \cup marks(p) \in SUBSET CellIndices
      BY <1>2, <1>3
    <2> QED BY <2>1, <2>2 DEF PageRecords
  <1>5. DOMAIN pages' = DOMAIN pages
    BY <1>1
  <1>6. pages' \in Seq(PageRecords)
    <2>1. pages' = [p \in 1 .. Len(pages) |-> pages'[p]]
      BY <1>1, <1>2
    <2>2. pages' \in [1 .. Len(pages) -> PageRecords]
      BY <2>1, <1>2, <1>4
    <2> QED BY <2>2, <1>2
  <1>7. \A n \in DOMAIN lobs :
            /\ lobs'[n] \in LobRecords
            /\ lobs'[n].cells = lobs[n].cells /\ lobs'[n].finalizer = lobs[n].finalizer
            /\ lobs'[n].marked <=> (lobs[n].marked \/ <<0, n>> \in refs)
    <2> SUFFICES ASSUME NEW n \in DOMAIN lobs
                 PROVE  /\ lobs'[n] \in LobRecords
                        /\ lobs'[n].cells = lobs[n].cells /\ lobs'[n].finalizer = lobs[n].finalizer
                        /\ lobs'[n].marked <=> (lobs[n].marked \/ <<0, n>> \in refs)
      OBVIOUS
    <2>1. lobs'[n] = [lobs[n] EXCEPT !.marked = @ \/ (<<0, n>> \in refs /\ ~Marked(<<0, n>>))]
      BY <1>1
    <2>2. lobs[n] \in [cells : Nat, marked : BOOLEAN, finalizer : BOOLEAN]
      BY DEF HeapTypes, LobRecords
    <2>3. Marked(<<0, n>>) = lobs[n].marked
      BY DEF Marked, IsLob
    <2>4. /\ lobs'[n].cells = lobs[n].cells /\ lobs'[n].finalizer = lobs[n].finalizer
          /\ lobs'[n].marked = (lobs[n].marked \/ (<<0, n>> \in refs /\ ~Marked(<<0, n>>)))
      BY <2>1, <2>2
    <2>5. lobs'[n] \in LobRecords
      BY <2>1, <2>2 DEF LobRecords
    <2>6. lobs'[n].marked <=> (lobs[n].marked \/ <<0, n>> \in refs)
      BY <2>3, <2>4, Zenon
    <2> QED BY <2>4, <2>5, <2>6
  <1>8. lobs' \in [DOMAIN lobs -> LobRecords]
    <2>1. lobs' = [n \in DOMAIN lobs |-> lobs'[n]]
      BY <1>1
    <2> QED BY <2>1, <1>7
  <1>9. \A p \in DOMAIN pages : Starts(p)' = Starts(p)
    <2> HIDE DEF marks
    <2> QED BY <1>3, <1>4 DEF Starts
  <1>10. ASSUME NEW p \in DOMAIN pages
         PROVE  FreeBlocksOf(p)' = FreeBlocksOf(p)
    <2> HIDE DEF marks
    <2>1. (pages[p].mark \ pages[p].block)' = pages[p].mark \ pages[p].block
      BY <1>3, <1>4
    <2> QED BY <2>1, <1>9 DEF FreeBlocksOf
  <1>11. ASSUME NEW r, Stored(r)
         PROVE  Marked(r)' <=> (Marked(r) \/ r \in refs)
    <2>1. r = <<r[1], r[2]>>
      BY <1>11 DEF Stored
    <2>2. CASE IsLob(r)
      <3>1. r = <<0, r[2]>> /\ r[2] \in DOMAIN lobs
        BY <2>1, <2>2, <1>11 DEF IsLob, Stored
      <3>2. /\ Marked(r)' = lobs'[r[2]].marked
            /\ Marked(r) = lobs[r[2]].marked
        BY <2>2 DEF Marked
      <3> QED BY <3>1, <3>2, <1>7, Zenon
    <2>3. CASE ~IsLob(r)
      <3>1. r[1] \in DOMAIN pages /\ r[2] \in pages[r[1]].block
        BY <2>3, <1>11 DEF Stored
      <3>2. /\ Marked(r)' = (r[2] \in pages'[r[1]].mark)
            /\ Marked(r) = (r[2] \in pages[r[1]].mark)
        BY <2>3 DEF Marked
      <3>3. r[2] \in CellIndices
        BY <3>1, <1>2
      <3>4. r[2] \in marks(r[1]) <=> r \in refs /\ ~Marked(r)
        BY <2>1, <3>3
      <3>5. r[2] \in pages'[r[1]].mark <=> r[2] \in pages[r[1]].mark \/ r[2] \in marks(r[1])
        <4> HIDE DEF marks
        <4> QED BY <3>1, <1>4
      <3> HIDE DEF marks
      <3> QED BY <3>2, <3>4, <3>5, Zenon
    <2> QED BY <2>2, <2>3
  <1> QED BY <1>1, <1>4, <1>5, <1>6, <1>7, <1>8, <1>9, <1>10, <1>11

\* What a step that marks reachable objects leaves alone.
LEMMA MarkStep ==
    ASSUME HeapInv, NEW refs, NEW rest, mark(refs, rest), refs \subseteq Reachable,
           stage \in {"roots", "trace"}, stage' = "trace",
           UNCHANGED <<lists, request, to_sweep, roots, objects>>
    PROVE  /\ HeapTypes' /\ References(roots, objects)' /\ ObjectsIntact'
           /\ MarksReset' /\ MarksComplete' /\ ListsMatch'
           /\ Reachable' = Reachable
           /\ \A r \in Reachable : Stored(r) /\ (Marked(r)' <=> (Marked(r) \/ r \in refs))
           /\ to_trace' = rest \cup {r \in refs : ~Marked(r)}
  <1>1. HeapTypes /\ References(roots, objects) /\ ObjectsIntact /\ ListsMatch
    BY DEF HeapInv
  <1>2. \A r \in Reachable : Stored(r)
    BY <1>1, ReachableStored
  <1>3. /\ pages' \in Seq(PageRecords) /\ DOMAIN pages' = DOMAIN pages
        /\ lobs' \in [DOMAIN lobs -> LobRecords]
        /\ \A p \in DOMAIN pages :
            /\ pages'[p].block = pages[p].block
            /\ Starts(p)' = Starts(p) /\ FreeBlocksOf(p)' = FreeBlocksOf(p)
        /\ \A n \in DOMAIN lobs : lobs'[n].cells = lobs[n].cells
        /\ \A r : Stored(r) => (Marked(r)' <=> (Marked(r) \/ r \in refs))
        /\ to_trace' = rest \cup {r \in refs : ~Marked(r)}
    BY <1>1, <1>2, MarkProperties
  <1>4. DOMAIN lobs' = DOMAIN lobs
    BY <1>3
  <1>5. HeapTypes'
    <2>1. RequestTypes'
      BY <1>1 DEF HeapTypes, RequestTypes
    <2> QED BY <2>1, <1>1, <1>3, <1>4 DEF HeapTypes, Stages
  <1>6. Reachable' = Reachable
    BY DEF Reachable
  <1>7. ObjectsIntact'
    <2>1. \A r \in Reachable' : r \in Reachable /\ objects'[r].cells = objects[r].cells
      BY <1>6
    <2>2. \A r \in Reachable : IsLob(r) /\ r[2] \in DOMAIN lobs =>
            r[2] \in DOMAIN lobs' /\ lobs'[r[2]].cells = lobs[r[2]].cells
      BY <1>3, <1>4
    <2>3. \A r \in Reachable :
            r[1] \in DOMAIN pages /\ r[2] \in pages[r[1]].block =>
                /\ r[1] \in DOMAIN pages' /\ r[2] \in pages'[r[1]].block
                /\ NextIn(Starts(r[1])', r[2]) = NextIn(Starts(r[1]), r[2])
      BY <1>3
    <2> QED BY ONLY <2>1, <2>2, <2>3, <1>1, stage \in {"roots", "trace"}, IntactStep
  <1>8. ListsMatch'
    <2>1. FreeSpace' = FreeSpace
      BY <1>3 DEF FreeSpace
    <2> QED BY <2>1, <1>1, <1>3 DEF ListsMatch, Listed
  <1>9. MarksReset' /\ MarksComplete' /\ References(roots, objects)'
    BY <1>1 DEF MarksReset, MarksComplete
  <1> QED BY <1>2, <1>3, <1>5, <1>6, <1>7, <1>8, <1>9

LEMMA TraceRootsStep ==
    ASSUME HeapInv, TraceRoots
    PROVE  HeapInv'
  <1>1. /\ mark(roots, {}) /\ stage = "roots" /\ stage' = "trace"
        /\ UNCHANGED <<lists, request, to_sweep, roots, objects>>
    BY DEF TraceRoots, mutator
  <1>2. /\ roots \subseteq Reachable
        /\ \A r \in Reachable : objects[r].field \in Reachable \cup {null}
    BY ReachableClosed DEF Reachable, HeapInv
  <1>a. PICK refs : refs = roots
    OBVIOUS
  <1>3. /\ HeapTypes' /\ References(roots, objects)' /\ ObjectsIntact'
        /\ MarksReset' /\ MarksComplete' /\ ListsMatch'
        /\ Reachable' = Reachable
        /\ \A r \in Reachable : Stored(r) /\ (Marked(r)' <=> (Marked(r) \/ r \in refs))
        /\ to_trace' = {} \cup {r \in refs : ~Marked(r)}
    <2>1. mark(refs, {}) /\ refs \subseteq Reachable /\ stage \in {"roots", "trace"}
      BY <1>1, <1>2, <1>a
    <2> QED BY <2>1, <1>1, MarkStep
  <1>4. \A r \in Reachable : ~Marked(r)
    <2> SUFFICES ASSUME NEW r \in Reachable
                 PROVE  ~Marked(r)
      OBVIOUS
    <2>1. to_sweep = {} /\ MarksReset /\ Stored(r)
      BY <1>1, <1>3 DEF HeapInv, HeapTypes
    <2> QED BY <2>1, <1>1 DEF MarksReset, Stored, Marked
  <1>5. MarksClosed'
    <2>1. to_trace' = refs
      BY <1>2, <1>3, <1>4, <1>a
    <2>2. \A r \in Reachable : r \notin refs => ~Marked(r)'
      BY <1>3, <1>4
    <2>3. \A r \in roots' : Marked(r)'
      BY <1>1, <1>2, <1>3, <1>a
    <2> QED BY <2>1, <2>2, <2>3, <1>1, <1>2, <1>3, <1>a DEF MarksClosed
  <1> QED BY <1>3, <1>5 DEF HeapInv

LEMMA TraceValueStep ==
    ASSUME HeapInv, NEW ref, TraceValue(ref)
    PROVE  HeapInv'
  <1>1. /\ mark(Fields(objects, {ref}), to_trace \ {ref}) /\ stage = "trace" /\ stage' = "trace"
        /\ ref \in to_trace
        /\ UNCHANGED <<lists, request, to_sweep, roots, objects>>
    BY DEF TraceValue, mutator
  <1>2. /\ roots \subseteq Reachable
        /\ \A r \in Reachable : objects[r].field \in Reachable \cup {null}
        /\ to_trace \subseteq Reachable /\ MarksClosed
    BY <1>1, ReachableClosed DEF Reachable, HeapInv, MarksClosed
  <1>c. \A r \in Reachable \ to_trace :
            Marked(r) /\ objects[r].field # null => Marked(objects[r].field)
    BY <1>1, <1>2 DEF MarksClosed
  <1>a. PICK refs : refs = Fields(objects, {ref})
    OBVIOUS
  <1>b. PICK rest : rest = to_trace \ {ref}
    OBVIOUS
  <1>3. refs \subseteq Reachable
        /\ (objects[ref].field # null => objects[ref].field \in refs)
    BY <1>1, <1>2, <1>a DEF Fields
  <1>4. /\ HeapTypes' /\ References(roots, objects)' /\ ObjectsIntact'
        /\ MarksReset' /\ MarksComplete' /\ ListsMatch'
        /\ Reachable' = Reachable
        /\ \A r \in Reachable : Stored(r) /\ (Marked(r)' <=> (Marked(r) \/ r \in refs))
        /\ to_trace' = rest \cup {r \in refs : ~Marked(r)}
    <2>1. mark(refs, rest) /\ stage \in {"roots", "trace"}
      BY <1>1, <1>a, <1>b
    <2> QED BY <2>1, <1>1, <1>3, MarkStep
  <1>5. to_trace' \subseteq Reachable'
    BY <1>2, <1>3, <1>4, <1>b
  <1>6. \A r \in roots' : Marked(r)'
    BY <1>1, <1>2, <1>4 DEF MarksClosed
  <1>7. ASSUME NEW r \in Reachable, NEW v, v = objects[r].field,
               r \notin to_trace', Marked(r)', v # null
        PROVE  Marked(v)'
    <2>1. v \in Reachable
      BY <1>2, <1>7
    <2>2. CASE r = ref
      <3>1. v \in refs
        BY <2>2, <1>3, <1>7
      <3> QED BY <2>1, <3>1, <1>4
    <2>3. CASE r # ref
      <3>1. r \notin to_trace /\ Marked(r)
        BY <2>3, <1>4, <1>7, <1>b
      <3>2. Marked(v)
        BY <3>1, <1>c, <1>7
      <3> QED BY <2>1, <3>2, <1>4
    <2> QED BY <2>2, <2>3
  <1>8. MarksClosed'
    <2>1. \A r, v : r \in Reachable' \ to_trace' /\ Marked(r)' /\ v = objects'[r].field /\ v # null
                        => Marked(v)'
      BY <1>1, <1>4, <1>7
    <2> QED BY <2>1, <1>5, <1>6 DEF MarksClosed, Marked
  <1> QED BY <1>4, <1>8 DEF HeapInv

\* A finalizer does not change what can be reached.
LEMMA FinalizeProperties ==
    ASSUME References(roots, objects), NEW s, Finalize(s), roots' = roots
    PROVE  /\ References(roots, objects)' /\ Reachable' = Reachable
           /\ DOMAIN objects' = DOMAIN objects
           /\ \A r \in DOMAIN objects :
                /\ objects'[r].cells = objects[r].cells
                /\ objects'[r].finalizer = objects[r].finalizer
                /\ objects'[r].field = objects[r].field
                /\ objects'[r].finalized = objects[r].finalized + (IF r \in s THEN 1 ELSE 0)
  <1> DEFINE D == DOMAIN objects
             Records == [cells : Nat, finalizer : BOOLEAN, finalized : Nat, field : D \cup {null}]
  <1>1. objects' = [r \in D |-> [objects[r] EXCEPT !.finalized = @ + (IF r \in s THEN 1 ELSE 0)]]
    BY DEF Finalize
  <1>2. \A r \in D : objects[r] \in Records
    BY ObjectTypes
  <1>3. \A r \in D :
            /\ objects'[r] \in Records
            /\ objects'[r].cells = objects[r].cells
            /\ objects'[r].finalizer = objects[r].finalizer
            /\ objects'[r].field = objects[r].field
            /\ objects'[r].finalized = objects[r].finalized + (IF r \in s THEN 1 ELSE 0)
    <2> SUFFICES ASSUME NEW r \in D
                 PROVE  /\ objects'[r] \in Records
                        /\ objects'[r].cells = objects[r].cells
                        /\ objects'[r].finalizer = objects[r].finalizer
                        /\ objects'[r].field = objects[r].field
                        /\ objects'[r].finalized = objects[r].finalized + (IF r \in s THEN 1 ELSE 0)
      OBVIOUS
    <2>1. objects'[r] = [objects[r] EXCEPT !.finalized = @ + (IF r \in s THEN 1 ELSE 0)]
      BY <1>1
    <2>2. objects[r] \in Records
      BY <1>2
    <2> QED BY <2>1, <2>2
  <1>4. DOMAIN objects' = D /\ objects' = [r \in D |-> objects'[r]]
    BY <1>1
  <1>5. objects' \in [D -> Records]
    <2> HIDE DEF D, Records
    <2> QED BY <1>3, <1>4
  <1>6. References(roots', objects')
    BY <1>4, <1>5 DEF References
  <1>7. ReachableFrom(roots', objects') \subseteq Reachable
    <2>1. \A r \in Reachable \cap DOMAIN objects' : objects'[r].field \in Reachable \cup {null}
      BY <1>3, <1>4, ReachableClosed DEF Reachable
    <2>2. roots' \subseteq Reachable
      BY ReachableClosed DEF Reachable
    <2> QED BY <2>1, <2>2, <1>6, NothingNew
  <1>8. Reachable \subseteq ReachableFrom(roots', objects')
    <2> DEFINE S == ReachableFrom(roots', objects')
    <2>1. roots' \subseteq S /\ S \subseteq D /\ \A r \in S : objects'[r].field \in S \cup {null}
      BY <1>4, <1>6, ReachableClosed
    <2> HIDE DEF S
    <2>2. \A r \in S \cap DOMAIN objects : objects[r].field \in S \cup {null}
      BY <2>1, <1>3
    <2>3. ReachableFrom(roots, objects) \subseteq S
      BY <2>1, <2>2, ReachableLeast
    <2> QED BY <2>3 DEF Reachable, S
  <1>9. References(roots, objects)' /\ Reachable' = Reachable
    BY <1>6, <1>7, <1>8 DEF Reachable
  <1> QED BY <1>3, <1>4, <1>9

\* When tracing is complete, everything that can be reached is marked.
LEMMA TracedMarked ==
    ASSUME References(roots, objects), MarksClosed, stage = "trace", to_trace = {},
           NEW r \in Reachable
    PROVE  Marked(r)
  <1> DEFINE S == {x \in Reachable : Marked(x)}
  <1>1. /\ roots \subseteq Reachable
        /\ \A x \in Reachable : objects[x].field \in Reachable \cup {null}
    BY ReachableClosed DEF Reachable
  <1>2. roots \subseteq S
    BY <1>1 DEF MarksClosed
  <1>3. \A x \in S \cap DOMAIN objects : objects[x].field \in S \cup {null}
    BY <1>1 DEF MarksClosed
  <1>4. ReachableFrom(roots, objects) \subseteq S
    <2> HIDE DEF S
    <2> QED BY <1>2, <1>3, ReachableLeast
  <1> QED BY <1>4 DEF Reachable

LEMMA SweepLobsStep ==
    ASSUME HeapInv, SweepLobs
    PROVE  HeapInv'
  <1> DEFINE live == DOMAIN lobs \ {n \in DOMAIN lobs : ~lobs[n].marked}
  <1>1. /\ stage = "trace" /\ to_trace = {} /\ stage' = "sweep" /\ to_sweep' = DOMAIN pages
        /\ lobs' = [n \in live |-> [lobs[n] EXCEPT !.marked = FALSE]]
        /\ lists' = [i \in DOMAIN lists |-> <<>>]
        /\ UNCHANGED <<pages, request, roots>>
    BY DEF SweepLobs
  <1>2. PICK s : Finalize(s)
    BY DEF SweepLobs
  <1>3. HeapTypes /\ References(roots, objects) /\ ObjectsIntact /\ MarksClosed /\ ListsMatch
    BY DEF HeapInv
  <1>4. /\ References(roots, objects)' /\ Reachable' = Reachable
        /\ \A r \in DOMAIN objects : objects'[r].cells = objects[r].cells
    BY <1>1, <1>2, <1>3, FinalizeProperties
  <1>5. \A r \in Reachable : r \in DOMAIN objects /\ Marked(r) /\ Stored(r)
    BY <1>1, <1>3, TracedMarked, ReachableStored
  <1>6. DOMAIN lobs' = live /\ live \subseteq DOMAIN lobs
    BY <1>1
  <1>7. \A n \in live : /\ lobs'[n] \in LobRecords
                        /\ lobs'[n].cells = lobs[n].cells /\ ~lobs'[n].marked
    <2> SUFFICES ASSUME NEW n \in live
                 PROVE  /\ lobs'[n] \in LobRecords
                        /\ lobs'[n].cells = lobs[n].cells /\ ~lobs'[n].marked
      OBVIOUS
    <2>1. lobs'[n] = [lobs[n] EXCEPT !.marked = FALSE] /\ lobs[n] \in LobRecords
      BY <1>1, <1>3 DEF HeapTypes
    <2> QED BY <2>1 DEF LobRecords
  <1>8. \A n \in DOMAIN lobs : lobs[n].marked => n \in live
    OBVIOUS
  <1>9. lobs' = [n \in live |-> lobs'[n]]
    BY <1>1
  <1> HIDE DEF live
  <1>10. HeapTypes'
    <2>1. lobs' \in [DOMAIN lobs' -> LobRecords]
      BY <1>6, <1>7, <1>9
    <2>2. DOMAIN lobs' \subseteq Nat /\ IsFiniteSet(DOMAIN lobs')
      BY <1>3, <1>6, FS_Subset DEF HeapTypes
    <2>3. DOMAIN lists' = DOMAIN lists
      BY <1>1
    <2>4. RequestTypes'
      BY <1>1, <1>3 DEF HeapTypes, RequestTypes
    <2> QED BY <2>1, <2>2, <2>3, <2>4, <1>1, <1>3 DEF HeapTypes, Stages
  <1>11. ObjectsIntact'
    <2>1. \A r \in Reachable' : r \in Reachable /\ objects'[r].cells = objects[r].cells
      BY <1>4, <1>5
    <2>2. \A r \in Reachable : IsLob(r) /\ r[2] \in DOMAIN lobs =>
            r[2] \in DOMAIN lobs' /\ lobs'[r[2]].cells = lobs[r[2]].cells
      BY <1>5, <1>6, <1>7, <1>8 DEF Marked
    <2>3. \A r \in Reachable :
            r[1] \in DOMAIN pages /\ r[2] \in pages[r[1]].block =>
                /\ r[1] \in DOMAIN pages' /\ r[2] \in pages'[r[1]].block
                /\ NextIn(Starts(r[1])', r[2]) = NextIn(Starts(r[1]), r[2])
      BY <1>1 DEF Starts
    <2>4. stage # "destroyed" /\ ObjectsIntact
      BY <1>1, <1>3
    <2> QED BY ONLY <2>1, <2>2, <2>3, <2>4, IntactStep
  <1>12. MarksReset' /\ MarksClosed'
    BY <1>1, <1>6, <1>7 DEF MarksReset, MarksClosed
  <1>13. MarksComplete'
    <2>1. ASSUME NEW r \in Reachable, r[1] \in DOMAIN pages
          PROVE  r[2] \in pages[r[1]].mark
      <3>1. r[1] # 0
        BY <2>1, <1>3, PageTypes
      <3> QED BY <3>1, <1>5 DEF Marked, IsLob
    <2> QED BY <2>1, <1>1, <1>4 DEF MarksComplete
  <1>14. ListsMatch'
    <2>1. FreeSpace' = {}
      BY <1>1 DEF FreeSpace
    <2>2. \A i \in DOMAIN lists' : lists'[i] = <<>>
      BY <1>1
    <2>3. \A i : {b \in FreeSpace' : class_index(b.size) = i} = {}
      BY <2>1
    <2>4. \A i \in DOMAIN lists' :
            Enumerates(lists'[i], {b \in FreeSpace' : class_index(b.size) = i})
      BY <2>2, <2>3, EnumeratesNothing
    <2>5. \A p \in DOMAIN pages : 0 \in Starts(p)'
      BY <1>1, <1>3 DEF ListsMatch, Starts
    <2> QED BY <2>4, <2>5, <1>1 DEF ListsMatch, Listed
  <1> QED BY <1>4, <1>10, <1>11, <1>12, <1>13, <1>14 DEF HeapInv

\* The bitmaps of a page that has been swept: marked blocks keep their cells, all
\* others are free, and no free block follows another one.
LEMMA SweptPage ==
    ASSUME HeapTypes, NEW p \in DOMAIN pages,
           pages' = [pages EXCEPT ![p] =
                [block |-> SweptBlock(p), mark |-> free_starts(p),
                 finalizers |-> @.finalizers \cap @.mark]]
    PROVE  /\ pages' \in Seq(PageRecords) /\ DOMAIN pages' = DOMAIN pages
           /\ \A q \in DOMAIN pages : q # p => /\ pages'[q] = pages[q]
                                               /\ Starts(q)' = Starts(q)
                                               /\ FreeBlocksOf(q)' = FreeBlocksOf(q)
           /\ pages'[p].block = SweptBlock(p) /\ pages'[p].mark = free_starts(p)
           /\ pages'[p].finalizers = pages[p].finalizers \cap pages[p].mark
           /\ SweptBlock(p) \cap free_starts(p) = {}
           /\ \A c \in SweptBlock(p) : NextIn(Starts(p)', c) = NextIn(Starts(p), c)
           /\ FreeBlocksOf(p)' = {FreeBlock(p, c) : c \in free_starts(p)}
           /\ \A c \in free_starts(p) : NextIn(Starts(p)', c) \notin free_starts(p)
           /\ 0 \in Starts(p) => 0 \in Starts(p)'
  <1>a. PICK B : B = SweptBlock(p)
    OBVIOUS
  <1>b. PICK M : M = SweptMark(p)
    OBVIOUS
  <1>c. PICK F : F = {c \in M : \A d \in M : d < c => NextIn(B, d) < c}
    OBVIOUS
  <1>d. PICK G : G = pages[p].finalizers \cap pages[p].mark
    OBVIOUS
  <1>1. /\ DOMAIN pages = 1 .. Len(pages) /\ Len(pages) \in Nat
        /\ \A q \in DOMAIN pages :
            /\ pages[q] \in PageRecords /\ pages[q].block \in SUBSET CellIndices
            /\ pages[q].mark \in SUBSET CellIndices /\ pages[q].finalizers \in SUBSET CellIndices
    BY PageTypes
  <1>2. /\ B \in SUBSET CellIndices /\ M \in SUBSET CellIndices /\ B \cap M = {}
        /\ B \cup M = Starts(p) /\ G \in SUBSET CellIndices
    BY <1>1, <1>a, <1>b, <1>d DEF SweptBlock, SweptMark, Starts
  <1>3. free_starts(p) = F
    BY <1>a, <1>b, <1>c DEF free_starts
  <1>4. F \subseteq M /\ F \in SUBSET CellIndices /\ B \cap F = {}
    BY <1>2, <1>c
  <1>5. /\ \A c \in B : NextIn(B \cup F, c) = NextIn(B \cup M, c)
        /\ \A c \in F : NextIn(B \cup F, c) = NextIn(B, c)
    <2> DEFINE E == {c \in M : \A d \in M : d < c => NextIn(B, d) < c}
    <2>1. /\ \A c \in B : NextIn(B \cup E, c) = NextIn(B \cup M, c)
          /\ \A c \in E : NextIn(B \cup E, c) = NextIn(B, c)
      BY <1>2, NextInMerge
    <2>2. F = E
      BY <1>c
    <2> HIDE DEF E
    <2> QED BY <2>1, <2>2
  <1>6. pages' = [pages EXCEPT ![p] = [block |-> B, mark |-> F, finalizers |-> G]]
    BY <1>3, <1>a, <1>d
  <1>7. /\ DOMAIN pages' = DOMAIN pages
        /\ pages'[p] = [block |-> B, mark |-> F, finalizers |-> G]
        /\ \A q \in DOMAIN pages : q # p => pages'[q] = pages[q]
    BY <1>6
  <1>8. pages' \in Seq(PageRecords)
    <2>1. [block |-> B, mark |-> F, finalizers |-> G] \in PageRecords
      BY <1>2, <1>4 DEF PageRecords
    <2>2. \A q \in DOMAIN pages : pages'[q] \in PageRecords
      BY <2>1, <1>1, <1>7
    <2>3. pages' = [q \in 1 .. Len(pages) |-> pages'[q]]
      BY <1>1, <1>6
    <2>4. pages' \in [1 .. Len(pages) -> PageRecords]
      BY <2>2, <2>3, <1>1
    <2> QED BY <2>4, <1>1
  <1>9. ASSUME NEW q \in DOMAIN pages, q # p
        PROVE  Starts(q)' = Starts(q) /\ FreeBlocksOf(q)' = FreeBlocksOf(q)
    <2>1. pages'[q] = pages[q]
      BY <1>7, <1>9
    <2>2. Starts(q)' = Starts(q)
      BY <2>1 DEF Starts
    <2> QED BY <2>1, <2>2 DEF FreeBlocksOf
  <1>10. pages'[p].block = B /\ pages'[p].mark = F /\ pages'[p].finalizers = G
    BY <1>7
  <1>11. Starts(p)' = B \cup F
    BY <1>10 DEF Starts
  <1>12. FreeBlocksOf(p)' = {FreeBlock(p, c) : c \in F}
    <2>1. pages'[p].mark \ pages'[p].block = F
      BY <1>4, <1>10
    <2>2. FreeBlocksOf(p)' = {[page |-> p, cell |-> c, size |-> NextIn(B \cup F, c) - c] : c \in F}
      BY <2>1, <1>11 DEF FreeBlocksOf
    <2>3. \A c \in F : FreeBlock(p, c) = [page |-> p, cell |-> c, size |-> NextIn(B \cup F, c) - c]
      BY <1>5, <1>a DEF FreeBlock
    <2> QED BY <2>2, <2>3
  <1>13. 0 \in Starts(p) => 0 \in Starts(p)'
    <2>1. \A d \in M : ~(d < 0)
      BY <1>2 DEF CellIndices
    <2>2. 0 \in M => 0 \in F
      BY <2>1, <1>c
    <2> QED BY <2>2, <1>2, <1>11
  <1>14. \A c \in SweptBlock(p) : NextIn(Starts(p)', c) = NextIn(Starts(p), c)
    BY <1>2, <1>5, <1>11, <1>a
  <1>15. \A c \in F : NextIn(Starts(p)', c) \notin F
    <2>1. Cells \notin CellIndices
      BY Sizes DEF CellIndices
    <2>2. \A c \in CellIndices : NextIn(B, c) \in B \cup {Cells}
      BY <1>2, NextInProperties
    <2> QED BY <2>1, <2>2, <1>4, <1>5, <1>11
  <1> QED BY <1>3, <1>4, <1>7, <1>8, <1>9, <1>10, <1>12, <1>13, <1>14, <1>15, <1>a, <1>d

\* A page is swept: its free blocks are new on the lists.
LEMMA SweptListed ==
    ASSUME HeapTypes, NEW p \in DOMAIN pages, NEW S, Listed(lists, S),
           \A b \in S : b.page # p,
           NEW ls, ls = [i \in DOMAIN lists |-> FreeBlockList(p, i) \o lists[i]]
    PROVE  Listed(ls, S \cup {FreeBlock(p, c) : c \in free_starts(p)})
  <1>a. PICK T : T = {FreeBlock(p, c) : c \in free_starts(p)}
    OBVIOUS
  <1>1. \A b \in T : b.page = p
    BY <1>a DEF FreeBlock
  <1>2. ASSUME NEW i \in DOMAIN ls
        PROVE  Enumerates(ls[i], {b \in S \cup T : class_index(b.size) = i})
    <2>a. PICK X : X = {b \in T : class_index(b.size) = i}
      OBVIOUS
    <2>b. PICK Y : Y = {b \in S : class_index(b.size) = i}
      OBVIOUS
    <2>1. ls[i] = FreeBlockList(p, i) \o lists[i] /\ i \in DOMAIN lists
      BY <1>2
    <2>2. Enumerates(FreeBlockList(p, i), X)
      BY <1>a, <2>a, SweptBlocks
    <2>3. Enumerates(lists[i], Y)
      BY <2>1, <2>b DEF Listed
    <2>4. X \cap Y = {}
      BY <1>1, <2>a, <2>b
    <2>5. Enumerates(ls[i], X \cup Y)
      BY <2>1, <2>2, <2>3, <2>4, EnumeratesConcat
    <2>6. {b \in S \cup T : class_index(b.size) = i} = X \cup Y
      BY <2>a, <2>b
    <2> QED BY <2>5, <2>6
  <1> QED BY <1>2, <1>a DEF Listed

LEMMA SweepPageStep ==
    ASSUME HeapInv, NEW p \in to_sweep, SweepPage(p)
    PROVE  HeapInv'
  <1>1. /\ stage = "sweep" /\ stage' = "sweep" /\ to_sweep' = to_sweep \ {p}
        /\ pages' = [pages EXCEPT ![p] =
                [block |-> SweptBlock(p), mark |-> free_starts(p),
                 finalizers |-> @.finalizers \cap @.mark]]
        /\ lists' = [i \in DOMAIN lists |-> FreeBlockList(p, i) \o lists[i]]
        /\ UNCHANGED <<lobs, request, roots>>
    BY DEF SweepPage
  <1>2. PICK s : Finalize(s)
    BY DEF SweepPage
  <1>3. /\ HeapTypes /\ References(roots, objects) /\ ObjectsIntact
        /\ MarksReset /\ MarksComplete /\ ListsMatch
    BY DEF HeapInv
  <1>4. p \in DOMAIN pages /\ to_sweep \subseteq DOMAIN pages
    BY <1>3 DEF HeapTypes
  <1>5. /\ References(roots, objects)' /\ Reachable' = Reachable
        /\ \A r \in DOMAIN objects : objects'[r].cells = objects[r].cells
    BY <1>1, <1>2, <1>3, FinalizeProperties
  <1>6. /\ pages' \in Seq(PageRecords) /\ DOMAIN pages' = DOMAIN pages
        /\ \A q \in DOMAIN pages : q # p => /\ pages'[q] = pages[q]
                                            /\ Starts(q)' = Starts(q)
                                            /\ FreeBlocksOf(q)' = FreeBlocksOf(q)
        /\ pages'[p].block = SweptBlock(p) /\ pages'[p].mark = free_starts(p)
        /\ SweptBlock(p) \cap free_starts(p) = {}
        /\ \A c \in SweptBlock(p) : NextIn(Starts(p)', c) = NextIn(Starts(p), c)
        /\ FreeBlocksOf(p)' = {FreeBlock(p, c) : c \in free_starts(p)}
        /\ 0 \in Starts(p) => 0 \in Starts(p)'
    BY <1>1, <1>3, <1>4, SweptPage
  <1>7. HeapTypes'
    <2>1. RequestTypes'
      BY <1>1, <1>3 DEF HeapTypes, RequestTypes
    <2>2. DOMAIN lists' = DOMAIN lists
      BY <1>1
    <2> QED BY <2>1, <2>2, <1>1, <1>3, <1>4, <1>6 DEF HeapTypes, Stages
  <1>8. ObjectsIntact'
    <2>1. \A r \in Reachable' : r \in Reachable /\ objects'[r].cells = objects[r].cells
      BY <1>3, <1>5, ReachableClosed DEF Reachable
    <2>2. \A r \in Reachable : IsLob(r) /\ r[2] \in DOMAIN lobs =>
            r[2] \in DOMAIN lobs' /\ lobs'[r[2]].cells = lobs[r[2]].cells
      BY <1>1
    <2>3. ASSUME NEW r \in Reachable, r[1] \in DOMAIN pages, r[2] \in pages[r[1]].block
          PROVE  /\ r[1] \in DOMAIN pages' /\ r[2] \in pages'[r[1]].block
                 /\ NextIn(Starts(r[1])', r[2]) = NextIn(Starts(r[1]), r[2])
      <3>1. CASE r[1] = p
        <4>1. r[2] \in SweptBlock(p)
          BY <2>3, <3>1, <1>1, <1>3 DEF MarksComplete, SweptBlock
        <4> QED BY <4>1, <3>1, <1>4, <1>6
      <3>2. CASE r[1] # p
        BY <2>3, <3>2, <1>6
      <3> QED BY <3>1, <3>2
    <2>4. stage # "destroyed" /\ ObjectsIntact
      BY <1>1, <1>3
    <2>5. \A r \in Reachable :
            r[1] \in DOMAIN pages /\ r[2] \in pages[r[1]].block =>
                /\ r[1] \in DOMAIN pages' /\ r[2] \in pages'[r[1]].block
                /\ NextIn(Starts(r[1])', r[2]) = NextIn(Starts(r[1]), r[2])
      BY <2>3
    <2> QED BY ONLY <2>1, <2>2, <2>4, <2>5, IntactStep
  <1>9. MarksReset'
    <2>1. ASSUME NEW q \in DOMAIN pages', q \notin to_sweep'
          PROVE  pages'[q].block \cap pages'[q].mark = {}
      <3>1. CASE q = p
        BY <3>1, <1>6
      <3>2. CASE q # p
        BY <2>1, <3>2, <1>1, <1>3, <1>6 DEF MarksReset
      <3> QED BY <3>1, <3>2
    <2> QED BY <2>1, <1>1, <1>3 DEF MarksReset
  <1>10. MarksClosed' /\ MarksComplete'
    <2>1. ASSUME NEW r \in Reachable, r[1] \in to_sweep'
          PROVE  r[2] \in pages'[r[1]].mark
      <3>1. r[1] \in to_sweep /\ r[1] # p
        BY <2>1, <1>1
      <3>2. r[2] \in pages[r[1]].mark
        BY <3>1, <1>1, <1>3 DEF MarksComplete
      <3> QED BY <3>1, <3>2, <1>4, <1>6
    <2> QED BY <2>1, <1>1, <1>5 DEF MarksClosed, MarksComplete
  <1>11. ListsMatch'
    <2>1. \A q \in DOMAIN pages' : 0 \in Starts(q)'
      BY <1>1, <1>3, <1>6 DEF ListsMatch
    <2>a. PICK S : S = FreeSpace
      OBVIOUS
    <2>b. PICK T : T = {FreeBlock(p, c) : c \in free_starts(p)}
      OBVIOUS
    <2>c. PICK ls : ls = [i \in DOMAIN lists |-> FreeBlockList(p, i) \o lists[i]]
      OBVIOUS
    <2>2. \A b \in S : b.page # p
      BY <1>3, <2>a, FreeBlockTypes DEF FreeSpace
    <2>3. Listed(lists, S)
      BY <1>1, <1>3, <2>a DEF ListsMatch
    <2>4. Listed(ls, S \cup T)
      BY <2>2, <2>3, <2>b, <2>c, <1>3, <1>4, SweptListed
    <2>5. FreeSpace' = S \cup T
      <3>1. FreeSpace' = UNION {FreeBlocksOf(q)' : q \in DOMAIN pages' \ to_sweep'}
        BY DEF FreeSpace
      <3>2. DOMAIN pages' \ to_sweep' = (DOMAIN pages \ to_sweep) \cup {p}
        BY <1>1, <1>4, <1>6
      <3>3. \A q \in DOMAIN pages \ to_sweep : FreeBlocksOf(q)' = FreeBlocksOf(q)
        BY <1>6
      <3>4. \A x : x \in FreeSpace' <=>
                x \in T \/ \E q \in DOMAIN pages \ to_sweep : x \in FreeBlocksOf(q)
        BY <3>1, <3>2, <3>3, <1>6, <2>b
      <3> QED BY <3>4, <2>a DEF FreeSpace
    <2>6. lists' = ls
      BY <1>1, <2>c
    <2> QED BY <2>1, <2>4, <2>5, <2>6 DEF ListsMatch, Listed
  <1> QED BY <1>5, <1>7, <1>8, <1>9, <1>10, <1>11 DEF HeapInv

LEMMA FinishCollectorStep ==
    ASSUME HeapInv, FinishCollector
    PROVE  HeapInv'
  <1>1. /\ stage = "sweep" /\ to_sweep = {} /\ stage' = "find"
        /\ objects' = [r \in Reachable |-> objects[r]]
        /\ UNCHANGED <<pages, lobs, lists, request, to_sweep, roots>>
        /\ References(roots, objects)
    BY DEF FinishCollector, collector, HeapInv
  <1>2. /\ Reachable \subseteq DOMAIN objects /\ roots \subseteq Reachable
        /\ \A r \in Reachable : objects[r].field \in Reachable \cup {null}
    BY <1>1, ReachableClosed DEF Reachable
  <1>3. DOMAIN objects' = Reachable /\ \A r \in Reachable : objects'[r] = objects[r]
    BY <1>1
  <1>4. References(roots, objects)'
    <2>1. \A r \in Reachable : objects[r] \in [cells : Nat, finalizer : BOOLEAN, finalized : Nat,
                                               field : Reachable \cup {null}]
      <3> SUFFICES ASSUME NEW r \in Reachable
                   PROVE  objects[r] \in [cells : Nat, finalizer : BOOLEAN, finalized : Nat,
                                          field : Reachable \cup {null}]
        OBVIOUS
      <3>1. objects[r] \in [cells : Nat, finalizer : BOOLEAN, finalized : Nat,
                            field : DOMAIN objects \cup {null}]
        BY <1>1, <1>2, ObjectTypes
      <3> QED BY <3>1, <1>2
    <2>2. objects' \in [Reachable -> [cells : Nat, finalizer : BOOLEAN, finalized : Nat,
                                      field : Reachable \cup {null}]]
      BY <2>1, <1>1
    <2>3. Reachable \subseteq Nat \X Nat
      BY <1>1, <1>2 DEF References
    <2> QED BY <2>2, <2>3, <1>1, <1>2, <1>3 DEF References
  <1>5. ReachableFrom(roots', objects') \subseteq Reachable
    <2>1. References(roots', objects') /\ roots' \subseteq Reachable
      BY <1>1, <1>2, <1>4 DEF References
    <2>2. \A r \in Reachable \cap DOMAIN objects' : objects'[r].field \in Reachable \cup {null}
      BY <1>2, <1>3
    <2> QED BY <2>1, <2>2, <1>1, NothingNew
  <1>6. \A r \in Reachable' : r \in Reachable /\ objects'[r].cells = objects[r].cells
    BY <1>3, <1>5 DEF Reachable
  <1>7. RequestTypes'
    BY <1>1 DEF HeapInv, HeapTypes, RequestTypes
  <1> QED BY <1>1, <1>4, <1>6, <1>7, MutatorStep

-----------------------------------------------------------------------------
(* The end of the heap, and the theorems. *)

LEMMA DestroyStep ==
    ASSUME HeapInv, Destroy
    PROVE  HeapInv'
  <1>1. /\ stage = "run" /\ stage' = "destroyed" /\ pages' = <<>> /\ lobs' = <<>>
        /\ UNCHANGED <<lists, request, to_sweep, roots>>
    BY DEF Destroy, collector
  <1>2. PICK s : Finalize(s)
    BY DEF Destroy
  <1>3. HeapTypes /\ References(roots, objects) /\ to_sweep = {}
    BY <1>1 DEF HeapInv, HeapTypes
  <1>4. References(roots, objects)'
    BY <1>1, <1>2, <1>3, FinalizeProperties
  <1>5. pages' \in Seq(PageRecords) /\ DOMAIN pages' = {} /\ DOMAIN lobs' = {}
    BY <1>1, EmptySeq
  <1>6. HeapTypes'
    <2>1. RequestTypes'
      BY <1>1, <1>3 DEF HeapTypes, RequestTypes
    <2>2. lobs' \in [DOMAIN lobs' -> LobRecords]
      BY <1>1
    <2>3. IsFiniteSet({})
      BY FS_EmptySet
    <2> QED BY <2>1, <2>2, <2>3, <1>1, <1>3, <1>5 DEF HeapTypes, Stages
  <1>7. ObjectsIntact' /\ ListsMatch' /\ MarksClosed' /\ MarksComplete'
    BY <1>1 DEF ObjectsIntact, ListsMatch, MarksClosed, MarksComplete
  <1>8. MarksReset'
    BY <1>5 DEF MarksReset
  <1> QED BY <1>4, <1>6, <1>7, <1>8 DEF HeapInv

LEMMA StutterStep ==
    ASSUME HeapInv, UNCHANGED vars
    PROVE  HeapInv'
  <1>1. UNCHANGED <<pages, lobs, lists, stage, request, to_trace, to_sweep, roots, objects>>
    BY DEF vars
  <1>2. /\ Reachable' = Reachable /\ \A p : Starts(p)' = Starts(p) /\ FreeBlocksOf(p)' = FreeBlocksOf(p)
        /\ \A r : Marked(r)' = Marked(r)
    BY <1>1 DEF Reachable, Starts, FreeBlocksOf, Marked
  <1>3. FreeSpace' = FreeSpace
    BY <1>1, <1>2 DEF FreeSpace
  <1> USE DEF HeapInv
  <1>4. HeapTypes' /\ References(roots, objects)'
    <2>1. RequestTypes'
      BY <1>1 DEF HeapTypes, RequestTypes
    <2> QED BY <2>1, <1>1 DEF HeapTypes, Stages
  <1>5. ObjectsIntact'
    BY <1>1, <1>2 DEF ObjectsIntact
  <1>6. MarksReset' /\ MarksComplete'
    BY <1>1, <1>2 DEF MarksReset, MarksComplete
  <1>7. MarksClosed'
    BY <1>1, <1>2 DEF MarksClosed, Marked
  <1>8. ListsMatch'
    BY <1>1, <1>2, <1>3 DEF ListsMatch, Listed
  <1> QED BY <1>4, <1>5, <1>6, <1>7, <1>8

LEMMA NextHeapInv ==
    ASSUME HeapInv, [Next]_vars
    PROVE  HeapInv'
  <1>1. CASE \E r \in Requests : Allocate(r[1], r[2])
    BY <1>1, AllocateStep
  <1>2. CASE FinishAllocation
    BY <1>2, AllocateLobStep, AllocateExactStep, AddPageStep, WaitStep DEF FinishAllocation
  <1>3. CASE Collect
    BY <1>3, TraceRootsStep, SweepLobsStep, FinishCollectorStep, TraceValueStep, SweepPageStep
       DEF Collect
  <1>4. CASE \E ref \in DOMAIN objects, value \in DOMAIN objects \cup {null} : Store(ref, value)
    BY <1>4, StoreStep
  <1>5. CASE \E ref \in DOMAIN objects : Keep(ref) \/ Drop(ref)
    BY <1>5, KeepStep, DropStep
  <1>6. CASE Destroy
    BY <1>6, DestroyStep
  <1>7. CASE UNCHANGED vars
    BY <1>7, StutterStep
  <1> QED BY <1>1, <1>2, <1>3, <1>4, <1>5, <1>6, <1>7 DEF Next

LEMMA HeapInvariant == Spec => []HeapInv
  <1>1. Init => HeapInv
    BY InitHeapInv
  <1>2. HeapInv /\ [Next]_vars => HeapInv'
    BY NextHeapInv
  <1> QED BY <1>1, <1>2, PTL DEF Spec

\* No allocation, collection or sweep takes away the storage of an object that the
\* mutator can reach, or changes its size (heap.cpp, chunks.cpp, collector.cpp).
THEOREM ObjectsIntactCorrect == Spec => []ObjectsIntact
  <1>1. HeapInv => ObjectsIntact
    BY DEF HeapInv
  <1> QED BY <1>1, HeapInvariant, PTL

\* Outside a collection, the free lists contain exactly the free blocks of the bitmaps,
\* each once and in the list of its size class, and no cell is lost (chunks.cpp).
THEOREM FreeListsCorrect == Spec => []FreeListsMatchPages
  <1>1. ASSUME HeapInv
        PROVE  FreeListsMatchPages
    <2> SUFFICES ASSUME stage \in {"run", "find"}
                 PROVE  /\ \A p \in DOMAIN pages : 0 \in Starts(p)
                        /\ \A i \in DOMAIN lists :
                            /\ IsInjective(lists[i])
                            /\ Range(lists[i]) = {b \in UNION {FreeBlocksOf(p) : p \in DOMAIN pages} :
                                                    class_index(b.size) = i}
      BY DEF FreeListsMatchPages
    <2>1. to_sweep = {} /\ ListsMatch
      BY <1>1 DEF HeapInv, HeapTypes
    <2>2. FreeSpace = UNION {FreeBlocksOf(p) : p \in DOMAIN pages}
      BY <2>1 DEF FreeSpace
    <2>3. \A i \in DOMAIN lists : Enumerates(lists[i], {b \in FreeSpace : class_index(b.size) = i})
      BY <2>1 DEF ListsMatch, Listed
    <2>4. \A i \in DOMAIN lists : /\ IsInjective(lists[i])
                                  /\ Range(lists[i]) = {b \in FreeSpace : class_index(b.size) = i}
      BY <2>3, EnumeratesRange
    <2> QED BY <2>1, <2>2, <2>4 DEF ListsMatch
  <1> QED BY <1>1, HeapInvariant, PTL

-----------------------------------------------------------------------------
(* What a collection frees and finalizes, for any graph of objects. *)

-----------------------------------------------------------------------------
(* The invariant. *)

\* Somebody will run the finalizer of the object r.
HasFinalizer(r) ==
    IF IsLob(r) THEN r[2] \in DOMAIN lobs /\ lobs[r[2]].finalizer
                ELSE r[1] \in DOMAIN pages /\ r[2] \in pages[r[1]].finalizers

\* The large objects, or the page, where object r is have been swept by the current collection.
Swept(r) == stage = "sweep" /\ r[1] \notin to_sweep

\* Finalizers are those of the objects that have one and have not been collected.
FinalizersKept ==
    /\ \A p \in DOMAIN pages : pages[p].finalizers \subseteq pages[p].block
    /\ stage # "destroyed" =>
        \A r \in Nat \X Nat :
            HasFinalizer(r) <=> /\ r \in DOMAIN objects /\ objects[r].finalizer
                                /\ Swept(r) => r \in Reachable

\* A finalizer has run if it has been reached by the sweep, or the heap is gone.
FinalizersRun ==
    \A r \in DOMAIN objects :
        objects[r].finalized =
            IF objects[r].finalizer /\ (stage = "destroyed" \/ (Swept(r) /\ r \notin Reachable))
            THEN 1 ELSE 0

\* Only what can be reached is marked, or has survived the sweep.
MarksLive ==
    /\ stage = "trace" => \A r : Stored(r) /\ Marked(r) => r \in Reachable
    /\ stage = "sweep" => \A r : Stored(r) /\ (Swept(r) \/ Marked(r)) => r \in Reachable

\* No free block follows another one on a page that has been swept.
BlocksMerged ==
    stage = "sweep" =>
        \A p \in DOMAIN pages \ to_sweep : \A c \in pages[p].mark :
            NextIn(Starts(p), c) \notin pages[p].mark

MarkedObjects == {r \in Reachable : Marked(r)}

\* Every marked object has been counted or is still to be traced.
ObjectsCounted ==
    /\ IsFiniteSet(DOMAIN objects)
    /\ count \in Nat
    /\ stage # "trace" => count = 0
    /\ stage = "trace" => /\ to_trace \subseteq MarkedObjects
                          /\ count + Cardinality(to_trace) = Cardinality(MarkedObjects)
    /\ "objects" \in DOMAIN stats
    /\ stage = "sweep" => stats.objects = Cardinality(Reachable)

CollectInv == FinalizersKept /\ FinalizersRun /\ MarksLive /\ BlocksMerged /\ ObjectsCounted

-----------------------------------------------------------------------------
(* Between collections. *)

LEMMA InitCollectInv == Init => CollectInv
  <1> SUFFICES ASSUME Init
               PROVE  CollectInv
    OBVIOUS
  <1>1. /\ stage = "run" /\ count = 0 /\ DOMAIN pages = {} /\ DOMAIN lobs = {} /\ DOMAIN objects = {}
        /\ "objects" \in DOMAIN stats
    BY DEF Init
  <1>2. FinalizersKept
    BY <1>1 DEF FinalizersKept, HasFinalizer
  <1>3. FinalizersRun /\ MarksLive /\ BlocksMerged
    BY <1>1 DEF FinalizersRun, MarksLive, BlocksMerged
  <1>4. ObjectsCounted
    BY <1>1, FS_EmptySet DEF ObjectsCounted
  <1> QED BY <1>2, <1>3, <1>4 DEF CollectInv

\* Finalizers stay where they are, and no object that has one is forgotten unless it
\* has been collected.
LEMMA QuietStep ==
    ASSUME HeapInv, CollectInv,
           stage \in {"run", "find"} \/ (stage = "sweep" /\ to_sweep = {}),
           stage' \in {"run", "find", "roots"}, count' = count, "objects" \in DOMAIN stats',
           \A p \in DOMAIN pages' : pages'[p].finalizers \subseteq pages'[p].block,
           \A r \in Nat \X Nat : HasFinalizer(r)' <=> HasFinalizer(r),
           DOMAIN objects' \subseteq DOMAIN objects,
           \A r \in DOMAIN objects' : /\ objects'[r].finalizer = objects[r].finalizer
                                      /\ objects'[r].finalized = objects[r].finalized
                                      /\ stage = "sweep" => r \in Reachable,
           \A r \in DOMAIN objects :
                objects[r].finalizer /\ (stage = "sweep" => r \in Reachable) => r \in DOMAIN objects'
    PROVE  CollectInv'
  <1>1. stage' # "sweep" /\ stage' # "trace" /\ stage' # "destroyed"
        /\ stage # "trace" /\ stage # "destroyed"
    OBVIOUS
  <1>2. FinalizersKept'
    <2>1. \A r : (Swept(r) <=> stage = "sweep") /\ ~Swept(r)'
      BY <1>1 DEF Swept
    <2>2. \A r \in Nat \X Nat : HasFinalizer(r) <=> /\ r \in DOMAIN objects /\ objects[r].finalizer
                                                    /\ stage = "sweep" => r \in Reachable
      BY <1>1, <2>1 DEF CollectInv, FinalizersKept
    <2>3. \A r \in Nat \X Nat :
            HasFinalizer(r)' <=> r \in DOMAIN objects' /\ objects'[r].finalizer
      BY <2>2
    <2> QED BY <2>1, <2>3 DEF FinalizersKept
  <1>3. FinalizersRun'
    <2>1. \A r \in DOMAIN objects' : objects[r].finalized = 0
      BY <1>1 DEF CollectInv, FinalizersRun, Swept
    <2> QED BY <2>1, <1>1 DEF FinalizersRun, Swept
  <1>4. MarksLive' /\ BlocksMerged'
    BY <1>1 DEF MarksLive, BlocksMerged
  <1>5. ObjectsCounted'
    <2>1. IsFiniteSet(DOMAIN objects')
      BY FS_Subset DEF CollectInv, ObjectsCounted
    <2> QED BY <2>1, <1>1 DEF CollectInv, ObjectsCounted
  <1> QED BY <1>2, <1>3, <1>4, <1>5 DEF CollectInv

LEMMA WaitCollect ==
    ASSUME HeapInv, CollectInv,
           (\E r \in Requests : Allocate(r[1], r[2])) \/ CollectOnFailure \/ LimitReached \/ AllocatorFailure
    PROVE  CollectInv'
  <1>1. /\ stage \in {"run", "find"} /\ stage' \in {"run", "find", "roots"}
        /\ UNCHANGED <<pages, lobs, objects, count>>
    BY DEF Allocate, CollectOnFailure, LimitReached, AllocatorFailure, NothingFits, NeedsMemory, NeedsPage,
           heap, collector, mutator
  <1>2. "objects" \in DOMAIN stats'
    <2>1. "objects" \in DOMAIN stats
      BY DEF CollectInv, ObjectsCounted
    <2>2. stats' = stats \/ stats' = [stats EXCEPT !.total = @ + RawRequest]
      BY DEF Allocate, CollectOnFailure, LimitReached, AllocatorFailure, heap
    <2> QED BY <2>1, <2>2
  <1>3. \A r : HasFinalizer(r)' <=> HasFinalizer(r)
    BY <1>1 DEF HasFinalizer
  <1>4. \A p \in DOMAIN pages' : pages'[p].finalizers \subseteq pages'[p].block
    BY <1>1 DEF CollectInv, FinalizersKept
  <1> QED BY <1>1, <1>2, <1>3, <1>4, QuietStep

LEMMA AddPageCollect ==
    ASSUME HeapInv, CollectInv, AddPage
    PROVE  CollectInv'
  <1>a. PICK new : new = set_free([block |-> {}, mark |-> {}, finalizers |-> {}], 0)
    OBVIOUS
  <1>1. /\ stage = "find" /\ stage' = "find" /\ pages' = Append(pages, new)
        /\ UNCHANGED <<lobs, objects, count>>
    BY <1>a DEF AddPage, NeedsPage, NothingFits, collector, mutator
  <1>2. "objects" \in DOMAIN stats'
    BY DEF AddPage, CollectInv, ObjectsCounted
  <1>3. new.finalizers = {}
    <2> DEFINE empty == [block |-> {}, mark |-> {}, finalizers |-> {}]
    <2>1. set_free(empty, 0) = [empty EXCEPT !.block = @ \ {0}, !.mark = @ \cup {0}]
      BY DEF set_free
    <2> QED BY <2>1, <1>a
  <1>4. Len(pages) \in Nat /\ DOMAIN pages = 1 .. Len(pages) /\ pages \in Seq(PageRecords)
    BY PageTypes DEF HeapInv, HeapTypes
  <1>5. /\ DOMAIN pages' = 1 .. (Len(pages) + 1)
        /\ \A p \in 1 .. (Len(pages) + 1) :
            pages'[p] = IF p = Len(pages) + 1 THEN new ELSE pages[p]
    BY <1>1, <1>4
  <1>6. \A p \in DOMAIN pages' : /\ p \in DOMAIN pages => pages'[p] = pages[p]
                                 /\ p \notin DOMAIN pages => pages'[p] = new
    BY <1>4, <1>5
  <1>7. DOMAIN pages \subseteq DOMAIN pages'
    BY <1>4, <1>5
  <1>8. \A r : HasFinalizer(r)' <=> HasFinalizer(r)
    BY <1>1, <1>3, <1>6, <1>7 DEF HasFinalizer
  <1>9. \A p \in DOMAIN pages' : pages'[p].finalizers \subseteq pages'[p].block
    BY <1>3, <1>6 DEF CollectInv, FinalizersKept
  <1> QED BY <1>1, <1>2, <1>8, <1>9, QuietStep

LEMMA MutatorCollect ==
    ASSUME HeapInv, CollectInv, NEW ref, (\E value : Store(ref, value)) \/ Keep(ref) \/ Drop(ref)
    PROVE  CollectInv'
  <1>1. /\ stage = "run" /\ stage' = "run" /\ UNCHANGED <<pages, lobs, stats, count>>
        /\ References(roots, objects)
    BY DEF Store, Keep, Drop, heap, collector, HeapInv
  <1>2. \A r : HasFinalizer(r)' <=> HasFinalizer(r)
    BY <1>1 DEF HasFinalizer
  <1>3. /\ \A p \in DOMAIN pages' : pages'[p].finalizers \subseteq pages'[p].block
        /\ "objects" \in DOMAIN stats'
    BY <1>1 DEF CollectInv, FinalizersKept, ObjectsCounted
  <1> DEFINE Kept ==
        /\ DOMAIN objects' \subseteq DOMAIN objects
        /\ \A r \in DOMAIN objects' : /\ objects'[r].finalizer = objects[r].finalizer
                                      /\ objects'[r].finalized = objects[r].finalized
        /\ \A r \in DOMAIN objects : objects[r].finalizer => r \in DOMAIN objects'
  <1>4. Kept
    <2>1. ASSUME NEW value, Store(ref, value)
          PROVE  Kept
      <3>a. PICK os : StoresIn(os, ref, value)
        BY DEF StoresIn
      <3>1. objects' = History(roots, os)
        BY <2>1, <3>a DEF Store, StoresIn
      <3>2. /\ References(roots, os) /\ DOMAIN os = DOMAIN objects
            /\ \A r \in DOMAIN objects : /\ os[r].finalizer = objects[r].finalizer
                                         /\ os[r].finalized = objects[r].finalized
        <4>1. ref \in Reachable /\ value \in Reachable \cup {null}
          BY <2>1 DEF Store
        <4> QED BY <4>1, <3>a, <1>1, StoredObjects
      <3> QED BY <3>1, <3>2, HistoryProperties
    <2>2. CASE Keep(ref)
      BY <2>2 DEF Keep
    <2>3. CASE Drop(ref)
      <3>1. objects' = History(roots', objects) /\ References(roots', objects)
        BY <2>3, <1>1 DEF Drop, References
      <3> QED BY <3>1, HistoryProperties
    <2> QED BY <2>1, <2>2, <2>3
  <1> QED BY <1>1, <1>2, <1>3, <1>4, QuietStep

LEMMA FinishCollectorCollect ==
    ASSUME HeapInv, CollectInv, FinishCollector
    PROVE  CollectInv'
  <1>1. /\ stage = "sweep" /\ to_sweep = {} /\ stage' = "find"
        /\ objects' = [r \in Reachable |-> objects[r]]
        /\ UNCHANGED <<pages, lobs, stats, count>>
    BY DEF FinishCollector, collector
  <1>2. Reachable \subseteq DOMAIN objects
    BY ReachableClosed DEF Reachable, HeapInv
  <1>3. DOMAIN objects' = Reachable /\ \A r \in Reachable : objects'[r] = objects[r]
    BY <1>1
  <1>4. \A r : HasFinalizer(r)' <=> HasFinalizer(r)
    BY <1>1 DEF HasFinalizer
  <1>5. /\ \A p \in DOMAIN pages' : pages'[p].finalizers \subseteq pages'[p].block
        /\ "objects" \in DOMAIN stats'
    BY <1>1 DEF CollectInv, FinalizersKept, ObjectsCounted
  <1> QED BY <1>1, <1>2, <1>3, <1>4, <1>5, QuietStep

-----------------------------------------------------------------------------
(* New objects. *)

\* A new object has its finalizer, and nobody else's.
LEMMA CreatedCollect ==
    ASSUME HeapInv, CollectInv, stage = "find", NEW ref \in Nat \X Nat, Created(ref),
           "objects" \in DOMAIN stats',
           \A p \in DOMAIN pages' : pages'[p].finalizers \subseteq pages'[p].block,
           HasFinalizer(ref)' <=> request.finalizer,
           \A r \in Nat \X Nat : r # ref => (HasFinalizer(r)' <=> HasFinalizer(r))
    PROVE  CollectInv'
  <1>1. /\ stage' = "run" /\ count' = count
        /\ DOMAIN objects' = DOMAIN objects \cup {ref}
        /\ \A r \in DOMAIN objects : r # ref => objects'[r] = objects[r]
        /\ objects'[ref] = [cells |-> Request, finalizer |-> request.finalizer,
                            finalized |-> 0, field |-> null]
    <2>1. References(roots, objects) /\ RequestTypes /\ Request \in Nat
      BY RequestPositive DEF HeapInv, HeapTypes
    <2>2. count' = count
      BY DEF Created, collector
    <2> QED BY <2>1, <2>2, CreatedProperties
  <1>2. objects'[ref].finalizer = request.finalizer /\ objects'[ref].finalized = 0
    BY <1>1
  <1>3. \A r : ~Swept(r) /\ ~Swept(r)'
    BY <1>1 DEF Swept
  <1>4. FinalizersKept'
    <2>1. ASSUME NEW r \in Nat \X Nat
          PROVE  HasFinalizer(r)' <=> r \in DOMAIN objects' /\ objects'[r].finalizer
      <3>1. CASE r = ref
        BY <3>1, <1>1, <1>2
      <3>2. CASE r # ref
        <4>1. HasFinalizer(r) <=> r \in DOMAIN objects /\ objects[r].finalizer
          BY <1>3 DEF CollectInv, FinalizersKept
        <4> QED BY <4>1, <3>2, <1>1
      <3> QED BY <3>1, <3>2
    <2> QED BY <2>1, <1>1, <1>3 DEF FinalizersKept
  <1>5. FinalizersRun'
    <2>1. \A r \in DOMAIN objects : objects[r].finalized = 0
      BY <1>3 DEF CollectInv, FinalizersRun
    <2>2. \A r \in DOMAIN objects' : objects'[r].finalized = 0
      BY <2>1, <1>1, <1>2
    <2> QED BY <2>2, <1>1, <1>3 DEF FinalizersRun
  <1>6. MarksLive' /\ BlocksMerged'
    BY <1>1 DEF MarksLive, BlocksMerged
  <1>7. ObjectsCounted'
    <2>1. IsFiniteSet(DOMAIN objects')
      BY <1>1, FS_AddElement DEF CollectInv, ObjectsCounted
    <2> QED BY <2>1, <1>1 DEF CollectInv, ObjectsCounted
  <1> QED BY <1>4, <1>5, <1>6, <1>7 DEF CollectInv

LEMMA AllocateLobCollect ==
    ASSUME HeapInv, CollectInv, AllocateLob
    PROVE  CollectInv'
  <1>a. PICK n : n = Min((1 .. Cardinality(DOMAIN lobs) + 1) \ DOMAIN lobs)
    OBVIOUS
  <1>b. PICK lob : lob = [cells |-> Request, marked |-> FALSE, finalizer |-> request.finalizer]
    OBVIOUS
  <1>1. /\ stage = "find" /\ Created(<<0, n>>) /\ pages' = pages
        /\ lobs' = Insert(lobs, n, lob)
    BY <1>a, <1>b DEF AllocateLob
  <1>2. n \in Nat \ {0} /\ n \notin DOMAIN lobs
    BY <1>a, FreshNumber DEF HeapInv, HeapTypes
  <1>3. "objects" \in DOMAIN stats'
    BY DEF AllocateLob, CollectInv, ObjectsCounted
  <1>4. /\ DOMAIN lobs' = DOMAIN lobs \cup {n} /\ lobs'[n] = lob
        /\ \A k \in DOMAIN lobs : lobs'[k] = lobs[k]
    BY <1>1, <1>2 DEF Insert
  <1>5. lob.finalizer = request.finalizer
    BY <1>b
  <1>6. HasFinalizer(<<0, n>>)' <=> request.finalizer
    BY <1>4, <1>5 DEF HasFinalizer, IsLob
  <1>7. \A r \in Nat \X Nat : r # <<0, n>> => (HasFinalizer(r)' <=> HasFinalizer(r))
    <2> SUFFICES ASSUME NEW r \in Nat \X Nat, r # <<0, n>>
                 PROVE  HasFinalizer(r)' <=> HasFinalizer(r)
      OBVIOUS
    <2>1. CASE IsLob(r)
      <3>1. r[2] # n
        BY <2>1 DEF IsLob
      <3> QED BY <2>1, <3>1, <1>4 DEF HasFinalizer
    <2>2. CASE ~IsLob(r)
      BY <2>2, <1>1 DEF HasFinalizer
    <2> QED BY <2>1, <2>2
  <1>8. \A p \in DOMAIN pages' : pages'[p].finalizers \subseteq pages'[p].block
    BY <1>1 DEF CollectInv, FinalizersKept
  <1>9. <<0, n>> \in Nat \X Nat
    BY <1>2
  <1> QED BY <1>1, <1>3, <1>6, <1>7, <1>8, <1>9, CreatedCollect

LEMMA AllocateExactCollect ==
    ASSUME HeapInv, CollectInv, AllocateExact
    PROVE  CollectInv'
  <1>a. PICK n : n = Request
    OBVIOUS
  <1>b. PICK b : b = Found(n)
    OBVIOUS
  <1>c. PICK rest : rest = [page |-> b.page, cell |-> b.cell + n, size |-> b.size - n]
    OBVIOUS
  <1>d. PICK p : p = b.page
    OBVIOUS
  <1>e. PICK fin : fin = request.finalizer
    OBVIOUS
  <1>f. PICK c : c = b.cell
    OBVIOUS
  <1>1. /\ Divides(p, b, n, rest, fin) /\ p \in DOMAIN pages /\ b \in FreeBlocksOf(p)
        /\ c \in Nat /\ stage = "find" /\ Created(<<p, c>>) /\ lobs' = lobs
    BY <1>a, <1>b, <1>c, <1>d, <1>e, <1>f, FoundDivides
  <1>2. HeapTypes /\ p \in Nat /\ p # 0 /\ fin \in BOOLEAN
    BY <1>1, PageTypes DEF HeapInv, Divides
  <1>3. /\ DOMAIN pages' = DOMAIN pages
        /\ \A q \in DOMAIN pages : q # p => pages'[q] = pages[q]
        /\ pages'[p].block = pages[p].block \cup {c}
        /\ pages'[p].finalizers = pages[p].finalizers \cup (IF fin THEN {c} ELSE {})
    BY <1>1, <1>2, <1>f, SplitPage
  <1>4. c \notin pages[p].block
    BY <1>1, <1>2, <1>f, FreeBlockTypes
  <1>5. \A q \in DOMAIN pages : pages[q].finalizers \subseteq pages[q].block
    BY DEF CollectInv, FinalizersKept
  <1>6. "objects" \in DOMAIN stats'
    BY DEF AllocateExact, CollectInv, ObjectsCounted
  <1>7. \A q \in DOMAIN pages' : pages'[q].finalizers \subseteq pages'[q].block
    <2> SUFFICES ASSUME NEW q \in DOMAIN pages
                 PROVE  pages'[q].finalizers \subseteq pages'[q].block
      BY <1>3
    <2>1. CASE q = p
      BY <2>1, <1>3, <1>5
    <2>2. CASE q # p
      BY <2>2, <1>3, <1>5
    <2> QED BY <2>1, <2>2
  <1>8. HasFinalizer(<<p, c>>)' <=> request.finalizer
    <2>1. ~IsLob(<<p, c>>)
      BY <1>2 DEF IsLob
    <2>2. c \in pages'[p].finalizers <=> fin
      BY <1>1, <1>2, <1>3, <1>4, <1>5
    <2>3. HasFinalizer(<<p, c>>)' <=> p \in DOMAIN pages' /\ c \in pages'[p].finalizers
      BY <2>1 DEF HasFinalizer
    <2> QED BY <2>2, <2>3, <1>1, <1>3, <1>e, Zenon
  <1>9. \A r \in Nat \X Nat : r # <<p, c>> => (HasFinalizer(r)' <=> HasFinalizer(r))
    <2> SUFFICES ASSUME NEW r \in Nat \X Nat, r # <<p, c>>
                 PROVE  HasFinalizer(r)' <=> HasFinalizer(r)
      OBVIOUS
    <2>1. CASE IsLob(r)
      BY <2>1, <1>1 DEF HasFinalizer
    <2>2. CASE ~IsLob(r)
      <3>1. ASSUME r[1] = p
            PROVE  r[2] \in pages'[p].finalizers <=> r[2] \in pages[p].finalizers
        <4>1. r[2] # c
          BY <3>1
        <4> QED BY <4>1, <1>3
      <3>2. r[1] \in DOMAIN pages =>
                (r[2] \in pages'[r[1]].finalizers <=> r[2] \in pages[r[1]].finalizers)
        BY <3>1, <1>3
      <3>3. /\ HasFinalizer(r)' <=> r[1] \in DOMAIN pages' /\ r[2] \in pages'[r[1]].finalizers
            /\ HasFinalizer(r) <=> r[1] \in DOMAIN pages /\ r[2] \in pages[r[1]].finalizers
        BY <2>2 DEF HasFinalizer
      <3> QED BY <3>2, <3>3, <1>3
    <2> QED BY <2>1, <2>2
  <1>10. <<p, c>> \in Nat \X Nat
    BY <1>1, <1>2
  <1> QED BY <1>1, <1>6, <1>7, <1>8, <1>9, <1>10, CreatedCollect

-----------------------------------------------------------------------------
(* Tracing. *)

\* Marking objects that can be reached: those that are new on the stack are counted later.
LEMMA MarkCollect ==
    ASSUME HeapInv, CollectInv, NEW refs, NEW rest, mark(refs, rest), refs \subseteq Reachable,
           stage \in {"roots", "trace"}, stage' = "trace", stats' = stats,
           UNCHANGED <<lists, request, to_sweep, roots, objects>>,
           rest \subseteq MarkedObjects, count' \in Nat,
           count' + Cardinality(rest) = Cardinality(MarkedObjects),
           \A r : Stored(r) /\ Marked(r) => r \in Reachable
    PROVE  CollectInv'
  <1>1. HeapTypes /\ References(roots, objects) /\ ObjectsIntact
    BY DEF HeapInv
  <1>2. \A r \in Reachable : Stored(r) /\ r \in DOMAIN objects
    BY <1>1, ReachableStored
  <1>3. /\ DOMAIN pages' = DOMAIN pages /\ DOMAIN lobs' = DOMAIN lobs
        /\ \A p \in DOMAIN pages :
            pages'[p].block = pages[p].block /\ pages'[p].finalizers = pages[p].finalizers
        /\ \A n \in DOMAIN lobs : lobs'[n].finalizer = lobs[n].finalizer
        /\ \A r : Stored(r) => (Marked(r)' <=> (Marked(r) \/ r \in refs))
        /\ to_trace' = rest \cup {r \in refs : ~Marked(r)}
    <2>1. \A r \in refs : Stored(r)
      BY <1>2
    <2> QED BY <2>1, <1>1, MarkProperties
  <1>4. Reachable' = Reachable
    BY DEF Reachable
  <1>5. \A r : HasFinalizer(r)' <=> HasFinalizer(r)
    BY <1>3 DEF HasFinalizer
  <1>6. \A r : ~Swept(r) /\ ~Swept(r)'
    BY DEF Swept
  <1>7. FinalizersKept'
    <2>1. \A p \in DOMAIN pages' : pages'[p].finalizers \subseteq pages'[p].block
      BY <1>3 DEF CollectInv, FinalizersKept
    <2>2. \A r \in Nat \X Nat : HasFinalizer(r) <=> r \in DOMAIN objects /\ objects[r].finalizer
      BY <1>6 DEF CollectInv, FinalizersKept
    <2>3. \A r \in Nat \X Nat :
            HasFinalizer(r)' <=> r \in DOMAIN objects' /\ objects'[r].finalizer
      BY <2>2, <1>5
    <2> QED BY <2>1, <2>3, <1>6 DEF FinalizersKept
  <1>8. FinalizersRun'
    <2>1. \A r \in DOMAIN objects : objects[r].finalized = 0
      BY <1>6 DEF CollectInv, FinalizersRun
    <2> QED BY <2>1, <1>6 DEF FinalizersRun
  <1>9. MarksLive' /\ BlocksMerged'
    <2>1. \A r : Stored(r)' <=> Stored(r)
      BY <1>3 DEF Stored
    <2>2. ASSUME NEW r, Stored(r)', Marked(r)'
          PROVE  r \in Reachable'
      BY <2>1, <2>2, <1>3, <1>4
    <2> QED BY <2>2 DEF MarksLive, BlocksMerged
  <1>10. ObjectsCounted'
    <2>a. PICK new : new = {r \in refs : ~Marked(r)}
      OBVIOUS
    <2>b. PICK M : M = MarkedObjects
      OBVIOUS
    <2>1. MarkedObjects' = M \cup new
      <3>1. MarkedObjects' = {r \in Reachable' : Marked(r)'}
        BY DEF MarkedObjects
      <3>2. \A r : r \in MarkedObjects' <=> r \in Reachable /\ Marked(r)'
        BY <3>1, <1>4
      <3>3. \A r : r \in M <=> r \in Reachable /\ Marked(r)
        BY <2>b DEF MarkedObjects
      <3>4. \A r : r \in new <=> r \in Reachable /\ r \in refs /\ ~Marked(r)
        BY <2>a
      <3>5. \A r : r \in MarkedObjects' <=> r \in M \/ r \in new
        BY <3>2, <3>3, <3>4, <1>2, <1>3
      <3> QED BY <3>5
    <2>2. /\ IsFiniteSet(DOMAIN objects) /\ M \subseteq DOMAIN objects
          /\ new \subseteq DOMAIN objects /\ rest \subseteq M
      BY <1>2, <2>a, <2>b DEF CollectInv, ObjectsCounted, MarkedObjects
    <2>3. M \cap new = {} /\ rest \cap new = {}
      BY <2>2, <2>a, <2>b DEF MarkedObjects
    <2>4. IsFiniteSet(M) /\ IsFiniteSet(new) /\ IsFiniteSet(rest)
      BY <2>2, FS_Subset
    <2>5. /\ Cardinality(M) \in Nat /\ Cardinality(new) \in Nat /\ Cardinality(rest) \in Nat
          /\ Cardinality({}) = 0
      BY <2>4, FS_CardinalityType, FS_EmptySet
    <2>6. /\ Cardinality(M \cup new) = Cardinality(M) + Cardinality(new)
          /\ Cardinality(rest \cup new) = Cardinality(rest) + Cardinality(new)
      <3>1. /\ Cardinality(M \cup new) = Cardinality(M) + Cardinality(new) - Cardinality(M \cap new)
            /\ Cardinality(rest \cup new) =
                Cardinality(rest) + Cardinality(new) - Cardinality(rest \cap new)
        BY <2>4, FS_Union
      <3>2. Cardinality(M \cap new) = 0 /\ Cardinality(rest \cap new) = 0
        BY <2>3, <2>5
      <3>3. PICK i, j, k : i = Cardinality(rest) /\ j = Cardinality(new) /\ k = Cardinality(M)
        OBVIOUS
      <3>4. i \in Nat /\ j \in Nat /\ k \in Nat
        BY <3>3, <2>5
      <3>5. k + j - 0 = k + j /\ i + j - 0 = i + j
        BY <3>4
      <3> QED BY <3>1, <3>2, <3>3, <3>5
    <2>7. to_trace' = rest \cup new /\ to_trace' \subseteq MarkedObjects'
      BY <1>3, <2>1, <2>2, <2>a
    <2>8. count' + Cardinality(rest) = Cardinality(M)
      BY <2>b
    <2>9. count' + Cardinality(rest \cup new) = Cardinality(M \cup new)
      <3>1. \A c, i, j, k \in Nat : c + i = k => c + (i + j) = k + j
        OBVIOUS
      <3>2. count' + (Cardinality(rest) + Cardinality(new)) = Cardinality(M) + Cardinality(new)
        BY ONLY <3>1, <2>5, <2>8, count' \in Nat
      <3> QED BY <3>2, <2>6
    <2>10. count' + Cardinality(to_trace') = Cardinality(MarkedObjects')
      BY <2>1, <2>7, <2>9
    <2>11. IsFiniteSet(DOMAIN objects') /\ "objects" \in DOMAIN stats'
      BY <2>2 DEF CollectInv, ObjectsCounted
    <2> QED BY <2>7, <2>10, <2>11 DEF ObjectsCounted
  <1> QED BY <1>7, <1>8, <1>9, <1>10 DEF CollectInv

LEMMA TraceRootsCollect ==
    ASSUME HeapInv, CollectInv, TraceRoots
    PROVE  CollectInv'
  <1>a. PICK refs : refs = roots
    OBVIOUS
  <1>1. /\ mark(refs, {}) /\ stage = "roots" /\ stage' = "trace"
        /\ UNCHANGED <<lists, stats, request, to_sweep, roots, objects, count>>
    BY <1>a DEF TraceRoots, mutator
  <1>2. refs \subseteq Reachable
    BY <1>a, ReachableClosed DEF Reachable, HeapInv
  <1>3. \A r : Stored(r) => ~Marked(r)
    <2>1. to_sweep = {} /\ MarksReset
      BY <1>1 DEF HeapInv, HeapTypes
    <2> QED BY <2>1, <1>1 DEF MarksReset, Stored, Marked
  <1>4. MarkedObjects = {}
    <2>1. \A r \in Reachable : Stored(r)
      BY <1>1, ReachableStored DEF HeapInv
    <2> QED BY <2>1, <1>3 DEF MarkedObjects
  <1>5. count' = 0 /\ Cardinality({}) = 0
    BY <1>1, FS_EmptySet DEF CollectInv, ObjectsCounted
  <1>6. count' + Cardinality({}) = Cardinality(MarkedObjects) /\ {} \subseteq MarkedObjects
    BY <1>4, <1>5
  <1>7. /\ stage \in {"roots", "trace"} /\ stats' = stats /\ count' \in Nat
        /\ UNCHANGED <<lists, request, to_sweep, roots, objects>>
        /\ \A r : Stored(r) /\ Marked(r) => r \in Reachable
    BY <1>1, <1>3, <1>5
  <1> QED BY <1>1, <1>2, <1>6, <1>7, MarkCollect

LEMMA TraceValueCollect ==
    ASSUME HeapInv, CollectInv, NEW ref, TraceValue(ref)
    PROVE  CollectInv'
  <1>a. PICK refs : refs = Fields(objects, {ref})
    OBVIOUS
  <1>b. PICK rest : rest = to_trace \ {ref}
    OBVIOUS
  <1>1. /\ mark(refs, rest) /\ stage = "trace" /\ stage' = "trace" /\ ref \in to_trace
        /\ count' = count + 1 /\ UNCHANGED <<lists, stats, request, to_sweep, roots, objects>>
    BY <1>a, <1>b DEF TraceValue, mutator
  <1>2. /\ to_trace \subseteq MarkedObjects /\ count \in Nat
        /\ count + Cardinality(to_trace) = Cardinality(MarkedObjects)
        /\ IsFiniteSet(DOMAIN objects)
        /\ \A r : Stored(r) /\ Marked(r) => r \in Reachable
    BY <1>1 DEF CollectInv, ObjectsCounted, MarksLive
  <1>3. /\ Reachable \subseteq DOMAIN objects
        /\ \A r \in Reachable : objects[r].field \in Reachable \cup {null}
    BY ReachableClosed DEF Reachable, HeapInv
  <1>4. refs \subseteq Reachable
    BY <1>1, <1>2, <1>3, <1>a DEF Fields, MarkedObjects
  <1>5. IsFiniteSet(to_trace)
    BY <1>2, <1>3, FS_Subset DEF MarkedObjects
  <1>6. Cardinality(rest) = Cardinality(to_trace) - 1 /\ Cardinality(to_trace) \in Nat
    BY <1>1, <1>5, <1>b, FS_RemoveElement, FS_CardinalityType
  <1>7. count' + Cardinality(rest) = Cardinality(MarkedObjects)
    <2>1. PICK i : i = Cardinality(to_trace)
      OBVIOUS
    <2>2. i \in Nat /\ count' = count + 1 /\ Cardinality(rest) = i - 1
      BY <2>1, <1>1, <1>6
    <2>3. count' + (i - 1) = count + i
      BY <2>2, <1>2
    <2> QED BY <2>1, <2>2, <2>3, <1>2
  <1>8. rest \subseteq MarkedObjects /\ count' \in Nat
    BY <1>1, <1>2, <1>b
  <1> QED BY <1>1, <1>2, <1>4, <1>7, <1>8, MarkCollect

-----------------------------------------------------------------------------
(* Sweeping. *)

\* When tracing is complete, exactly what can be reached is marked.
LEMMA TracedExactly ==
    ASSUME HeapInv, CollectInv, stage = "trace", to_trace = {}
    PROVE  /\ \A r \in Reachable : r \in DOMAIN objects /\ Stored(r)
           /\ \A r : Stored(r) => (Marked(r) <=> r \in Reachable)
           /\ count = Cardinality(Reachable)
  <1>1. \A r \in Reachable : r \in DOMAIN objects /\ Stored(r) /\ Marked(r)
    BY TracedMarked, ReachableStored DEF HeapInv
  <1>2. \A r : Stored(r) /\ Marked(r) => r \in Reachable
    BY DEF CollectInv, MarksLive
  <1>3. MarkedObjects = Reachable
    BY <1>1 DEF MarkedObjects
  <1>4. count + 0 = Cardinality(Reachable) /\ count \in Nat
    BY <1>3, FS_EmptySet DEF CollectInv, ObjectsCounted
  <1> QED BY <1>1, <1>2, <1>4

LEMMA SweepLobsCollect ==
    ASSUME HeapInv, CollectInv, SweepLobs
    PROVE  CollectInv'
  <1>a. PICK dead : dead = {n \in DOMAIN lobs : ~lobs[n].marked}
    OBVIOUS
  <1>b. PICK live : live = DOMAIN lobs \ dead
    OBVIOUS
  <1>c. PICK s : s = LobsToFinalize(dead)
    OBVIOUS
  <1>1. /\ stage = "trace" /\ to_trace = {} /\ stage' = "sweep" /\ to_sweep' = DOMAIN pages
        /\ Finalize(s) /\ count' = 0
        /\ lobs' = [n \in live |-> [lobs[n] EXCEPT !.marked = FALSE]]
        /\ UNCHANGED <<pages, roots>>
    BY <1>a, <1>b, <1>c DEF SweepLobs
  <1>2. HeapTypes /\ References(roots, objects)
    BY DEF HeapInv
  <1>3. /\ Reachable' = Reachable /\ DOMAIN objects' = DOMAIN objects
        /\ \A r \in DOMAIN objects :
            /\ objects'[r].finalizer = objects[r].finalizer
            /\ objects'[r].finalized = objects[r].finalized + (IF r \in s THEN 1 ELSE 0)
    BY <1>1, <1>2, FinalizeProperties
  <1>4. /\ \A r \in Reachable : r \in DOMAIN objects /\ Stored(r)
        /\ \A r : Stored(r) => (Marked(r) <=> r \in Reachable)
        /\ count = Cardinality(Reachable)
    BY <1>1, TracedExactly
  <1>5. /\ DOMAIN lobs' = live
        /\ \A n \in DOMAIN lobs : n \in live <=> lobs[n].marked
        /\ \A n \in live : n \in DOMAIN lobs /\ lobs'[n].finalizer = lobs[n].finalizer
    <2>1. \A n \in live : n \in DOMAIN lobs
      BY <1>b
    <2>2. \A n \in live : lobs'[n].finalizer = lobs[n].finalizer
      <3> SUFFICES ASSUME NEW n \in live
                   PROVE  lobs'[n].finalizer = lobs[n].finalizer
        OBVIOUS
      <3>1. lobs'[n] = [lobs[n] EXCEPT !.marked = FALSE] /\ lobs[n] \in LobRecords
        BY <2>1, <1>1, <1>2 DEF HeapTypes
      <3> QED BY <3>1 DEF LobRecords
    <2> QED BY <2>1, <2>2, <1>1, <1>a, <1>b
  <1>6. \A r \in Nat \X Nat : HasFinalizer(r) <=> r \in DOMAIN objects /\ objects[r].finalizer
    BY <1>1 DEF CollectInv, FinalizersKept, Swept
  <1>7. \A r : IsLob(r) => (Swept(r)' /\ r[1] \notin DOMAIN pages)
    BY <1>1, <1>2, PageTypes DEF Swept, IsLob
  <1>8. ASSUME NEW r \in Nat \X Nat, IsLob(r), r[2] \in DOMAIN lobs
        PROVE  r[2] \in live <=> r \in Reachable
    <2>1. Stored(r)
      BY <1>8 DEF Stored
    <2>2. Marked(r) = lobs[r[2]].marked
      BY <1>8 DEF Marked
    <2> QED BY <2>1, <2>2, <1>4, <1>5, <1>8, Zenon
  <1>9. ASSUME NEW r \in Nat \X Nat
        PROVE  HasFinalizer(r)' <=> /\ r \in DOMAIN objects' /\ objects'[r].finalizer
                                    /\ Swept(r)' => r \in Reachable'
    <2>1. CASE IsLob(r)
      <3>1. HasFinalizer(r)' <=> r[2] \in live /\ lobs[r[2]].finalizer
        BY <2>1, <1>5 DEF HasFinalizer
      <3>2. HasFinalizer(r) <=> r[2] \in DOMAIN lobs /\ lobs[r[2]].finalizer
        BY <2>1 DEF HasFinalizer
      <3>3. HasFinalizer(r)' <=> HasFinalizer(r) /\ r \in Reachable
        BY <3>1, <3>2, <2>1, <1>5, <1>8
      <3>4. r \in DOMAIN objects => objects'[r].finalizer = objects[r].finalizer
        BY <1>3
      <3>5. HasFinalizer(r) <=> r \in DOMAIN objects /\ objects[r].finalizer
        BY <1>6
      <3>6. r \in DOMAIN objects' <=> r \in DOMAIN objects
        BY <1>3
      <3> QED BY <3>3, <3>4, <3>5, <3>6, <2>1, <1>3, <1>7, Zenon
    <2>2. CASE ~IsLob(r)
      <3>1. HasFinalizer(r)' <=> HasFinalizer(r)
        BY <2>2, <1>1 DEF HasFinalizer
      <3>2. HasFinalizer(r) => ~Swept(r)'
        BY <2>2, <1>1 DEF HasFinalizer, Swept
      <3> QED BY <3>1, <3>2, <1>3, <1>6
    <2> QED BY <2>1, <2>2
  <1>10. FinalizersKept'
    <2>1. \A p \in DOMAIN pages' : pages'[p].finalizers \subseteq pages'[p].block
      BY <1>1 DEF CollectInv, FinalizersKept
    <2> QED BY <2>1, <1>9 DEF FinalizersKept
  <1>11. FinalizersRun'
    <2>1. ASSUME NEW r \in DOMAIN objects
          PROVE  objects'[r].finalized =
                    IF objects[r].finalizer /\ Swept(r)' /\ r \notin Reachable THEN 1 ELSE 0
      <3>1. objects[r].finalized = 0
        BY <1>1 DEF CollectInv, FinalizersRun, Swept
      <3>2. r \in Nat \X Nat
        BY <1>2 DEF References
      <3>3. r \in s <=> objects[r].finalizer /\ Swept(r)' /\ r \notin Reachable
        <4>1. r \in s <=> IsLob(r) /\ r[2] \in dead /\ lobs[r[2]].finalizer
          BY <3>2, <1>c DEF LobsToFinalize, IsLob
        <4>2. CASE IsLob(r)
          <5>1. r \in s <=> r[2] \in DOMAIN lobs /\ r[2] \notin live /\ lobs[r[2]].finalizer
            BY <4>1, <4>2, <1>a, <1>b
          <5>2. HasFinalizer(r) <=> r[2] \in DOMAIN lobs /\ lobs[r[2]].finalizer
            BY <4>2 DEF HasFinalizer
          <5>3. r \in s <=> HasFinalizer(r) /\ r \notin Reachable
            BY <5>1, <5>2, <4>2, <3>2, <1>8
          <5> QED BY <5>3, <4>2, <3>2, <1>6, <1>7
        <4>3. CASE ~IsLob(r)
          <5>1. HasFinalizer(r) => ~Swept(r)'
            BY <4>3, <1>1 DEF HasFinalizer, Swept
          <5> QED BY <5>1, <4>1, <4>3, <3>2, <1>6
        <4> QED BY <4>2, <4>3
      <3>4. objects'[r].finalized = 0 + (IF r \in s THEN 1 ELSE 0)
        BY <3>1, <1>3
      <3> QED BY <3>3, <3>4
    <2> QED BY <2>1, <1>1, <1>3 DEF FinalizersRun
  <1>12. MarksLive'
    <2>1. ASSUME NEW r, Stored(r)', Swept(r)' \/ Marked(r)'
          PROVE  r \in Reachable
      <3>1. r \in Nat \X Nat
        BY <2>1 DEF Stored
      <3>2. CASE IsLob(r)
        <4>1. r[2] \in live
          BY <2>1, <3>2, <1>5 DEF Stored
        <4> QED BY <4>1, <3>1, <3>2, <1>5, <1>8
      <3>3. CASE ~IsLob(r)
        <4>1. Stored(r) /\ r[1] \in DOMAIN pages
          BY <2>1, <3>3, <1>1 DEF Stored
        <4>2. ~Swept(r)'
          BY <4>1, <1>1 DEF Swept
        <4>3. Marked(r)
          BY <4>2, <2>1, <3>3, <1>1 DEF Marked
        <4> QED BY <4>1, <4>3, <1>4
      <3> QED BY <3>2, <3>3
    <2> QED BY <2>1, <1>1, <1>3 DEF MarksLive
  <1>13. BlocksMerged'
    BY <1>1 DEF BlocksMerged
  <1>14. ObjectsCounted'
    <2>1. stats'.objects = count /\ "objects" \in DOMAIN stats'
      BY DEF SweepLobs, CollectInv, ObjectsCounted
    <2> QED BY <2>1, <1>1, <1>3, <1>4 DEF CollectInv, ObjectsCounted
  <1> QED BY <1>10, <1>11, <1>12, <1>13, <1>14 DEF CollectInv

LEMMA SweepPageCollect ==
    ASSUME HeapInv, CollectInv, NEW p \in to_sweep, SweepPage(p)
    PROVE  CollectInv'
  <1>c. PICK s : s = PageToFinalize(p)
    OBVIOUS
  <1>1. /\ stage = "sweep" /\ stage' = "sweep" /\ to_sweep' = to_sweep \ {p}
        /\ Finalize(s)
        /\ pages' = [pages EXCEPT ![p] =
                [block |-> SweptBlock(p), mark |-> free_starts(p),
                 finalizers |-> @.finalizers \cap @.mark]]
        /\ UNCHANGED <<lobs, roots, count>>
    BY <1>c DEF SweepPage
  <1>2. HeapTypes /\ References(roots, objects) /\ MarksComplete
    BY DEF HeapInv
  <1>3. /\ Reachable' = Reachable /\ DOMAIN objects' = DOMAIN objects
        /\ \A r \in DOMAIN objects :
            /\ objects'[r].finalizer = objects[r].finalizer
            /\ objects'[r].finalized = objects[r].finalized + (IF r \in s THEN 1 ELSE 0)
    BY <1>1, <1>2, FinalizeProperties
  <1>4. p \in DOMAIN pages /\ p \in Nat /\ p # 0
    BY <1>2, PageTypes DEF HeapTypes
  <1>5. /\ DOMAIN pages' = DOMAIN pages
        /\ \A q \in DOMAIN pages : q # p => pages'[q] = pages[q] /\ Starts(q)' = Starts(q)
        /\ pages'[p].block = SweptBlock(p) /\ pages'[p].mark = free_starts(p)
        /\ pages'[p].finalizers = pages[p].finalizers \cap pages[p].mark
        /\ \A c \in free_starts(p) : NextIn(Starts(p)', c) \notin free_starts(p)
    BY <1>1, <1>2, <1>4, SweptPage
  <1>6. \A q \in DOMAIN pages : pages[q].finalizers \subseteq pages[q].block
    BY DEF CollectInv, FinalizersKept
  <1>7. \A r \in Nat \X Nat : HasFinalizer(r) <=> /\ r \in DOMAIN objects /\ objects[r].finalizer
                                                  /\ Swept(r) => r \in Reachable
    BY <1>1 DEF CollectInv, FinalizersKept
  <1>8. \A r : /\ r[1] = p => ~Swept(r) /\ Swept(r)' /\ ~IsLob(r)
               /\ r[1] # p => (Swept(r)' <=> Swept(r))
    BY <1>1, <1>4 DEF Swept, IsLob
  \* What is marked on the page can be reached, and conversely.
  <1>9. ASSUME NEW r \in Nat \X Nat, r[1] = p, r[2] \in pages[p].block
        PROVE  r[2] \in pages[p].mark <=> r \in Reachable
    <2>1. Stored(r)
      BY <1>4, <1>9 DEF Stored, IsLob
    <2>2. Marked(r) = (r[2] \in pages[p].mark)
      BY <1>4, <1>9 DEF Marked, IsLob
    <2>3. Marked(r) => r \in Reachable
      BY <2>1, <1>1 DEF CollectInv, MarksLive
    <2>4. r \in Reachable => r[2] \in pages[p].mark
      BY <1>1, <1>2, <1>9 DEF MarksComplete
    <2> QED BY <2>2, <2>3, <2>4, Zenon
  <1>10. ASSUME NEW r \in Nat \X Nat
         PROVE  HasFinalizer(r)' <=> /\ r \in DOMAIN objects' /\ objects'[r].finalizer
                                     /\ Swept(r)' => r \in Reachable'
    <2>1. CASE r[1] = p
      <3>1. /\ HasFinalizer(r)' <=> r[2] \in pages[p].finalizers /\ r[2] \in pages[p].mark
            /\ HasFinalizer(r) <=> r[2] \in pages[p].finalizers
        BY <2>1, <1>4, <1>5, <1>8 DEF HasFinalizer
      <3>2. HasFinalizer(r)' <=> HasFinalizer(r) /\ r \in Reachable
        BY <3>1, <2>1, <1>4, <1>6, <1>9
      <3> QED BY <3>2, <2>1, <1>3, <1>7, <1>8
    <2>2. CASE r[1] # p
      <3>1. HasFinalizer(r)' <=> HasFinalizer(r)
        BY <2>2, <1>1, <1>5 DEF HasFinalizer
      <3> QED BY <3>1, <2>2, <1>3, <1>7, <1>8
    <2> QED BY <2>1, <2>2
  <1>11. FinalizersKept'
    <2>1. \A q \in DOMAIN pages' : pages'[q].finalizers \subseteq pages'[q].block
      <3> SUFFICES ASSUME NEW q \in DOMAIN pages
                   PROVE  pages'[q].finalizers \subseteq pages'[q].block
        BY <1>5
      <3>1. CASE q = p
        BY <3>1, <1>5, <1>6 DEF SweptBlock
      <3>2. CASE q # p
        BY <3>2, <1>5, <1>6
      <3> QED BY <3>1, <3>2
    <2> QED BY <2>1, <1>10 DEF FinalizersKept
  <1>12. FinalizersRun'
    <2>1. ASSUME NEW r \in DOMAIN objects
          PROVE  objects'[r].finalized =
                    IF objects[r].finalizer /\ Swept(r)' /\ r \notin Reachable THEN 1 ELSE 0
      <3>1. objects[r].finalized = IF objects[r].finalizer /\ Swept(r) /\ r \notin Reachable
                                   THEN 1 ELSE 0
        BY <1>1 DEF CollectInv, FinalizersRun
      <3>2. r \in Nat \X Nat
        BY <1>2 DEF References
      <3>3. r \in s <=> r[1] = p /\ r[2] \in pages[p].finalizers /\ r[2] \notin pages[p].mark
        BY <3>2, <1>c DEF PageToFinalize
      <3>4. objects'[r].finalized = objects[r].finalized + (IF r \in s THEN 1 ELSE 0)
        BY <1>3
      <3>5. CASE r[1] = p
        <4>1. HasFinalizer(r) <=> r[2] \in pages[p].finalizers
          BY <3>5, <1>4, <1>8 DEF HasFinalizer
        <4>2. r \in s <=> HasFinalizer(r) /\ r \notin Reachable
          BY <4>1, <3>2, <3>3, <3>5, <1>4, <1>6, <1>9
        <4>3. r \in s <=> objects[r].finalizer /\ r \notin Reachable
          BY <4>2, <3>2, <3>5, <1>7, <1>8
        <4>4. objects[r].finalized = 0 /\ Swept(r)'
          BY <3>1, <3>5, <1>8
        <4> QED BY <4>3, <4>4, <3>4
      <3>6. CASE r[1] # p
        <4>1. r \notin s /\ (Swept(r)' <=> Swept(r))
          BY <3>3, <3>6, <1>8
        <4> QED BY <4>1, <3>1, <3>4
      <3> QED BY <3>5, <3>6
    <2> QED BY <2>1, <1>1, <1>3 DEF FinalizersRun
  <1>13. MarksLive'
    <2>1. ASSUME NEW r, Stored(r)', Swept(r)' \/ Marked(r)'
          PROVE  r \in Reachable
      <3>1. r \in Nat \X Nat
        BY <2>1 DEF Stored
      <3>2. CASE r[1] = p
        <4>1. r[2] \in SweptBlock(p)
          BY <2>1, <3>2, <1>5, <1>8 DEF Stored
        <4> QED BY <4>1, <3>1, <3>2, <1>9 DEF SweptBlock
      <3>3. CASE r[1] # p
        <4>1. Stored(r)
          BY <2>1, <3>3, <1>1, <1>5 DEF Stored
        <4>2. Marked(r)' => Marked(r)
          BY <4>1, <3>3, <1>1, <1>5 DEF Marked, Stored
        <4> QED BY <4>1, <4>2, <2>1, <3>3, <1>1, <1>8 DEF CollectInv, MarksLive
      <3> QED BY <3>2, <3>3
    <2> QED BY <2>1, <1>1, <1>3 DEF MarksLive
  <1>14. BlocksMerged'
    <2>1. ASSUME NEW q \in DOMAIN pages, q \notin to_sweep', NEW c \in pages'[q].mark
          PROVE  NextIn(Starts(q)', c) \notin pages'[q].mark
      <3>1. CASE q = p
        BY <2>1, <3>1, <1>5
      <3>2. CASE q # p
        BY <2>1, <3>2, <1>1, <1>5 DEF CollectInv, BlocksMerged
      <3> QED BY <3>1, <3>2
    <2> QED BY <2>1, <1>5 DEF BlocksMerged
  <1>15. ObjectsCounted'
    <2>1. stats'.objects = stats.objects /\ "objects" \in DOMAIN stats'
      BY DEF SweepPage, CollectInv, ObjectsCounted
    <2> QED BY <2>1, <1>1, <1>3 DEF CollectInv, ObjectsCounted
  <1> QED BY <1>11, <1>12, <1>13, <1>14, <1>15 DEF CollectInv

-----------------------------------------------------------------------------
(* The end of the heap, and the theorem. *)

LEMMA DestroyCollect ==
    ASSUME HeapInv, CollectInv, Destroy
    PROVE  CollectInv'
  <1>c. PICK s : s = LobsToFinalize(DOMAIN lobs) \cup UNION {PageToFinalize(p) : p \in DOMAIN pages}
    OBVIOUS
  <1>1. /\ stage = "run" /\ stage' = "destroyed" /\ pages' = <<>> /\ Finalize(s)
        /\ UNCHANGED <<roots, count>>
    BY <1>c DEF Destroy, collector
  <1>2. HeapTypes /\ References(roots, objects) /\ MarksReset /\ to_sweep = {}
    BY <1>1 DEF HeapInv, HeapTypes
  <1>3. /\ DOMAIN objects' = DOMAIN objects
        /\ \A r \in DOMAIN objects :
            /\ objects'[r].finalizer = objects[r].finalizer
            /\ objects'[r].finalized = objects[r].finalized + (IF r \in s THEN 1 ELSE 0)
    BY <1>1, <1>2, FinalizeProperties
  <1>4. FinalizersKept'
    <2>1. DOMAIN pages' = {}
      BY <1>1
    <2> QED BY <2>1, <1>1 DEF FinalizersKept
  <1>5. FinalizersRun'
    <2>1. ASSUME NEW r \in DOMAIN objects
          PROVE  objects'[r].finalized = IF objects[r].finalizer THEN 1 ELSE 0
      <3>1. objects[r].finalized = 0
        BY <1>1 DEF CollectInv, FinalizersRun, Swept
      <3>2. r \in Nat \X Nat
        BY <1>2 DEF References
      <3>3. HasFinalizer(r) <=> objects[r].finalizer
        BY <3>2, <1>1 DEF CollectInv, FinalizersKept, Swept
      <3>4. r \in s <=> HasFinalizer(r)
        <4>1. r \in LobsToFinalize(DOMAIN lobs) <=> IsLob(r) /\ HasFinalizer(r)
          BY <3>2 DEF LobsToFinalize, HasFinalizer, IsLob
        <4>2. \A p \in DOMAIN pages : pages[p].finalizers \ pages[p].mark = pages[p].finalizers
          BY <1>1, <1>2 DEF MarksReset, CollectInv, FinalizersKept
        <4>3. \A p \in DOMAIN pages : r \in PageToFinalize(p) <=> r[1] = p /\ r[2] \in pages[p].finalizers
          BY <3>2, <4>2 DEF PageToFinalize
        <4>4. (\E p \in DOMAIN pages : r \in PageToFinalize(p)) <=>
                    r[1] \in DOMAIN pages /\ r[2] \in pages[r[1]].finalizers
          BY <4>3
        <4>5. 0 \notin DOMAIN pages
          BY <1>2, PageTypes
        <4>6. r \in UNION {PageToFinalize(p) : p \in DOMAIN pages} <=> ~IsLob(r) /\ HasFinalizer(r)
          BY <4>4, <4>5 DEF HasFinalizer, IsLob
        <4> QED BY <4>1, <4>6, <1>c
      <3>5. objects'[r].finalized = 0 + (IF r \in s THEN 1 ELSE 0)
        BY <3>1, <1>3
      <3> QED BY <3>3, <3>4, <3>5
    <2> QED BY <2>1, <1>1, <1>3 DEF FinalizersRun
  <1>6. MarksLive' /\ BlocksMerged'
    BY <1>1 DEF MarksLive, BlocksMerged
  <1>7. ObjectsCounted'
    <2>1. "objects" \in DOMAIN stats'
      BY DEF Destroy, CollectInv, ObjectsCounted
    <2> QED BY <2>1, <1>1, <1>3 DEF CollectInv, ObjectsCounted
  <1> QED BY <1>4, <1>5, <1>6, <1>7 DEF CollectInv

LEMMA StutterCollect ==
    ASSUME CollectInv, UNCHANGED vars
    PROVE  CollectInv'
  <1>1. UNCHANGED <<pages, lobs, stats, stage, to_trace, count, to_sweep, roots, objects>>
    BY DEF vars
  <1>2. /\ Reachable' = Reachable
        /\ \A p : Starts(p)' = Starts(p)
        /\ \A r : /\ Marked(r)' = Marked(r) /\ Stored(r)' = Stored(r)
                  /\ Swept(r)' = Swept(r) /\ HasFinalizer(r)' = HasFinalizer(r)
    BY <1>1 DEF Reachable, Starts, Marked, Stored, Swept, HasFinalizer
  <1>3. FinalizersKept'
    BY <1>1, <1>2 DEF CollectInv, FinalizersKept
  <1>4. FinalizersRun'
    BY <1>1, <1>2 DEF CollectInv, FinalizersRun
  <1>5. MarksLive' /\ BlocksMerged'
    BY <1>1, <1>2 DEF CollectInv, MarksLive, BlocksMerged
  <1>6. ObjectsCounted'
    <2>1. MarkedObjects' = MarkedObjects
      BY <1>2 DEF MarkedObjects
    <2> QED BY <2>1, <1>1, <1>2 DEF CollectInv, ObjectsCounted
  <1> QED BY <1>3, <1>4, <1>5, <1>6 DEF CollectInv

LEMMA NextCollectInv ==
    ASSUME HeapInv, CollectInv, [Next]_vars
    PROVE  CollectInv'
  <1>1. CASE \E r \in Requests : Allocate(r[1], r[2])
    BY <1>1, WaitCollect
  <1>2. CASE FinishAllocation
    BY <1>2, AllocateLobCollect, AllocateExactCollect, AddPageCollect, WaitCollect DEF FinishAllocation
  <1>3. CASE Collect
    BY <1>3, TraceRootsCollect, SweepLobsCollect, FinishCollectorCollect, TraceValueCollect,
       SweepPageCollect DEF Collect
  <1>4. CASE \E ref \in DOMAIN objects, value \in DOMAIN objects \cup {null} : Store(ref, value)
    BY <1>4, MutatorCollect
  <1>5. CASE \E ref \in DOMAIN objects : Keep(ref) \/ Drop(ref)
    BY <1>5, MutatorCollect
  <1>6. CASE Destroy
    BY <1>6, DestroyCollect
  <1>7. CASE UNCHANGED vars
    BY <1>7, StutterCollect
  <1> QED BY <1>1, <1>2, <1>3, <1>4, <1>5, <1>6, <1>7 DEF Next

LEMMA CollectInvariant == Spec => [](HeapInv /\ CollectInv)
  <1>1. Init => HeapInv /\ CollectInv
    BY InitHeapInv, InitCollectInv
  <1>2. HeapInv /\ CollectInv /\ [Next]_vars => HeapInv' /\ CollectInv'
    BY NextHeapInv, NextCollectInv
  <1> QED BY <1>1, <1>2, PTL DEF Spec

\* The storage that is left when the sweep is complete is that of the objects which
\* can be reached.
LEMMA CollectedExactly ==
    ASSUME HeapInv, CollectInv
    PROVE  CollectionComplete
  <1> SUFFICES ASSUME stage = "sweep", to_sweep = {}
               PROVE  /\ {<<0, n>> : n \in DOMAIN lobs} = {r \in Reachable : IsLob(r)}
                      /\ \A p \in DOMAIN pages :
                          /\ {<<p, c>> : c \in pages[p].block} = {r \in Reachable : r[1] = p}
                          /\ \A c \in pages[p].mark : NextIn(Starts(p), c) \notin pages[p].mark
                      /\ stats.objects = Cardinality(Reachable)
    BY DEF CollectionComplete
  <1>1. \A r \in Reachable : Stored(r) /\ r = <<r[1], r[2]>>
    BY ReachableStored DEF HeapInv
  <1>2. \A r : Stored(r) => r \in Reachable
    BY DEF CollectInv, MarksLive, Swept
  <1>3. HeapTypes /\ DOMAIN lobs \subseteq Nat
    BY DEF HeapInv, HeapTypes
  <1>4. ASSUME NEW n \in DOMAIN lobs
        PROVE  <<0, n>> \in Reachable
    <2>1. Stored(<<0, n>>)
      BY <1>3 DEF Stored, IsLob
    <2> QED BY <2>1, <1>2
  <1>5. {<<0, n>> : n \in DOMAIN lobs} = {r \in Reachable : IsLob(r)}
    BY <1>1, <1>4 DEF Stored, IsLob
  <1>6. ASSUME NEW p \in DOMAIN pages
        PROVE  {<<p, c>> : c \in pages[p].block} = {r \in Reachable : r[1] = p}
    <2>1. p \in Nat /\ p # 0 /\ pages[p].block \subseteq Nat
      BY <1>3, PageTypes, Sizes DEF CellIndices
    <2>2. ASSUME NEW c \in pages[p].block
          PROVE  <<p, c>> \in Reachable
      <3>1. Stored(<<p, c>>)
        BY <2>1 DEF Stored, IsLob
      <3> QED BY <3>1, <1>2
    <2>3. \A r \in Reachable : r[1] = p => r = <<p, r[2]>> /\ r[2] \in pages[p].block
      BY <2>1, <1>1 DEF Stored, IsLob
    <2> QED BY <2>2, <2>3
  <1>7. \A p \in DOMAIN pages : \A c \in pages[p].mark : NextIn(Starts(p), c) \notin pages[p].mark
    BY DEF CollectInv, BlocksMerged
  <1>8. stats.objects = Cardinality(Reachable)
    BY DEF CollectInv, ObjectsCounted
  <1> QED BY <1>5, <1>6, <1>7, <1>8

\* When a collection is over, nothing is left that cannot be reached, free blocks have
\* been merged and the survivors have been counted; finalizers have run exactly once, for
\* the objects that were collected (collector.cpp, heap.cpp, chunks.cpp).
THEOREM CollectionExactCorrect == Spec => []CollectionExact
  <1>1. HeapInv /\ CollectInv => CollectionExact
    <2> SUFFICES ASSUME HeapInv, CollectInv
                 PROVE  CollectionExact
      OBVIOUS
    <2>1. FinalizersRun
      BY DEF CollectInv
    <2>2. /\ stage # "sweep" => \A r : ~Swept(r)
          /\ stage = "sweep" /\ to_sweep = {} => \A r : Swept(r)
      BY DEF Swept
    <2>3. FinalizedOnce
      BY <2>1, <2>2 DEF FinalizersRun, FinalizedOnce
    <2> QED BY <2>3, CollectedExactly DEF CollectionExact
  <1> QED BY <1>1, CollectInvariant, PTL
=============================================================================

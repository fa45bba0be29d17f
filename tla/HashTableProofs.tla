-------------------------- MODULE HashTableProofs ---------------------------
(***************************************************************************)
(* Proofs about the hash table, for any keys, values, hashes and iterators *)
(* and for indexes of any size.                                            *)
(***************************************************************************)
EXTENDS HashTable, FiniteSetTheorems, WellFoundedInduction, TLAPS

-----------------------------------------------------------------------------
(* Numbers. *)

\* A set of numbers has a least element. What follows by induction is derived from this.
LEMMA LeastNumber ==
    ASSUME NEW T, T \subseteq Nat, T # {}
    PROVE  \E x \in T : \A y \in T : x <= y
  <1> DEFINE R == {ss \in Nat \X Nat : ss[1] < ss[2]}
  <1>1. IsWellFoundedOn(R, Nat)
    BY NatLessThanWellFounded, Zenon DEF OpToRel
  <1>2. PICK x \in T : \A y \in T : ~(<<y, x>> \in R)
    <2> HIDE DEF R
    <2> QED BY <1>1, WFMin
  <1>3. \A y \in T : (y < x) => <<y, x>> \in R
    OBVIOUS
  <1>4. \A y \in T : ~(y < x)
    <2> HIDE DEF R
    <2> QED BY <1>2, <1>3
  <1>5. \A y \in T : x <= y
    BY <1>4
  <1> QED BY <1>5

\* A set that holds 0 and the successor of each of its elements below n reaches n.
LEMMA UpTo ==
    ASSUME NEW n \in Nat, NEW G,
           0 \in G, \A k \in 0 .. n - 1 : k \in G => k + 1 \in G
    PROVE  \A k \in 0 .. n : k \in G
  <1> DEFINE bad == {k \in 0 .. n : k \notin G}
  <1> SUFFICES ASSUME bad # {}
               PROVE  FALSE
    OBVIOUS
  <1>1. bad \subseteq Nat
    OBVIOUS
  <1> HIDE DEF bad
  <1>2. PICK k \in bad : \A j \in bad : k <= j
    BY <1>1, LeastNumber
  <1>3. k \in 0 .. n /\ k \notin G /\ \A j \in 0 .. n : j \notin G => k <= j
    BY <1>2 DEF bad
  <1>4. k # 0 /\ k - 1 \in 0 .. n - 1 /\ k - 1 \in 0 .. n
    BY <1>3
  <1>5. k - 1 \in G
    BY <1>3, <1>4
  <1>6. (k - 1) + 1 \in G
    BY <1>4, <1>5
  <1> QED BY <1>3, <1>6

\* Remainders.
LEMMA ModRange ==
    ASSUME NEW n \in Nat \ {0}, NEW x \in Int
    PROVE  x % n \in 0 .. n - 1
  OBVIOUS

LEMMA ModCases ==
    ASSUME NEW n \in Nat \ {0}, NEW x \in Int
    PROVE  /\ x \in 0 .. n - 1 => x % n = x
           /\ x \in n .. 2 * n - 1 => x % n = x - n
           /\ x \in -n .. -1 => x % n = x + n
  OBVIOUS

LEMMA ModWrap ==
    ASSUME NEW n \in Nat \ {0}, NEW y \in 0 .. n - 1
    PROVE  (y + n) % n = y
  OBVIOUS

LEMMA DivMod ==
    ASSUME NEW n \in Nat \ {0}, NEW x \in Int
    PROVE  x = n * (x \div n) + (x % n) /\ x \div n \in Int
  OBVIOUS

LEMMA TimesPlus ==
    ASSUME NEW n \in Int, NEW x \in Int, NEW y \in Int
    PROVE  n * (x + y) = n * x + n * y
  OBVIOUS

LEMMA TimesMinus ==
    ASSUME NEW n \in Int, NEW x \in Int, NEW y \in Int
    PROVE  n * (x - y) = n * x - n * y
  OBVIOUS

LEMMA TimesMonotonic ==
    ASSUME NEW n \in Nat \ {0}, NEW z \in Int
    PROVE  (z >= 1 => n * z >= n) /\ (z <= -1 => n * z <= -n)
  <1>1. ASSUME z >= 1
        PROVE  n * z >= n
    <2>1. n * z = n * (z - 1) + n
      BY TimesMinus
    <2>2. n * (z - 1) >= 0
      BY <1>1
    <2> QED BY <2>1, <2>2
  <1>2. ASSUME z <= -1
        PROVE  n * z <= -n
    <2>1. n * z = n * (z + 1) - n
      BY TimesPlus
    <2>2. n * (z + 1) <= 0
      BY <1>2
    <2> QED BY <2>1, <2>2
  <1> QED BY <1>1, <1>2

\* The remainder is the only number below n that differs from x by a multiple of n.
LEMMA ModUnique ==
    ASSUME NEW n \in Nat \ {0}, NEW q \in Int, NEW r \in 0 .. n - 1
    PROVE  (n * q + r) % n = r
  <1> DEFINE x == n * q + r
             Q == x \div n
             R == x % n
  <1>1. x \in Int
    OBVIOUS
  <1>2. x = n * Q + R /\ Q \in Int /\ R \in 0 .. n - 1
    BY <1>1, DivMod, ModRange
  <1>3. n * Q + R = n * q + r
    BY <1>2
  <1> HIDE DEF Q, R
  <1>4. n * (Q - q) = r - R
    <2>1. n * (Q - q) = n * Q - n * q
      BY <1>2, TimesMinus
    <2>2. n * Q \in Int /\ n * q \in Int
      BY <1>2
    <2> QED BY <2>1, <2>2, <1>2, <1>3
  <1>5. Q - q \in Int /\ ~(Q - q >= 1) /\ ~(Q - q <= -1)
    BY <1>2, <1>4, TimesMonotonic
  <1>6. Q = q
    BY <1>5, <1>2
  <1> QED BY <1>2, <1>3, <1>6 DEF R

\* Remainders may be taken before or after adding.
LEMMA ModPlus ==
    ASSUME NEW n \in Nat \ {0}, NEW x \in Int, NEW y \in Int
    PROVE  (x + y) % n = ((x % n) + y) % n
  <1> DEFINE q == x \div n
             r == x % n
             q2 == (r + y) \div n
             r2 == (r + y) % n
  <1>1. x = n * q + r /\ q \in Int /\ r \in 0 .. n - 1
    BY DivMod, ModRange
  <1>2. r + y = n * q2 + r2 /\ q2 \in Int /\ r2 \in 0 .. n - 1
    <2> DEFINE z == r + y
    <2>1. z \in Int
      BY <1>1
    <2> HIDE DEF z
    <2>2. z = n * (z \div n) + (z % n) /\ z \div n \in Int
      BY <2>1, DivMod, Zenon
    <2>3. z % n \in 0 .. n - 1
      BY <2>1, ModRange, Zenon
    <2> QED BY <2>2, <2>3, Zenon DEF z
  <1> HIDE DEF q, r, q2, r2
  <1>3. x + y = n * (q + q2) + r2
    <2>1. n * q \in Int /\ n * q2 \in Int
      BY <1>1, <1>2
    <2> QED BY <2>1, <1>1, <1>2, TimesPlus
  <1>4. (x + y) % n = r2
    BY <1>1, <1>2, <1>3, q + q2 \in Int, ModUnique
  <1> QED BY <1>4 DEF r, r2

-----------------------------------------------------------------------------
(* Buckets. *)

\* The bucket after b, the one d buckets from the home of a hash, and how far
\* b is from there, for an index of n buckets.
After(n, b) == (b + 1) % n
From(n, h, d) == (h + d) % n
Away(n, h, b) == (b - (h % n)) % n

\* The last bucket is followed by the first.
LEMMA AfterCases ==
    ASSUME NEW n \in Nat \ {0}, NEW b \in 0 .. n - 1
    PROVE  After(n, b) \in 0 .. n - 1 /\ After(n, b) = IF b = n - 1 THEN 0 ELSE b + 1
  <1>1. b + 1 \in Int /\ (b = n - 1 => b + 1 \in n .. 2 * n - 1)
        /\ (b # n - 1 => b + 1 \in 0 .. n - 1)
    OBVIOUS
  <1>2. b = n - 1 => (b + 1) % n = b + 1 - n
    BY <1>1, ModCases
  <1>3. b # n - 1 => (b + 1) % n = b + 1
    BY <1>1, ModCases
  <1> QED BY <1>1, <1>2, <1>3 DEF After

\* No two buckets are followed by the same one.
LEMMA AfterOneToOne ==
    ASSUME NEW n \in Nat \ {0}, NEW b \in 0 .. n - 1, NEW c \in 0 .. n - 1,
           After(n, b) = After(n, c)
    PROVE  b = c
  BY AfterCases

\* Every bucket comes after one.
LEMMA Before ==
    ASSUME NEW n \in Nat \ {0}, NEW c \in 0 .. n - 1
    PROVE  \E b \in 0 .. n - 1 : After(n, b) = c
  <1>1. CASE c = 0
    <2>1. n - 1 \in 0 .. n - 1 /\ After(n, n - 1) = 0
      BY AfterCases
    <2> QED BY <1>1, <2>1
  <1>2. CASE c # 0
    <2>1. c - 1 \in 0 .. n - 1 /\ After(n, c - 1) = c
      BY <1>2, AfterCases
    <2> QED BY <2>1
  <1> QED BY <1>1, <1>2

\* One step further from home is the next bucket.
LEMMA FromNext ==
    ASSUME NEW n \in Nat \ {0}, NEW h \in Int, NEW d \in Int
    PROVE  From(n, h, d) \in 0 .. n - 1 /\ From(n, h, d + 1) = After(n, From(n, h, d))
  <1>1. (h + d) % n \in 0 .. n - 1
    BY h + d \in Int, ModRange
  <1>2. ((h + d) + 1) % n = (((h + d) % n) + 1) % n
    <2>1. h + d \in Int /\ 1 \in Int
      OBVIOUS
    <2> QED BY <2>1, ModPlus, Zenon
  <1>3. h + (d + 1) = (h + d) + 1
    OBVIOUS
  <1> QED BY <1>1, <1>2, <1>3, Zenon DEF From, After

\* Going d buckets on leads d buckets away,
LEMMA AwayFrom ==
    ASSUME NEW n \in Nat \ {0}, NEW h \in Int, NEW d \in 0 .. n - 1
    PROVE  Away(n, h, From(n, h, d)) = d
  <1> DEFINE r == h % n
  <1>1. r \in 0 .. n - 1 /\ From(n, h, d) = (r + d) % n
    <2>1. d \in Int
      OBVIOUS
    <2> QED BY <2>1, ModRange, ModPlus, Zenon DEF From
  <1> HIDE DEF r
  <1>2. (r + d) % n = IF r + d < n THEN r + d ELSE r + d - n
    <2>1. r + d \in Int /\ (r + d < n => r + d \in 0 .. n - 1)
          /\ (~(r + d < n) => r + d \in n .. 2 * n - 1)
      BY <1>1
    <2>2. r + d < n => (r + d) % n = r + d
      BY <2>1, ModCases, Zenon
    <2>3. ASSUME ~(r + d < n)
          PROVE  (r + d) % n = r + d - n
      <3> DEFINE y == r + d - n
      <3>1. y \in 0 .. n - 1 /\ r + d = y + n
        BY <1>1, <2>3
      <3> HIDE DEF y
      <3>2. (y + n) % n = y
        BY <3>1, ModWrap
      <3> QED BY <3>1, <3>2, Zenon DEF y
    <2> QED BY <2>2, <2>3, Zenon
  <1>3. ((r + d) - r) % n = d /\ ((r + d - n) - r) % n = (d - n) % n
    <2>1. (r + d) - r = d /\ (r + d - n) - r = d - n
      BY <1>1
    <2>2. d % n = d
      BY ModCases
    <2> QED BY <2>1, <2>2, Zenon
  <1>4. (d - n) % n = d
    <2>1. d - n \in -n .. -1 /\ d - n \in Int
      OBVIOUS
    <2> QED BY <2>1, ModCases
  <1>5. From(n, h, d) = IF r + d < n THEN r + d ELSE r + d - n
    BY <1>1, <1>2, Zenon
  <1>6. (From(n, h, d) - r) % n = d
    BY <1>3, <1>4, <1>5, Zenon
  <1> QED BY <1>6, Zenon DEF Away, r

\* and going as far as a bucket is away leads to it.
LEMMA AwayRange ==
    ASSUME NEW n \in Nat \ {0}, NEW h \in Int, NEW b \in 0 .. n - 1
    PROVE  Away(n, h, b) \in 0 .. n - 1 /\ From(n, h, Away(n, h, b)) = b
  <1> DEFINE r == h % n
             a == (b - r) % n
  <1>1. r \in 0 .. n - 1
    BY ModRange
  <1> HIDE DEF r
  <1>2. a = IF b >= r THEN b - r ELSE b - r + n
    <2>1. b - r \in Int /\ (b >= r => b - r \in 0 .. n - 1) /\ (b < r => b - r \in -n .. -1)
      BY <1>1
    <2>2. b >= r \/ b < r
      BY <1>1
    <2>3. b >= r => ~(b < r)
      BY <1>1
    <2> QED BY <2>1, <2>2, <2>3, ModCases, Zenon
  <1>3. a \in 0 .. n - 1 /\ (r + a = b \/ r + a = b + n)
    BY <1>1, <1>2
  <1> HIDE DEF a
  <1>4. (r + a) % n = b
    <2>1. b \in 0 .. n - 1 /\ b + n \in n .. 2 * n - 1 /\ b + n \in Int
      OBVIOUS
    <2>2. b % n = b /\ (b + n) % n = b
      <3>1. b \in Int /\ b + n - n = b
        OBVIOUS
      <3>2. b % n = b
        BY <2>1, <3>1, ModCases, Zenon
      <3>3. (b + n) % n = b
        BY ModWrap
      <3> QED BY <3>1, <3>2, <3>3, Zenon
    <2> QED BY <1>3, <2>2, Zenon
  <1>5. (h + a) % n = (r + a) % n
    <2>1. a \in Int
      BY <1>3
    <2> QED BY <2>1, ModPlus, Zenon DEF r
  <1> QED BY <1>3, <1>4, <1>5, Zenon DEF Away, From, a, r

\* One bucket further on is one further away, until one is home again.
LEMMA AwayNext ==
    ASSUME NEW n \in Nat \ {0}, NEW h \in Int, NEW b \in 0 .. n - 1
    PROVE  Away(n, h, After(n, b)) = IF Away(n, h, b) = n - 1 THEN 0 ELSE Away(n, h, b) + 1
  <1> DEFINE a == Away(n, h, b)
  <1>1. a \in 0 .. n - 1 /\ From(n, h, a) = b
    BY AwayRange
  <1>2. From(n, h, a + 1) = After(n, b)
    <2>1. a \in Int
      BY <1>1
    <2> QED BY <1>1, <2>1, FromNext, Zenon
  <1> HIDE DEF a
  <1>3. CASE a # n - 1
    <2>1. a + 1 \in 0 .. n - 1
      BY <1>1, <1>3
    <2>2. Away(n, h, From(n, h, a + 1)) = a + 1
      BY <2>1, AwayFrom
    <2> QED BY <1>2, <1>3, <2>2 DEF a
  <1>4. CASE a = n - 1
    <2>1. From(n, h, n) = From(n, h, 0)
      <3>1. (n + h) % n = ((n % n) + h) % n
        BY n \in Int, ModPlus, Zenon
      <3>2. n % n = 0
        <4>1. n \in n .. 2 * n - 1 /\ n \in Int /\ n - n = 0
          OBVIOUS
        <4> QED BY <4>1, ModCases, Zenon
      <3>3. h + n = n + h /\ 0 + h = h + 0
        OBVIOUS
      <3> QED BY <3>1, <3>2, <3>3, Zenon DEF From
    <2>2. a + 1 = n
      BY <1>4
    <2>3. Away(n, h, From(n, h, 0)) = 0
      BY 0 \in 0 .. n - 1, AwayFrom, Zenon
    <2> QED BY <1>2, <1>4, <2>1, <2>2, <2>3 DEF a
  <1> QED BY <1>3, <1>4

-----------------------------------------------------------------------------
(* The index. *)

\* An index of n buckets refers to the positions in S, to each one once.
OneToOne(ix, n, e, S) ==
    /\ ix \in [0 .. n - 1 -> S \cup {e}]
    /\ \A s \in S : \E b \in 0 .. n - 1 : ix[b] = s
    /\ \A b, c \in 0 .. n - 1 : ix[b] = ix[c] /\ ix[b] # e => b = c

\* An entry that is not at home follows one that is at most one bucket closer
\* to its own home.
RobinHood(es, ix, n, e) ==
    \A b \in 0 .. n - 1 :
        LET c == After(n, b)
        IN  ix[c] # e /\ Distance(es, ix, c) > 0 =>
                ix[b] # e /\ Distance(es, ix, b) >= Distance(es, ix, c) - 1

\* Position i may be put into bucket c, d buckets from its home, without
\* disturbing that order.
Fits(es, ix, n, e, i, c, d) ==
    /\ d = Away(n, es[i + 1].hash, c)
    /\ d > 0 => \A b \in 0 .. n - 1 :
                    After(n, b) = c => ix[b] # e /\ Distance(es, ix, b) >= d - 1

Hashed(es, S) == \A s \in S : es[s + 1].hash \in Nat

\* There are n numbers below n, and n from 1 to n.
LEMMA IntervalNumber ==
    ASSUME NEW n \in Nat
    PROVE  IsFiniteSet(0 .. n - 1) /\ Cardinality(0 .. n - 1) = n
  <1>1. 0 \in Int /\ n - 1 \in Int
    OBVIOUS
  <1>2. /\ IsFiniteSet(0 .. n - 1)
        /\ Cardinality(0 .. n - 1) = IF 0 > n - 1 THEN 0 ELSE (n - 1) - 0 + 1
    BY <1>1, FS_Interval, Zenon
  <1> QED BY <1>2

LEMMA PositionNumber ==
    ASSUME NEW n \in Nat
    PROVE  IsFiniteSet(1 .. n) /\ Cardinality(1 .. n) = n
  <1>1. 1 \in Int /\ n \in Int
    OBVIOUS
  <1>2. IsFiniteSet(1 .. n) /\ Cardinality(1 .. n) = IF 1 > n THEN 0 ELSE n - 1 + 1
    BY <1>1, FS_Interval, Zenon
  <1> QED BY <1>2

\* Buckets is the number of buckets.
LEMMA BucketsOf ==
    ASSUME NEW n \in Nat, NEW ix, DOMAIN ix = 0 .. n - 1
    PROVE  Buckets(ix) = n
  <1>1. Cardinality(0 .. n - 1) = n
    BY IntervalNumber
  <1> QED BY <1>1 DEF Buckets

\* Distance in terms of Away.
LEMMA DistanceIs ==
    ASSUME NEW n \in Nat \ {0}, NEW ix, DOMAIN ix = 0 .. n - 1, NEW es, NEW b
    PROVE  Distance(es, ix, b) = Away(n, es[ix[b] + 1].hash, b)
  <1>1. Buckets(ix) = n
    BY BucketsOf
  <1> QED BY <1>1, Zenon DEF Distance, distance_from_ideal, bucket_for_hash, Away

\* An index with more buckets than positions has an empty one.
LEMMA EmptyBucket ==
    ASSUME NEW n \in Nat, NEW ix, NEW e, NEW S, OneToOne(ix, n, e, S),
           IsFiniteSet(S), Cardinality(S) < n
    PROVE  \E b \in 0 .. n - 1 : ix[b] = e
  <1> SUFFICES ASSUME \A b \in 0 .. n - 1 : ix[b] # e
               PROVE  FALSE
    OBVIOUS
  <1>1. ix \in Injection(0 .. n - 1, S)
    BY DEF OneToOne, Injection, IsInjective
  <1>2. Cardinality(0 .. n - 1) <= Cardinality(S)
    BY <1>1, FS_Injection
  <1>3. Cardinality(0 .. n - 1) = n /\ Cardinality(S) \in Nat
    BY IntervalNumber, FS_CardinalityType
  <1> QED BY <1>2, <1>3

\* A position put into an empty bucket is referred to as well.
LEMMA PutOneToOne ==
    ASSUME NEW n \in Nat \ {0}, NEW ix, NEW e, NEW T, e \notin T, NEW i \in T,
           OneToOne(ix, n, e, T \ {i}), NEW c \in 0 .. n - 1, ix[c] = e
    PROVE  OneToOne([ix EXCEPT ![c] = i], n, e, T)
  <1> DEFINE jx == [ix EXCEPT ![c] = i]
  <1>1. ix \in [0 .. n - 1 -> (T \ {i}) \cup {e}]
    BY DEF OneToOne
  <1>2. jx \in [0 .. n - 1 -> T \cup {e}] /\ jx[c] = i /\ \A b \in 0 .. n - 1 : b # c => jx[b] = ix[b]
    BY <1>1
  <1> HIDE DEF jx
  <1>3. \A s \in T : \E b \in 0 .. n - 1 : jx[b] = s
    <2> SUFFICES ASSUME NEW s \in T, s # i
                 PROVE  \E b \in 0 .. n - 1 : jx[b] = s
      BY <1>2
    <2>1. PICK b \in 0 .. n - 1 : ix[b] = s
      BY DEF OneToOne
    <2> QED BY <1>2, <2>1
  <1>4. \A b, d \in 0 .. n - 1 : jx[b] = jx[d] /\ jx[b] # e => b = d
    BY <1>1, <1>2 DEF OneToOne
  <1> QED BY <1>2, <1>3, <1>4 DEF OneToOne, jx

\* A position put into the bucket of another takes its place.
LEMMA SwapOneToOne ==
    ASSUME NEW n \in Nat \ {0}, NEW ix, NEW e, NEW T, e \notin T, NEW i \in T,
           OneToOne(ix, n, e, T \ {i}), NEW c \in 0 .. n - 1, ix[c] # e
    PROVE  /\ OneToOne([ix EXCEPT ![c] = i], n, e, T \ {ix[c]})
           /\ ix[c] \in T /\ ix[c] # i
  <1> DEFINE jx == [ix EXCEPT ![c] = i]
             j == ix[c]
  <1>1. ix \in [0 .. n - 1 -> (T \ {i}) \cup {e}]
    BY DEF OneToOne
  <1>2. j \in T /\ j # i
    BY <1>1
  <1>3. \A b \in 0 .. n - 1 : b # c => ix[b] # j
    BY DEF OneToOne
  <1>4. jx \in [0 .. n - 1 -> (T \ {j}) \cup {e}] /\ jx[c] = i
        /\ \A b \in 0 .. n - 1 : b # c => jx[b] = ix[b]
    BY <1>1, <1>2, <1>3
  <1> HIDE DEF jx, j
  <1>5. \A s \in T \ {j} : \E b \in 0 .. n - 1 : jx[b] = s
    <2> SUFFICES ASSUME NEW s \in T, s # i, s # j
                 PROVE  \E b \in 0 .. n - 1 : jx[b] = s
      BY <1>4
    <2>1. PICK b \in 0 .. n - 1 : ix[b] = s
      BY DEF OneToOne
    <2>2. b # c
      BY <2>1 DEF j
    <2> QED BY <1>4, <2>1, <2>2
  <1>6. \A b, d \in 0 .. n - 1 : jx[b] = jx[d] /\ jx[b] # e => b = d
    BY <1>1, <1>4 DEF OneToOne
  <1> QED BY <1>2, <1>4, <1>5, <1>6 DEF OneToOne, jx, j

\* The distance of the entry in a bucket is less than the number of buckets.
LEMMA DistanceRange ==
    ASSUME NEW n \in Nat \ {0}, NEW T, NEW e, e \notin T, NEW ix \in [0 .. n - 1 -> T \cup {e}],
           NEW es, Hashed(es, T), NEW b \in 0 .. n - 1, ix[b] # e
    PROVE  /\ es[ix[b] + 1].hash \in Nat
           /\ Distance(es, ix, b) = Away(n, es[ix[b] + 1].hash, b)
           /\ Distance(es, ix, b) \in 0 .. n - 1
  <1>1. es[ix[b] + 1].hash \in Nat
    BY DEF Hashed
  <1>2. Distance(es, ix, b) = Away(n, es[ix[b] + 1].hash, b)
    <2>1. DOMAIN ix = 0 .. n - 1
      OBVIOUS
    <2> QED BY <2>1, DistanceIs
  <1>3. es[ix[b] + 1].hash \in Int
    BY <1>1
  <1>4. Away(n, es[ix[b] + 1].hash, b) \in 0 .. n - 1
    BY <1>3, AwayRange, Zenon
  <1> QED BY <1>1, <1>2, <1>4, Zenon

\* It depends on nothing but the hash and the bucket.
LEMMA DistanceSame ==
    ASSUME NEW n \in Nat \ {0}, NEW ix, DOMAIN ix = 0 .. n - 1, NEW jx, DOMAIN jx = 0 .. n - 1,
           NEW es, NEW fs, NEW b, es[ix[b] + 1].hash = fs[jx[b] + 1].hash
    PROVE  Distance(es, ix, b) = Distance(fs, jx, b)
  <1>1. Buckets(ix) = n /\ Buckets(jx) = n
    BY BucketsOf
  <1> QED BY <1>1, Zenon DEF Distance, distance_from_ideal, bucket_for_hash

\* The order before an entry, from its home on: every bucket is used, by an entry
\* that is no closer to its own home.
LEMMA ClusterBefore ==
    ASSUME NEW n \in Nat \ {0}, NEW T, NEW e, e \notin T, NEW ix \in [0 .. n - 1 -> T \cup {e}],
           NEW es, Hashed(es, T), RobinHood(es, ix, n, e),
           NEW h \in Nat, NEW d \in 0 .. n - 1,
           ix[From(n, h, d)] # e, Distance(es, ix, From(n, h, d)) >= d
    PROVE  \A a \in 0 .. d : ix[From(n, h, a)] # e /\ Distance(es, ix, From(n, h, a)) >= a
  <1> DEFINE G == {j \in 0 .. d : /\ ix[From(n, h, d - j)] # e
                                  /\ Distance(es, ix, From(n, h, d - j)) >= d - j}
  <1>1. 0 \in G
    <2>1. d - 0 = d /\ 0 \in 0 .. d
      OBVIOUS
    <2> QED BY <2>1
  <1>2. ASSUME NEW j \in 0 .. d - 1, j \in G
        PROVE  j + 1 \in G
    <2> DEFINE a == d - (j + 1)
    <2>1. d - j = a + 1 /\ a \in Nat /\ a \in Int /\ j + 1 \in 0 .. d
      OBVIOUS
    <2>2. ix[From(n, h, a + 1)] # e /\ Distance(es, ix, From(n, h, a + 1)) >= a + 1
      BY <1>2, <2>1
    <2> HIDE DEF a
    <2>3. From(n, h, a) \in 0 .. n - 1 /\ From(n, h, a + 1) = After(n, From(n, h, a))
          /\ From(n, h, a + 1) \in 0 .. n - 1
      <3>1. a + 1 \in Int /\ h \in Int
        BY <2>1
      <3> QED BY <2>1, <3>1, FromNext, Zenon
    <2> DEFINE b == From(n, h, a)
               c == From(n, h, a + 1)
    <2> HIDE DEF b, c
    <2>4. b \in 0 .. n - 1 /\ c = After(n, b) /\ c \in 0 .. n - 1
          /\ ix[c] # e /\ Distance(es, ix, c) >= a + 1
      BY <2>2, <2>3 DEF b, c
    <2>5. Distance(es, ix, c) \in 0 .. n - 1
      BY <2>4, DistanceRange
    <2>6. ix[b] # e /\ Distance(es, ix, b) >= Distance(es, ix, c) - 1
      <3>1. Distance(es, ix, c) > 0
        BY <2>1, <2>4, <2>5
      <3> QED BY <2>4, <3>1 DEF RobinHood
    <2>7. Distance(es, ix, b) \in 0 .. n - 1
      BY <2>4, <2>6, DistanceRange
    <2>8. Distance(es, ix, b) >= a
      BY <2>1, <2>4, <2>5, <2>6, <2>7
    <2> QED BY <2>1, <2>6, <2>8 DEF a, b
  <1> HIDE DEF G
  <1>3. \A j \in 0 .. d : j \in G
    BY <1>1, <1>2, UpTo
  <1>4. ASSUME NEW a \in 0 .. d
        PROVE  ix[From(n, h, a)] # e /\ Distance(es, ix, From(n, h, a)) >= a
    <2>1. d - a \in 0 .. d /\ d - (d - a) = a
      OBVIOUS
    <2>2. d - a \in G
      BY <1>3, <2>1
    <2> QED BY <2>1, <2>2 DEF G
  <1> QED BY <1>4

\* With an empty bucket no entry is displaced all the way round.
LEMMA NotAllTheWay ==
    ASSUME NEW n \in Nat \ {0}, NEW T, NEW e, e \notin T, NEW ix \in [0 .. n - 1 -> T \cup {e}],
           NEW es, Hashed(es, T), RobinHood(es, ix, n, e),
           \E b \in 0 .. n - 1 : ix[b] = e,
           NEW c \in 0 .. n - 1, ix[c] # e
    PROVE  Distance(es, ix, c) < n - 1
  <1>1. PICK b \in 0 .. n - 1 : ix[b] = e
    OBVIOUS
  <1>2. Distance(es, ix, c) \in 0 .. n - 1
    BY DistanceRange
  <1>3. ASSUME Distance(es, ix, c) = n - 1
        PROVE  FALSE
    <2> DEFINE h == es[ix[c] + 1].hash
    <2>1. h \in Nat /\ h \in Int /\ Away(n, h, c) = n - 1
      BY <1>3, DistanceRange
    <2> HIDE DEF h
    <2>2. From(n, h, n - 1) = c /\ n - 1 \in 0 .. n - 1
      <3>1. n - 1 \in 0 .. n - 1
        OBVIOUS
      <3> QED BY <2>1, <3>1, AwayRange, Zenon
    <2>3. \A a \in 0 .. n - 1 : ix[From(n, h, a)] # e
      <3>1. Distance(es, ix, From(n, h, n - 1)) >= n - 1
        BY <1>3, <2>2
      <3>2. ix[From(n, h, n - 1)] # e
        BY <2>2
      <3>3. \A a \in 0 .. n - 1 :
                ix[From(n, h, a)] # e /\ Distance(es, ix, From(n, h, a)) >= a
        BY <2>1, <2>2, <3>1, <3>2, ClusterBefore, Zenon
      <3> QED BY <3>3
    <2>4. Away(n, h, b) \in 0 .. n - 1 /\ From(n, h, Away(n, h, b)) = b
      BY <2>1, AwayRange, Zenon
    <2> QED BY <1>1, <2>3, <2>4
  <1> QED BY <1>2, <1>3

\* The three things that a turn of the loop in place does.
LEMMA PutKeepsOrder ==
    ASSUME NEW n \in Nat, n >= 2, NEW T, NEW e, e \notin T, NEW ix \in [0 .. n - 1 -> T \cup {e}],
           NEW es, Hashed(es, T), RobinHood(es, ix, n, e),
           NEW i \in T, NEW c \in 0 .. n - 1, NEW d, Fits(es, ix, n, e, i, c, d),
           ix[c] = e
    PROVE  RobinHood(es, [ix EXCEPT ![c] = i], n, e)
  <1> DEFINE jx == [ix EXCEPT ![c] = i]
  <1>1. n \in Nat \ {0}
    OBVIOUS
  <1>2. Distance(es, jx, c) = d /\ jx[c] = i
        /\ \A b \in 0 .. n - 1 : b # c => jx[b] = ix[b] /\ Distance(es, jx, b) = Distance(es, ix, b)
    <2>1. DOMAIN ix = 0 .. n - 1 /\ DOMAIN jx = 0 .. n - 1
      OBVIOUS
    <2>2. jx[c] = i /\ \A b \in 0 .. n - 1 : b # c => jx[b] = ix[b]
      OBVIOUS
    <2> HIDE DEF jx
    <2>3. Distance(es, jx, c) = Away(n, es[i + 1].hash, c)
      BY <1>1, <2>1, <2>2, DistanceIs
    <2>4. ASSUME NEW b \in 0 .. n - 1, b # c
          PROVE  Distance(es, ix, b) = Distance(es, jx, b)
      <3>1. es[ix[b] + 1].hash = es[jx[b] + 1].hash
        BY <2>2, <2>4
      <3> QED BY <1>1, <2>1, <3>1, DistanceSame
    <2>5. d = Away(n, es[i + 1].hash, c) /\ i # e
      BY DEF Fits
    <2> QED BY <2>2, <2>3, <2>4, <2>5, Zenon
  <1> HIDE DEF jx
  <1> SUFFICES ASSUME NEW b \in 0 .. n - 1,
                      jx[After(n, b)] # e, Distance(es, jx, After(n, b)) > 0
               PROVE  jx[b] # e /\ Distance(es, jx, b) >= Distance(es, jx, After(n, b)) - 1
    BY DEF RobinHood, jx
  <1> DEFINE x == After(n, b)
  <1>3. x \in 0 .. n - 1 /\ x # b
    BY <1>1, AfterCases
  <1>4. CASE x = c
    BY <1>2, <1>3, <1>4 DEF Fits
  <1>5. CASE x # c
    <2>1. ix[x] # e /\ Distance(es, ix, x) > 0
      BY <1>2, <1>3, <1>5
    <2>2. ix[b] # e /\ Distance(es, ix, b) >= Distance(es, ix, x) - 1
      BY <2>1 DEF RobinHood
    <2> QED BY <1>2, <1>3, <1>5, <2>2
  <1> QED BY <1>4, <1>5

LEMMA SwapKeepsOrder ==
    ASSUME NEW n \in Nat, n >= 2, NEW T, NEW e, e \notin T, NEW ix \in [0 .. n - 1 -> T \cup {e}],
           NEW es, Hashed(es, T), RobinHood(es, ix, n, e),
           NEW i \in T, NEW c \in 0 .. n - 1, NEW d, Fits(es, ix, n, e, i, c, d),
           ix[c] # e, Distance(es, ix, c) < d
    PROVE  /\ RobinHood(es, [ix EXCEPT ![c] = i], n, e)
           /\ Fits(es, [ix EXCEPT ![c] = i], n, e, ix[c], After(n, c), Distance(es, ix, c) + 1)
  <1> DEFINE jx == [ix EXCEPT ![c] = i]
  <1>1. n \in Nat \ {0}
    OBVIOUS
  <1>2. Distance(es, jx, c) = d /\ jx[c] = i /\ i # e
        /\ \A b \in 0 .. n - 1 : b # c => jx[b] = ix[b] /\ Distance(es, jx, b) = Distance(es, ix, b)
    <2>1. DOMAIN ix = 0 .. n - 1 /\ DOMAIN jx = 0 .. n - 1
      OBVIOUS
    <2>2. jx[c] = i /\ \A b \in 0 .. n - 1 : b # c => jx[b] = ix[b]
      OBVIOUS
    <2> HIDE DEF jx
    <2>3. Distance(es, jx, c) = Away(n, es[i + 1].hash, c)
      BY <1>1, <2>1, <2>2, DistanceIs
    <2>4. ASSUME NEW b \in 0 .. n - 1, b # c
          PROVE  Distance(es, ix, b) = Distance(es, jx, b)
      <3>1. es[ix[b] + 1].hash = es[jx[b] + 1].hash
        BY <2>2, <2>4
      <3> QED BY <1>1, <2>1, <3>1, DistanceSame
    <2>5. d = Away(n, es[i + 1].hash, c) /\ i # e
      BY DEF Fits
    <2> QED BY <2>2, <2>3, <2>4, <2>5, Zenon
  <1> HIDE DEF jx
  <1>3. d \in 0 .. n - 1
    <2>1. es[i + 1].hash \in Int
      BY DEF Hashed
    <2> QED BY <1>1, <2>1, AwayRange DEF Fits
  <1>4. es[ix[c] + 1].hash \in Int /\ Distance(es, ix, c) = Away(n, es[ix[c] + 1].hash, c)
        /\ Distance(es, ix, c) \in 0 .. n - 1
    BY <1>1, DistanceRange
  <1>5. RobinHood(es, jx, n, e)
    <2> SUFFICES ASSUME NEW b \in 0 .. n - 1,
                        jx[After(n, b)] # e, Distance(es, jx, After(n, b)) > 0
                 PROVE  jx[b] # e /\ Distance(es, jx, b) >= Distance(es, jx, After(n, b)) - 1
      BY DEF RobinHood
    <2> DEFINE x == After(n, b)
    <2>1. x \in 0 .. n - 1 /\ x # b
      <3>1. x \in 0 .. n - 1 /\ x = IF b = n - 1 THEN 0 ELSE b + 1
        BY <1>1, AfterCases, Zenon
      <3> QED BY <3>1
    <2>2. CASE x = c
      BY <1>2, <2>1, <2>2 DEF Fits
    <2>3. CASE x # c
      <3>1. ix[x] # e /\ Distance(es, ix, x) > 0
        BY <1>2, <2>1, <2>3
      <3>2. ix[b] # e /\ Distance(es, ix, b) >= Distance(es, ix, x) - 1
        BY <3>1 DEF RobinHood
      <3>3. Distance(es, ix, x) \in 0 .. n - 1
        BY <1>1, <2>1, <3>1, DistanceRange
      <3>4. CASE b = c
        BY <1>2, <1>3, <1>4, <2>1, <2>3, <3>2, <3>3, <3>4
      <3>5. CASE b # c
        BY <1>2, <2>1, <2>3, <3>2, <3>5
      <3> QED BY <3>4, <3>5
    <2> QED BY <2>2, <2>3
  <1>6. Distance(es, ix, c) + 1 = Away(n, es[ix[c] + 1].hash, After(n, c))
    <2> DEFINE h == es[ix[c] + 1].hash
    <2>1. Away(n, h, After(n, c)) = IF Away(n, h, c) = n - 1 THEN 0 ELSE Away(n, h, c) + 1
      <3> HIDE DEF h
      <3> QED BY <1>1, <1>4, AwayNext DEF h
    <2>2. Away(n, h, c) # n - 1
      BY <1>3, <1>4
    <2> QED BY <1>4, <2>1, <2>2
  <1>7. ASSUME NEW b \in 0 .. n - 1, After(n, b) = After(n, c)
        PROVE  jx[b] # e /\ Distance(es, jx, b) >= (Distance(es, ix, c) + 1) - 1
    <2>1. b = c
      BY <1>1, <1>7, AfterOneToOne
    <2> QED BY <1>2, <1>3, <1>4, <2>1
  <1>8. Fits(es, jx, n, e, ix[c], After(n, c), Distance(es, ix, c) + 1)
    BY <1>6, <1>7 DEF Fits
  <1> QED BY <1>5, <1>8 DEF jx

LEMMA PassFits ==
    ASSUME NEW n \in Nat, n >= 2, NEW T, NEW e, e \notin T, NEW ix \in [0 .. n - 1 -> T \cup {e}],
           NEW es, Hashed(es, T), RobinHood(es, ix, n, e),
           \E b \in 0 .. n - 1 : ix[b] = e,
           NEW i \in T, NEW c \in 0 .. n - 1, NEW d, Fits(es, ix, n, e, i, c, d),
           ix[c] # e, ~(Distance(es, ix, c) < d)
    PROVE  Fits(es, ix, n, e, i, After(n, c), d + 1)
  <1>1. n \in Nat \ {0}
    OBVIOUS
  <1>2. es[i + 1].hash \in Int /\ d = Away(n, es[i + 1].hash, c)
    BY DEF Hashed, Fits
  <1>3. d \in 0 .. n - 1
    BY <1>1, <1>2, AwayRange
  <1>4. Distance(es, ix, c) < n - 1 /\ Distance(es, ix, c) \in 0 .. n - 1
    BY <1>1, NotAllTheWay, DistanceRange
  <1>5. d # n - 1
    BY <1>3, <1>4
  <1>6. d + 1 = Away(n, es[i + 1].hash, After(n, c))
    <2> DEFINE h == es[i + 1].hash
    <2>1. Away(n, h, After(n, c)) = IF Away(n, h, c) = n - 1 THEN 0 ELSE Away(n, h, c) + 1
      <3> HIDE DEF h
      <3> QED BY <1>1, <1>2, AwayNext DEF h
    <2> QED BY <1>2, <1>5, <2>1
  <1>7. ASSUME NEW b \in 0 .. n - 1, After(n, b) = After(n, c)
        PROVE  ix[b] # e /\ Distance(es, ix, b) >= (d + 1) - 1
    <2>1. b = c
      BY <1>1, <1>7, AfterOneToOne
    <2> QED BY <1>3, <1>4, <2>1
  <1> QED BY <1>6, <1>7 DEF Fits

\* The states of the loop in place after each turn. The recursive function exists.
Turns(g, n, s0, es, e, b) ==
    g = [k \in 0 .. n |-> IF k = 0 THEN s0
                          ELSE displace(es, e, g[k - 1], (b + k - 1) % n)]

\* The states of the loop exist for every index and every position.
LEMMA TurnsExist ==
    ASSUME NEW n \in Nat, NEW s0, NEW es, NEW e, NEW b
    PROVE  \E g : Turns(g, n, s0, es, e, b)
  <1> DEFINE D(x, k) == displace(es, e, x, (b + k - 1) % n)
             G == {m \in 0 .. n :
                    \E g : g = [k \in 0 .. m |-> IF k = 0 THEN s0 ELSE D(g[k - 1], k)]}
  <1>1. 0 \in G
    <2> DEFINE g == [k \in 0 .. 0 |-> s0]
    <2>1. g = [k \in 0 .. 0 |-> IF k = 0 THEN s0 ELSE D(g[k - 1], k)]
      <3> HIDE DEF D
      <3> QED OBVIOUS
    <2>2. 0 \in 0 .. n
      OBVIOUS
    <2> QED BY <2>1, <2>2
  <1>2. ASSUME NEW m \in 0 .. n - 1, m \in G
        PROVE  m + 1 \in G
    <2>1. PICK g : g = [k \in 0 .. m |-> IF k = 0 THEN s0 ELSE D(g[k - 1], k)]
      BY <1>2
    <2> DEFINE f == [k \in 0 .. m + 1 |-> IF k = m + 1 THEN D(g[m], m + 1) ELSE g[k]]
    <2> HIDE DEF D
    <2>2. ASSUME NEW k \in 0 .. m + 1
          PROVE  f[k] = IF k = 0 THEN s0 ELSE D(f[k - 1], k)
      <3>1. CASE k = m + 1
        <4>1. f[k] = D(g[m], m + 1) /\ k # 0 /\ k - 1 = m /\ f[k - 1] = g[m]
          BY <3>1
        <4> QED BY <3>1, <4>1
      <3>2. CASE k # m + 1
        <4>1. f[k] = g[k] /\ k \in 0 .. m
          BY <3>2
        <4>2. g[k] = IF k = 0 THEN s0 ELSE D(g[k - 1], k)
          BY <2>1, <4>1
        <4>3. k # 0 => f[k - 1] = g[k - 1]
          BY <3>2, <4>1
        <4> QED BY <4>1, <4>2, <4>3
      <3> QED BY <3>1, <3>2
    <2>3. f = [k \in 0 .. m + 1 |-> IF k = 0 THEN s0 ELSE D(f[k - 1], k)]
      <3> DEFINE r == [k \in 0 .. m + 1 |-> IF k = 0 THEN s0 ELSE D(f[k - 1], k)]
      <3>1. \A k \in 0 .. m + 1 : f[k] = r[k]
        BY <2>2
      <3>2. f = [k \in 0 .. m + 1 |-> f[k]] /\ r = [k \in 0 .. m + 1 |-> r[k]]
        OBVIOUS
      <3> HIDE DEF f, r
      <3>3. f = r
        BY <3>1, <3>2
      <3> QED BY <3>3 DEF r
    <2>4. m + 1 \in 0 .. n
      OBVIOUS
    <2> QED BY <2>3, <2>4
  <1> HIDE DEF G
  <1>3. \A k \in 0 .. n : k \in G
    BY <1>1, <1>2, UpTo
  <1>4. n \in G
    BY <1>3
  <1> QED BY <1>4 DEF G, Turns

\* What is known of the loop after k turns.
Turn(es, ix, n, e, T, b, k, s, ordered) ==
    /\ s = [ix |-> s.ix, i |-> s.i, d |-> s.d, done |-> s.done]
    /\ s.done \in BOOLEAN
    /\ s.done =>
        /\ OneToOne(s.ix, n, e, T)
        /\ ordered => RobinHood(es, s.ix, n, e)
    /\ ~s.done =>
        /\ s.i \in T
        /\ OneToOne(s.ix, n, e, T \ {s.i})
        /\ \A c \in 0 .. n - 1 : s.ix[c] = e <=> ix[c] = e
        /\ \A j \in 0 .. k - 1 : ix[From(n, b, j)] # e
        /\ ordered => /\ RobinHood(es, s.ix, n, e)
                      /\ Fits(es, s.ix, n, e, s.i, From(n, b, k), s.d)

\* A turn of the loop keeps what is known of it, whichever of its branches it takes.
LEMMA OneTurn ==
    ASSUME NEW n \in Nat, n >= 2, NEW T, NEW e, e \notin T, NEW es, Hashed(es, T),
           NEW ix, \E c \in 0 .. n - 1 : ix[c] = e,
           NEW b \in 0 .. n - 1, NEW ordered \in BOOLEAN,
           NEW k \in Nat, NEW s, Turn(es, ix, n, e, T, b, k, s, ordered)
    PROVE  Turn(es, ix, n, e, T, b, k + 1, displace(es, e, s, From(n, b, k)), ordered)
  <1> DEFINE c == From(n, b, k)
             t == displace(es, e, s, c)
  <1>1. n \in Nat \ {0} /\ b \in Int /\ k \in Int
    OBVIOUS
  <1>2. c \in 0 .. n - 1 /\ From(n, b, k + 1) = After(n, c)
    BY <1>1, FromNext, Zenon
  <1>3. CASE s.done
    <2>1. t = s
      BY <1>3 DEF displace
    <2> QED BY <1>3, <2>1 DEF Turn
  <1>4. CASE ~s.done
    <2>1. s = [ix |-> s.ix, i |-> s.i, d |-> s.d, done |-> s.done] /\ s.done = FALSE
      BY <1>4 DEF Turn
    <2> DEFINE jx == s.ix
               i == s.i
               d == s.d
    <2>2. i \in T /\ OneToOne(jx, n, e, T \ {i})
          /\ (\A x \in 0 .. n - 1 : jx[x] = e <=> ix[x] = e)
          /\ (\A j \in 0 .. k - 1 : ix[From(n, b, j)] # e)
          /\ (ordered => RobinHood(es, jx, n, e) /\ Fits(es, jx, n, e, i, c, d))
      BY <1>4 DEF Turn
    <2>3. \E x \in 0 .. n - 1 : jx[x] = e
      BY <2>2
    <2>4. jx \in [0 .. n - 1 -> T \cup {e}]
      BY <2>2 DEF OneToOne
    <2> HIDE DEF c
    <2>5. CASE jx[c] = e
      <3>1. t = [ix |-> [jx EXCEPT ![c] = i], i |-> i, d |-> d, done |-> TRUE]
        BY <2>1, <2>5 DEF displace
      <3> DEFINE kx == [jx EXCEPT ![c] = i]
      <3> HIDE DEF t, jx, i, d
      <3>2. OneToOne(kx, n, e, T)
        BY <1>1, <1>2, <2>2, <2>5, PutOneToOne, Zenon
      <3>3. ordered => RobinHood(es, kx, n, e)
        BY <1>2, <2>2, <2>4, <2>5, PutKeepsOrder, Zenon
      <3> HIDE DEF kx
      <3>4. t = [ix |-> kx, i |-> i, d |-> d, done |-> TRUE]
        BY <3>1 DEF kx
      <3>5. Turn(es, ix, n, e, T, b, k + 1, t, ordered)
        BY <3>2, <3>3, <3>4 DEF Turn
      <3> QED BY <3>5 DEF t, c
    <2>6. CASE jx[c] # e /\ Distance(es, jx, c) < d
      <3>1. t = [ix |-> [jx EXCEPT ![c] = i], i |-> jx[c], d |-> Distance(es, jx, c) + 1,
                 done |-> FALSE]
        BY <2>1, <2>6 DEF displace
      <3> DEFINE kx == [jx EXCEPT ![c] = i]
                 j == jx[c]
                 a == Distance(es, jx, c) + 1
      <3> HIDE DEF t, jx, i, d
      <3>2. OneToOne(kx, n, e, T \ {j}) /\ j \in T /\ j # i
        <4>1. jx[c] # e
          BY <2>6
        <4>2. OneToOne([jx EXCEPT ![c] = i], n, e, T \ {jx[c]})
          BY <1>1, <1>2, <2>2, <4>1, SwapOneToOne, Zenon
        <4>3. jx[c] \in T /\ jx[c] # i
          BY <1>2, <2>2, <4>1 DEF OneToOne
        <4> QED BY <4>2, <4>3
      <3>3. ordered => RobinHood(es, kx, n, e) /\ Fits(es, kx, n, e, j, After(n, c), a)
        BY <1>2, <2>2, <2>4, <2>6, SwapKeepsOrder, Zenon
      <3>4. kx[c] # e /\ \A x \in 0 .. n - 1 : x # c => kx[x] = jx[x]
        BY <1>2, <2>2, <2>4
      <3>5. t = [ix |-> kx, i |-> j, d |-> a, done |-> FALSE]
        BY <3>1
      <3> HIDE DEF kx, j, a
      <3>6. \A x \in 0 .. n - 1 : kx[x] = e <=> ix[x] = e
        BY <2>2, <2>6, <3>4
      <3>7. \A y \in 0 .. (k + 1) - 1 : ix[From(n, b, y)] # e
        <4>1. \A y \in 0 .. (k + 1) - 1 : y \in 0 .. k - 1 \/ y = k
          OBVIOUS
        <4>2. ix[c] # e
          BY <1>2, <2>2, <2>6
        <4> QED BY <2>2, <4>1, <4>2 DEF c
      <3>8. Turn(es, ix, n, e, T, b, k + 1, t, ordered)
        BY <1>2, <3>2, <3>3, <3>5, <3>6, <3>7 DEF Turn
      <3> QED BY <3>8 DEF t, c
    <2>7. CASE jx[c] # e /\ ~(Distance(es, jx, c) < d)
      <3>1. t = [ix |-> jx, i |-> i, d |-> d + 1, done |-> FALSE]
        BY <2>1, <2>7 DEF displace
      <3> HIDE DEF t, jx, i, d
      <3>2. ordered => Fits(es, jx, n, e, i, After(n, c), d + 1)
        BY <1>2, <2>2, <2>3, <2>4, <2>7, PassFits, Zenon
      <3>3. \A y \in 0 .. (k + 1) - 1 : ix[From(n, b, y)] # e
        <4>1. \A y \in 0 .. (k + 1) - 1 : y \in 0 .. k - 1 \/ y = k
          OBVIOUS
        <4>2. ix[c] # e
          BY <1>2, <2>2, <2>7
        <4> QED BY <2>2, <4>1, <4>2 DEF c
      <3>4. Turn(es, ix, n, e, T, b, k + 1, t, ordered)
        BY <1>2, <2>2, <3>1, <3>2, <3>3 DEF Turn
      <3> QED BY <3>4 DEF t, c
    <2> QED BY <2>5, <2>6, <2>7
  <1> QED BY <1>3, <1>4 DEF Turn

\* Putting a position into an index with an empty bucket adds it, wherever the
\* loop begins, and keeps the order if it begins where the position fits.
LEMMA Place ==
    ASSUME NEW n \in Nat, n >= 2, NEW T, NEW e, e \notin T, NEW es, Hashed(es, T),
           NEW i \in T, NEW ix, OneToOne(ix, n, e, T \ {i}),
           \E c \in 0 .. n - 1 : ix[c] = e,
           NEW b \in 0 .. n - 1, NEW d
    PROVE  /\ OneToOne(place(es, ix, e, i, b, d), n, e, T)
           /\ RobinHood(es, ix, n, e) /\ Fits(es, ix, n, e, i, b, d) =>
                RobinHood(es, place(es, ix, e, i, b, d), n, e)
  <1> DEFINE s0 == [ix |-> ix, i |-> i, d |-> d, done |-> FALSE]
             after == CHOOSE g : Turns(g, n, s0, es, e, b)
             ordered == RobinHood(es, ix, n, e) /\ Fits(es, ix, n, e, i, b, d)
             G == {k \in 0 .. n : Turn(es, ix, n, e, T, b, k, after[k], ordered)}
  <1>1. n \in Nat \ {0} /\ DOMAIN ix = 0 .. n - 1
    BY DEF OneToOne
  <1>2. Buckets(ix) = n
    BY <1>1, BucketsOf
  <1>3. place(es, ix, e, i, b, d) = after[n].ix
    BY <1>2, Zenon DEF place, Turns
  <1>4. after = [k \in 0 .. n |->
                    IF k = 0 THEN s0 ELSE displace(es, e, after[k - 1], (b + k - 1) % n)]
    <2> HIDE DEF s0
    <2>1. \E g : Turns(g, n, s0, es, e, b)
      BY TurnsExist, Zenon
    <2>2. Turns(after, n, s0, es, e, b)
      BY <2>1, Zenon
    <2> QED BY <2>2, Zenon DEF Turns
  <1> HIDE DEF after
  <1>5. ordered \in BOOLEAN
    <2>1. RobinHood(es, ix, n, e) \in BOOLEAN /\ Fits(es, ix, n, e, i, b, d) \in BOOLEAN
      BY DEF RobinHood, Fits
    <2> QED BY <2>1
  <1>6. 0 \in G
    <2>1. after[0] = s0
      BY <1>4
    <2>2. From(n, b, 0) = b
      <3>1. b + 0 = b /\ b % n = b
        BY ModCases
      <3> QED BY <3>1 DEF From
    <2>3. 0 .. 0 - 1 = {}
      OBVIOUS
    <2>4. Turn(es, ix, n, e, T, b, 0, s0, ordered)
      BY <2>2, <2>3 DEF Turn
    <2> QED BY <2>1, <2>4
  <1>7. ASSUME NEW k \in 0 .. n - 1, k \in G
        PROVE  k + 1 \in G
    <2>1. k \in Nat /\ k + 1 \in 0 .. n /\ k + 1 # 0 /\ (k + 1) - 1 = k /\ b + (k + 1) - 1 = b + k
      OBVIOUS
    <2>2. after[k + 1] = displace(es, e, after[k], (b + k) % n)
      <3>1. after[k + 1] = displace(es, e, after[(k + 1) - 1], (b + (k + 1) - 1) % n)
        BY <1>4, <2>1, Zenon
      <3> QED BY <2>1, <3>1, Zenon
    <2>3. Turn(es, ix, n, e, T, b, k, after[k], ordered)
      BY <1>7
    <2> HIDE DEF ordered
    <2>4. Turn(es, ix, n, e, T, b, k + 1, displace(es, e, after[k], From(n, b, k)), ordered)
      BY <1>5, <2>1, <2>3, OneTurn, Zenon
    <2> QED BY <2>1, <2>2, <2>4 DEF From
  <1> HIDE DEF G
  <1>8. \A k \in 0 .. n : k \in G
    BY <1>6, <1>7, UpTo
  <1>9. Turn(es, ix, n, e, T, b, n, after[n], ordered)
    BY <1>8, n \in 0 .. n DEF G
  <1>10. after[n].done
    <2> SUFFICES ASSUME ~after[n].done
                 PROVE  FALSE
      OBVIOUS
    <2>1. \A j \in 0 .. n - 1 : ix[From(n, b, j)] # e
      BY <1>9 DEF Turn
    <2>2. PICK c \in 0 .. n - 1 : ix[c] = e
      OBVIOUS
    <2>3. b \in Int
      OBVIOUS
    <2>4. Away(n, b, c) \in 0 .. n - 1 /\ From(n, b, Away(n, b, c)) = c
      BY <1>1, <2>3, AwayRange, Zenon
    <2> QED BY <2>1, <2>2, <2>4
  <1>11. OneToOne(after[n].ix, n, e, T) /\ (ordered => RobinHood(es, after[n].ix, n, e))
    <2> HIDE DEF ordered
    <2> QED BY <1>9, <1>10 DEF Turn
  <1> QED BY <1>3, <1>11

-----------------------------------------------------------------------------
(* Sequences without some of their elements. *)

\* f counts the positions in at, in ascending order.
Counts(f, n, at) ==
    /\ f \in [1 .. n -> at]
    /\ \A i, j \in 1 .. n : i < j => f[i] < f[j]
    /\ \A p \in at : \E i \in 1 .. n : f[i] = p

\* r has the elements of s at the positions in at, in order.
Lists(r, s, at) ==
    \E f : Counts(f, Len(r), at) /\ r = [i \in 1 .. Len(r) |-> s[f[i]]]

\* A set that is counted up to n is finite and has n elements.
LEMMA CountsNumber ==
    ASSUME NEW n \in Nat, NEW at \in SUBSET Nat, NEW f, Counts(f, n, at)
    PROVE  /\ IsFiniteSet(at) /\ Cardinality(at) = n
           /\ \A i, j \in 1 .. n : f[i] = f[j] => i = j
  <1>1. \A i, j \in 1 .. n : f[i] = f[j] => i = j
    <2> SUFFICES ASSUME NEW i \in 1 .. n, NEW j \in 1 .. n, f[i] = f[j], i # j
                 PROVE  FALSE
      OBVIOUS
    <2>1. i < j \/ j < i
      OBVIOUS
    <2>2. f[i] \in Nat /\ f[j] \in Nat
      BY DEF Counts
    <2>3. f[i] < f[j] \/ f[j] < f[i]
      BY <2>1 DEF Counts
    <2> QED BY <2>2, <2>3
  <1>2. f \in Bijection(1 .. n, at)
    BY <1>1 DEF Counts, Bijection, Injection, Surjection, IsInjective
  <1>3. ExistsBijection(1 .. n, at)
    BY <1>2 DEF ExistsBijection
  <1>4. Cardinality(at) = n
    BY <1>3, FS_CountingElements
  <1>5. IsFiniteSet(1 .. n)
    BY PositionNumber
  <1>6. IsFiniteSet(at)
    BY <1>3, <1>5, FS_Bijection
  <1> QED BY <1>1, <1>4, <1>6

\* A set can be counted in ascending order in one way only,
LEMMA CountsUnique ==
    ASSUME NEW n \in Nat, NEW at \in SUBSET Nat, NEW f, NEW g,
           Counts(f, n, at), Counts(g, n, at)
    PROVE  f = g
  <1> DEFINE G == {k \in 0 .. n : \A j \in 1 .. k : f[j] = g[j]}
  <1>1. 0 \in G
    OBVIOUS
  <1>2. ASSUME NEW k \in 0 .. n - 1, k \in G
        PROVE  k + 1 \in G
    <2>1. \A j \in 1 .. k : f[j] = g[j]
      BY <1>2
    <2>2. k + 1 \in 1 .. n /\ f[k + 1] \in at /\ g[k + 1] \in at
          /\ f[k + 1] \in Nat /\ g[k + 1] \in Nat
      <3>1. k + 1 \in 1 .. n
        OBVIOUS
      <3>2. f[k + 1] \in at /\ g[k + 1] \in at
        BY <3>1 DEF Counts
      <3> QED BY <3>1, <3>2
    <2>3. ASSUME f[k + 1] < g[k + 1]
          PROVE  FALSE
      <3>1. PICK i \in 1 .. n : g[i] = f[k + 1]
        BY <2>2 DEF Counts
      <3>2. i \in 1 .. k
        <4>1. ~(k + 1 < i)
          <5> SUFFICES ASSUME k + 1 < i
                       PROVE  FALSE
            OBVIOUS
          <5>1. g[k + 1] < g[i]
            BY <2>2 DEF Counts
          <5> QED BY <2>2, <2>3, <3>1, <5>1
        <4>2. i # k + 1
          BY <2>2, <2>3, <3>1
        <4> QED BY <4>1, <4>2
      <3>3. f[i] = f[k + 1] /\ i < k + 1
        BY <2>1, <3>1, <3>2
      <3>4. f[i] < f[k + 1]
        BY <2>2, <3>3 DEF Counts
      <3> QED BY <2>2, <3>3, <3>4
    <2>4. ASSUME g[k + 1] < f[k + 1]
          PROVE  FALSE
      <3>1. PICK i \in 1 .. n : f[i] = g[k + 1]
        BY <2>2 DEF Counts
      <3>2. i \in 1 .. k
        <4>1. ~(k + 1 < i)
          <5> SUFFICES ASSUME k + 1 < i
                       PROVE  FALSE
            OBVIOUS
          <5>1. f[k + 1] < f[i]
            BY <2>2 DEF Counts
          <5> QED BY <2>2, <2>4, <3>1, <5>1
        <4>2. i # k + 1
          BY <2>2, <2>4, <3>1
        <4> QED BY <4>1, <4>2
      <3>3. g[i] = g[k + 1] /\ i < k + 1
        BY <2>1, <3>1, <3>2
      <3>4. g[i] < g[k + 1]
        BY <2>2, <3>3 DEF Counts
      <3> QED BY <2>2, <3>3, <3>4
    <2>5. f[k + 1] = g[k + 1]
      BY <2>2, <2>3, <2>4
    <2>6. \A j \in 1 .. k + 1 : f[j] = g[j]
      <3>1. \A j \in 1 .. k + 1 : j \in 1 .. k \/ j = k + 1
        OBVIOUS
      <3> QED BY <2>1, <2>5, <3>1
    <2> QED BY <2>6
  <1> HIDE DEF G
  <1>3. \A k \in 0 .. n : k \in G
    BY <1>1, <1>2, UpTo
  <1>4. n \in G
    BY <1>3
  <1>5. \A j \in 1 .. n : f[j] = g[j]
    BY <1>4 DEF G
  <1> QED BY <1>5 DEF Counts

\* so the elements at given positions are listed in one way only.
LEMMA ListsUnique ==
    ASSUME NEW at \in SUBSET Nat, NEW s, NEW r, NEW q, Len(r) \in Nat, Len(q) \in Nat,
           Lists(r, s, at), Lists(q, s, at)
    PROVE  r = q
  <1>1. PICK f : Counts(f, Len(r), at) /\ r = [i \in 1 .. Len(r) |-> s[f[i]]]
    BY DEF Lists
  <1>2. PICK g : Counts(g, Len(q), at) /\ q = [i \in 1 .. Len(q) |-> s[g[i]]]
    BY DEF Lists
  <1>3. Len(r) = Len(q)
    <2>1. Cardinality(at) = Len(r)
      BY <1>1, CountsNumber
    <2>2. Cardinality(at) = Len(q)
      BY <1>2, CountsNumber
    <2> QED BY <2>1, <2>2
  <1>4. f = g
    BY <1>1, <1>2, <1>3, CountsUnique
  <1> QED BY <1>1, <1>2, <1>3, <1>4, Zenon

\* The recursive function in Only.
Copies(g, s, at) ==
    g = [n \in 0 .. Len(s) |->
            IF n = 0 THEN <<>> ELSE IF n \in at THEN Append(g[n - 1], s[n]) ELSE g[n - 1]]

\* The partial copies exist for every sequence.
LEMMA CopiesExist ==
    ASSUME NEW E, NEW s \in Seq(E), NEW at
    PROVE  \E g : Copies(g, s, at)
  <1> DEFINE D(x, k) == IF k \in at THEN Append(x, s[k]) ELSE x
             G == {m \in 0 .. Len(s) :
                    \E g : g = [k \in 0 .. m |-> IF k = 0 THEN <<>> ELSE D(g[k - 1], k)]}
  <1>0. Len(s) \in Nat
    OBVIOUS
  <1>1. 0 \in G
    <2> DEFINE g == [k \in 0 .. 0 |-> <<>>]
    <2>1. g = [k \in 0 .. 0 |-> IF k = 0 THEN <<>> ELSE D(g[k - 1], k)]
      <3> HIDE DEF D
      <3> QED OBVIOUS
    <2>2. 0 \in 0 .. Len(s)
      BY <1>0
    <2> QED BY <2>1, <2>2
  <1>2. ASSUME NEW m \in 0 .. Len(s) - 1, m \in G
        PROVE  m + 1 \in G
    <2>1. PICK g : g = [k \in 0 .. m |-> IF k = 0 THEN <<>> ELSE D(g[k - 1], k)]
      BY <1>2
    <2> DEFINE f == [k \in 0 .. m + 1 |-> IF k = m + 1 THEN D(g[m], m + 1) ELSE g[k]]
    <2> HIDE DEF D
    <2>2. ASSUME NEW k \in 0 .. m + 1
          PROVE  f[k] = IF k = 0 THEN <<>> ELSE D(f[k - 1], k)
      <3>1. CASE k = m + 1
        <4>1. f[k] = D(g[m], m + 1) /\ k # 0 /\ k - 1 = m /\ f[k - 1] = g[m]
          BY <1>0, <3>1
        <4> QED BY <3>1, <4>1
      <3>2. CASE k # m + 1
        <4>1. f[k] = g[k] /\ k \in 0 .. m
          BY <1>0, <3>2
        <4>2. g[k] = IF k = 0 THEN <<>> ELSE D(g[k - 1], k)
          BY <2>1, <4>1
        <4>3. k # 0 => f[k - 1] = g[k - 1]
          BY <1>0, <3>2, <4>1
        <4> QED BY <4>1, <4>2, <4>3
      <3> QED BY <3>1, <3>2
    <2>3. f = [k \in 0 .. m + 1 |-> IF k = 0 THEN <<>> ELSE D(f[k - 1], k)]
      <3> DEFINE r == [k \in 0 .. m + 1 |-> IF k = 0 THEN <<>> ELSE D(f[k - 1], k)]
      <3>1. \A k \in 0 .. m + 1 : f[k] = r[k]
        BY <2>2
      <3>2. f = [k \in 0 .. m + 1 |-> f[k]] /\ r = [k \in 0 .. m + 1 |-> r[k]]
        OBVIOUS
      <3> HIDE DEF f, r
      <3>3. f = r
        BY <3>1, <3>2
      <3> QED BY <3>3 DEF r
    <2>4. m + 1 \in 0 .. Len(s)
      BY <1>0
    <2> QED BY <2>3, <2>4
  <1> HIDE DEF G
  <1>3. \A k \in 0 .. Len(s) : k \in G
    BY <1>0, <1>1, <1>2, UpTo
  <1>4. Len(s) \in G
    BY <1>0, <1>3
  <1> QED BY <1>4 DEF G, Copies

\* One more element.
LEMMA ListsAppend ==
    ASSUME NEW E, NEW r \in Seq(E), NEW s, NEW at \in SUBSET Nat, NEW m \in Nat,
           Lists(r, s, at), \A p \in at : p < m, NEW x \in E, x = s[m]
    PROVE  Lists(Append(r, x), s, at \cup {m})
  <1>1. PICK f : Counts(f, Len(r), at) /\ r = [i \in 1 .. Len(r) |-> s[f[i]]]
    BY DEF Lists
  <1> DEFINE n == Len(r)
             g == [i \in 1 .. n + 1 |-> IF i = n + 1 THEN m ELSE f[i]]
             a == Append(r, x)
  <1>2. n \in Nat /\ Len(a) = n + 1 /\ a = [i \in 1 .. n + 1 |-> IF i = n + 1 THEN x ELSE r[i]]
    OBVIOUS
  <1>3. f \in [1 .. n -> at] /\ (\A i, j \in 1 .. n : i < j => f[i] < f[j])
        /\ \A p \in at : \E i \in 1 .. n : f[i] = p
    BY <1>1 DEF Counts
  <1>4. \A i \in 1 .. n : r[i] = s[f[i]]
    BY <1>1
  <1> HIDE DEF n, a
  <1>5. g \in [1 .. n + 1 -> at \cup {m}]
    BY <1>2, <1>3
  <1>6. g[n + 1] = m /\ \A i \in 1 .. n : g[i] = f[i]
    BY <1>2
  <1>7. \A i \in 1 .. n + 1 : i \in 1 .. n \/ i = n + 1
    BY <1>2
  <1>8. \A i \in 1 .. n : i \in 1 .. n + 1
    BY <1>2
  <1> HIDE DEF g
  <1>9. ASSUME NEW i \in 1 .. n + 1, NEW j \in 1 .. n + 1, i < j
        PROVE  g[i] < g[j]
    <2>1. i \in 1 .. n
      BY <1>2, <1>9
    <2>2. CASE j \in 1 .. n
      BY <1>3, <1>6, <1>9, <2>1, <2>2
    <2>3. CASE j = n + 1
      BY <1>3, <1>6, <2>1, <2>3
    <2> QED BY <1>7, <2>2, <2>3
  <1>10. ASSUME NEW p \in at \cup {m}
         PROVE  \E i \in 1 .. n + 1 : g[i] = p
    <2>1. n + 1 \in 1 .. n + 1
      BY <1>2
    <2>2. CASE p = m
      BY <1>6, <2>1, <2>2
    <2>3. CASE p # m
      <3>1. PICK i \in 1 .. n : f[i] = p
        BY <1>3, <2>3
      <3> QED BY <1>6, <1>8, <3>1
    <2> QED BY <2>2, <2>3
  <1>11. Counts(g, n + 1, at \cup {m})
    BY <1>5, <1>9, <1>10 DEF Counts
  <1>12. a = [i \in 1 .. n + 1 |-> s[g[i]]]
    <2>1. \A i \in 1 .. n + 1 : a[i] = s[g[i]]
      BY <1>2, <1>4, <1>6, <1>7
    <2>2. a = [i \in 1 .. n + 1 |-> a[i]]
      BY <1>2
    <2> QED BY <2>1, <2>2
  <1>13. Lists(a, s, at \cup {m})
    BY <1>2, <1>11, <1>12 DEF Lists
  <1> QED BY <1>13 DEF a

\* Only lists the elements at the given positions.
LEMMA OnlyLists ==
    ASSUME NEW E, NEW s \in Seq(E), NEW at \in SUBSET DOMAIN s
    PROVE  Only(s, at) \in Seq(E) /\ Lists(Only(s, at), s, at)
  <1> DEFINE c == CHOOSE g : Copies(g, s, at)
             upto(m) == {p \in at : p <= m}
             G == {m \in 0 .. Len(s) : c[m] \in Seq(E) /\ Lists(c[m], s, upto(m))}
  <1>1. Only(s, at) = c[Len(s)]
    BY Zenon DEF Only, Copies
  <1>2. c = [n \in 0 .. Len(s) |->
            IF n = 0 THEN <<>> ELSE IF n \in at THEN Append(c[n - 1], s[n]) ELSE c[n - 1]]
    <2>1. \E g : Copies(g, s, at)
      BY CopiesExist
    <2>2. Copies(c, s, at)
      BY <2>1, Zenon
    <2> QED BY <2>2, Zenon DEF Copies
  <1> HIDE DEF c
  <1>3. Len(s) \in Nat /\ DOMAIN s = 1 .. Len(s) /\ at \in SUBSET (1 .. Len(s))
        /\ \A p \in 1 .. Len(s) : s[p] \in E
    OBVIOUS
  <1>4. 0 \in G
    <2>1. c[0] = <<>> /\ c[0] \in Seq(E) /\ Len(c[0]) = 0
      BY <1>2, <1>3
    <2>2. upto(0) = {}
      BY <1>3
    <2>3. Lists(<<>>, s, {})
      <3> DEFINE f == [i \in 1 .. 0 |-> s[i]]
      <3>1. Len(<<>>) = 0 /\ <<>> = [i \in 1 .. 0 |-> s[f[i]]]
        OBVIOUS
      <3>2. Counts(f, 0, {})
        BY DEF Counts
      <3> HIDE DEF f
      <3>3. Counts(f, Len(<<>>), {}) /\ <<>> = [i \in 1 .. Len(<<>>) |-> s[f[i]]]
        BY <3>1, <3>2, Zenon
      <3> QED BY <3>3, Zenon DEF Lists
    <2>4. 0 \in 0 .. Len(s)
      BY <1>3
    <2>5. Lists(c[0], s, upto(0))
      BY <2>1, <2>2, <2>3, Zenon
    <2> HIDE DEF upto
    <2> QED BY <2>1, <2>4, <2>5
  <1>5. ASSUME NEW m \in 0 .. Len(s) - 1, m \in G
        PROVE  m + 1 \in G
    <2>1. c[m] \in Seq(E) /\ Lists(c[m], s, upto(m))
      BY <1>5
    <2>2. m + 1 \in 0 .. Len(s) /\ m + 1 # 0 /\ (m + 1) - 1 = m /\ m + 1 \in 1 .. Len(s) /\ m + 1 \in Nat
      BY <1>3
    <2>3. c[m + 1] = IF m + 1 \in at THEN Append(c[m], s[m + 1]) ELSE c[m]
      <3>1. c[m + 1] = IF m + 1 \in at THEN Append(c[(m + 1) - 1], s[m + 1]) ELSE c[(m + 1) - 1]
        BY <1>2, <2>2, Zenon
      <3> QED BY <2>2, <3>1, Zenon
    <2>4. upto(m) \in SUBSET Nat /\ \A p \in upto(m) : p < m + 1
      BY <1>3
    <2>5. CASE m + 1 \in at
      <3>1. upto(m + 1) = upto(m) \cup {m + 1}
        BY <1>3, <2>5
      <3>2. s[m + 1] \in E
        BY <1>3, <2>2
      <3> DEFINE U == upto(m)
      <3>3. Lists(Append(c[m], s[m + 1]), s, U \cup {m + 1})
        <4> HIDE DEF U
        <4>1. U \in SUBSET Nat /\ (\A p \in U : p < m + 1) /\ Lists(c[m], s, U)
          BY <2>1, <2>4 DEF U
        <4> QED BY <2>1, <2>2, <3>2, <4>1, ListsAppend
      <3>4. Append(c[m], s[m + 1]) \in Seq(E)
        BY <2>1, <3>2
      <3>5. c[m + 1] = Append(c[m], s[m + 1])
        BY <2>3, <2>5
      <3> QED BY <2>2, <3>1, <3>3, <3>4, <3>5
    <2>6. CASE m + 1 \notin at
      <3>1. upto(m + 1) = upto(m)
        BY <1>3, <2>6
      <3>2. c[m + 1] = c[m]
        BY <2>3, <2>6
      <3> QED BY <2>1, <2>2, <3>1, <3>2
    <2> QED BY <2>5, <2>6
  <1> HIDE DEF G
  <1>6. \A m \in 0 .. Len(s) : m \in G
    BY <1>3, <1>4, <1>5, UpTo
  <1>7. Len(s) \in G
    BY <1>3, <1>6
  <1>8. upto(Len(s)) = at
    BY <1>3
  <1>9. c[Len(s)] \in Seq(E) /\ Lists(c[Len(s)], s, at)
    BY <1>7, <1>8 DEF G
  <1> QED BY <1>1, <1>9

-----------------------------------------------------------------------------
(* What the operations do to the index. *)

\* An empty index refers to nothing and is in order.
LEMMA EmptyIndexOneToOne ==
    ASSUME NEW n \in Nat \ {0}, NEW e, NEW es
    PROVE  /\ OneToOne(EmptyIndex(n, e), n, e, {})
           /\ RobinHood(es, EmptyIndex(n, e), n, e)
  <1>1. EmptyIndex(n, e) \in [0 .. n - 1 -> {} \cup {e}]
        /\ \A b \in 0 .. n - 1 : EmptyIndex(n, e)[b] = e
    BY DEF EmptyIndex
  <1>2. \A b \in 0 .. n - 1 : After(n, b) \in 0 .. n - 1
    BY AfterCases
  <1> QED BY <1>1, <1>2 DEF OneToOne, RobinHood

\* The recursive function in rehash_index.
Rehashes(g, es, n, e) ==
    g = [p \in 0 .. Len(es) |->
            IF p = 0 THEN EmptyIndex(n, e)
            ELSE place(es, g[p - 1], e, p - 1, bucket_for_hash(g[p - 1], es[p].hash), 0)]

\* The partly rebuilt indexes exist for every array of entries.
LEMMA RehashesExist ==
    ASSUME NEW es, Len(es) \in Nat, NEW n, NEW e
    PROVE  \E g : Rehashes(g, es, n, e)
  <1> DEFINE D(x, p) == place(es, x, e, p - 1, bucket_for_hash(x, es[p].hash), 0)
             s0 == EmptyIndex(n, e)
             G == {m \in 0 .. Len(es) :
                    \E g : g = [k \in 0 .. m |-> IF k = 0 THEN s0 ELSE D(g[k - 1], k)]}
  <1>1. 0 \in G
    <2> DEFINE g == [k \in 0 .. 0 |-> s0]
    <2>1. g = [k \in 0 .. 0 |-> IF k = 0 THEN s0 ELSE D(g[k - 1], k)]
      <3> HIDE DEF D, s0
      <3> QED OBVIOUS
    <2>2. 0 \in 0 .. Len(es)
      OBVIOUS
    <2> QED BY <2>1, <2>2
  <1>2. ASSUME NEW m \in 0 .. Len(es) - 1, m \in G
        PROVE  m + 1 \in G
    <2>1. PICK g : g = [k \in 0 .. m |-> IF k = 0 THEN s0 ELSE D(g[k - 1], k)]
      BY <1>2
    <2> DEFINE f == [k \in 0 .. m + 1 |-> IF k = m + 1 THEN D(g[m], m + 1) ELSE g[k]]
    <2> HIDE DEF D, s0
    <2>2. ASSUME NEW k \in 0 .. m + 1
          PROVE  f[k] = IF k = 0 THEN s0 ELSE D(f[k - 1], k)
      <3>1. CASE k = m + 1
        <4>1. f[k] = D(g[m], m + 1) /\ k # 0 /\ k - 1 = m /\ f[k - 1] = g[m]
          BY <3>1
        <4> QED BY <3>1, <4>1
      <3>2. CASE k # m + 1
        <4>1. f[k] = g[k] /\ k \in 0 .. m
          BY <3>2
        <4>2. g[k] = IF k = 0 THEN s0 ELSE D(g[k - 1], k)
          BY <2>1, <4>1
        <4>3. k # 0 => f[k - 1] = g[k - 1]
          BY <3>2, <4>1
        <4> QED BY <4>1, <4>2, <4>3
      <3> QED BY <3>1, <3>2
    <2>3. f = [k \in 0 .. m + 1 |-> IF k = 0 THEN s0 ELSE D(f[k - 1], k)]
      <3> DEFINE r == [k \in 0 .. m + 1 |-> IF k = 0 THEN s0 ELSE D(f[k - 1], k)]
      <3>1. \A k \in 0 .. m + 1 : f[k] = r[k]
        BY <2>2
      <3>2. f = [k \in 0 .. m + 1 |-> f[k]] /\ r = [k \in 0 .. m + 1 |-> r[k]]
        OBVIOUS
      <3> HIDE DEF f, r
      <3>3. f = r
        BY <3>1, <3>2
      <3> QED BY <3>3 DEF r
    <2>4. m + 1 \in 0 .. Len(es)
      OBVIOUS
    <2> QED BY <2>3, <2>4
  <1> HIDE DEF G
  <1>3. \A k \in 0 .. Len(es) : k \in G
    BY <1>1, <1>2, UpTo
  <1>4. Len(es) \in G
    BY <1>3
  <1> QED BY <1>4 DEF G, Rehashes

\* Rebuilding the index of entries without holes.
LEMMA Rehash ==
    ASSUME NEW n \in Nat, n >= 2, NEW es, Len(es) \in Nat, Len(es) < n,
           \A p \in 1 .. Len(es) : es[p].hash \in Nat,
           NEW e, e \notin 0 .. Len(es) - 1
    PROVE  /\ OneToOne(rehash_index(es, n, e), n, e, 0 .. Len(es) - 1)
           /\ RobinHood(es, rehash_index(es, n, e), n, e)
  <1> DEFINE c == CHOOSE g : Rehashes(g, es, n, e)
             G == {m \in 0 .. Len(es) :
                    OneToOne(c[m], n, e, 0 .. m - 1) /\ RobinHood(es, c[m], n, e)}
  <1>1. rehash_index(es, n, e) = c[Len(es)]
    BY Zenon DEF rehash_index, Rehashes
  <1>2. c = [p \in 0 .. Len(es) |->
            IF p = 0 THEN EmptyIndex(n, e)
            ELSE place(es, c[p - 1], e, p - 1, bucket_for_hash(c[p - 1], es[p].hash), 0)]
    <2>1. \E g : Rehashes(g, es, n, e)
      BY RehashesExist
    <2>2. Rehashes(c, es, n, e)
      BY <2>1, Zenon
    <2> QED BY <2>2, Zenon DEF Rehashes
  <1> HIDE DEF c
  <1>3. 0 \in G
    <2>1. c[0] = EmptyIndex(n, e)
      BY <1>2
    <2>2. 0 .. 0 - 1 = {} /\ n \in Nat \ {0}
      OBVIOUS
    <2>3. OneToOne(EmptyIndex(n, e), n, e, {}) /\ RobinHood(es, EmptyIndex(n, e), n, e)
      BY <2>2, EmptyIndexOneToOne, Zenon
    <2>4. OneToOne(c[0], n, e, 0 .. 0 - 1) /\ RobinHood(es, c[0], n, e)
      BY <2>1, <2>2, <2>3, Zenon
    <2> QED BY <2>4
  <1>4. ASSUME NEW m \in 0 .. Len(es) - 1, m \in G
        PROVE  m + 1 \in G
    <2> DEFINE ix == c[m]
               T == 0 .. m
               h == es[m + 1].hash
               b == bucket_for_hash(ix, h)
    <2>1. OneToOne(ix, n, e, 0 .. m - 1) /\ RobinHood(es, ix, n, e)
      BY <1>4
    <2>2. m + 1 \in 0 .. Len(es) /\ m + 1 # 0 /\ (m + 1) - 1 = m /\ n \in Nat \ {0}
      OBVIOUS
    <2>3. c[m + 1] = place(es, ix, e, m, b, 0)
      <3>1. c[m + 1] = place(es, c[(m + 1) - 1], e, (m + 1) - 1,
                             bucket_for_hash(c[(m + 1) - 1], es[m + 1].hash), 0)
        BY <1>2, <2>2, Zenon
      <3> QED BY <2>2, <3>1, Zenon
    <2> HIDE DEF ix
    <2>4. T \ {m} = 0 .. m - 1 /\ m \in T /\ e \notin T
      OBVIOUS
    <2>5. Hashed(es, T)
      BY DEF Hashed
    <2>6. h \in Nat /\ h \in Int /\ b = h % n
      <3>1. m + 1 \in 1 .. Len(es)
        OBVIOUS
      <3>2. Buckets(ix) = n
        <4>1. DOMAIN ix = 0 .. n - 1 /\ n \in Nat
          BY <2>1 DEF OneToOne
        <4> QED BY <4>1, BucketsOf, Zenon
      <3> QED BY <3>1, <3>2 DEF bucket_for_hash
    <2>7. \E x \in 0 .. n - 1 : ix[x] = e
      <3>1. IsFiniteSet(0 .. m - 1) /\ Cardinality(0 .. m - 1) = m
        BY m \in Nat, IntervalNumber
      <3>2. m < n /\ n \in Nat
        OBVIOUS
      <3> DEFINE S == 0 .. m - 1
      <3>3. IsFiniteSet(S) /\ Cardinality(S) < n /\ OneToOne(ix, n, e, S)
        BY <2>1, <3>1, <3>2
      <3> HIDE DEF S
      <3> QED BY <3>2, <3>3, EmptyBucket
    <2>8. b \in 0 .. n - 1 /\ Fits(es, ix, n, e, m, b, 0)
      <3> HIDE DEF h, b
      <3>1. h + 0 = h
        BY <2>6
      <3>2. From(n, h, 0) = b
        BY <2>6, <3>1, Zenon DEF From
      <3>3. 0 \in 0 .. n - 1
        OBVIOUS
      <3>4. Away(n, h, b) = 0
        BY <2>2, <2>6, <3>2, <3>3, AwayFrom, Zenon
      <3>5. b \in 0 .. n - 1
        BY <2>2, <2>6, ModRange
      <3> QED BY <3>4, <3>5 DEF Fits, h
    <2> HIDE DEF h, b, T
    <2>9. OneToOne(ix, n, e, T \ {m})
      BY <2>1, <2>4
    <2>10. OneToOne(place(es, ix, e, m, b, 0), n, e, T)
           /\ RobinHood(es, place(es, ix, e, m, b, 0), n, e)
      BY <2>1, <2>4, <2>5, <2>7, <2>8, <2>9, Place, Zenon
    <2>11. T = 0 .. (m + 1) - 1
      BY DEF T
    <2>12. OneToOne(c[m + 1], n, e, 0 .. (m + 1) - 1) /\ RobinHood(es, c[m + 1], n, e)
      BY <2>3, <2>10, <2>11, Zenon
    <2> QED BY <2>2, <2>12
  <1> HIDE DEF G
  <1>5. \A m \in 0 .. Len(es) : m \in G
    BY <1>3, <1>4, UpTo
  <1>6. Len(es) \in G
    BY <1>5
  <1> QED BY <1>1, <1>6, Zenon DEF G

\* The search for a key stops, at the latest in an empty bucket.
LEMMA ProbeEnds ==
    ASSUME NEW n \in Nat \ {0}, NEW ix, DOMAIN ix = 0 .. n - 1, NEW e,
           \E c \in 0 .. n - 1 : ix[c] = e,
           NEW es, NEW k, make_hash(k) \in Nat
    PROVE  /\ ProbeLength(es, ix, e, k) \in 0 .. n - 1
           /\ Stops(es, ix, e, k, ProbeLength(es, ix, e, k))
           /\ \A c \in 0 .. ProbeLength(es, ix, e, k) - 1 : ~Stops(es, ix, e, k, c)
  <1> DEFINE h == make_hash(k)
             stops == {d \in 0 .. n - 1 : Stops(es, ix, e, k, d)}
  <1>1. Buckets(ix) = n
    BY BucketsOf, n \in Nat
  <1>2. h \in Int
    OBVIOUS
  <1>3. PICK c \in 0 .. n - 1 : ix[c] = e
    OBVIOUS
  <1>4. Away(n, h, c) \in stops
    <2> HIDE DEF h
    <2>1. Away(n, h, c) \in 0 .. n - 1 /\ From(n, h, Away(n, h, c)) = c
      BY <1>2, AwayRange, Zenon
    <2>2. (h + Away(n, h, c)) % Buckets(ix) = c
      BY <1>1, <2>1, Zenon DEF From
    <2>3. Stops(es, ix, e, k, Away(n, h, c))
      BY <1>3, <2>2, Zenon DEF Stops, h
    <2> QED BY <2>1, <2>3
  <1>5. stops \subseteq Nat
    OBVIOUS
  <1>6. PICK d \in stops : \A x \in stops : d <= x
    <2> HIDE DEF stops
    <2> QED BY <1>4, <1>5, LeastNumber
  <1>7. d \in 0 .. n - 1 /\ Stops(es, ix, e, k, d) /\ \A x \in 0 .. d - 1 : ~Stops(es, ix, e, k, x)
    <2>1. d \in 0 .. n - 1 /\ Stops(es, ix, e, k, d)
      BY <1>6
    <2>2. ASSUME NEW x \in 0 .. d - 1, Stops(es, ix, e, k, x)
          PROVE  FALSE
      <3>1. x \in 0 .. n - 1 /\ ~(d <= x)
        BY <2>1
      <3>2. x \in stops
        BY <2>2, <3>1
      <3> QED BY <1>6, <3>1, <3>2
    <2> QED BY <2>1, <2>2
  <1>8. ProbeLength(es, ix, e, k) = CHOOSE x \in 0 .. n - 1 :
            Stops(es, ix, e, k, x) /\ \A y \in 0 .. x - 1 : ~Stops(es, ix, e, k, y)
    BY <1>1, Zenon DEF ProbeLength
  <1> QED BY <1>7, <1>8, Zenon

\* Removing a bucket removes its position from the index. The order is kept
\* unless the removal leaves an entry behind.
LEMMA RemoveFromIndex ==
    ASSUME NEW n \in Nat, n >= 3, NEW T, NEW e, e \notin T, NEW ix, OneToOne(ix, n, e, T),
           NEW b \in 0 .. n - 1, ix[b] # e, NEW fs, Hashed(fs, T),
           NEW es, \A s \in T \ {ix[b]} : es[s + 1].hash = fs[s + 1].hash
    PROVE  /\ OneToOne(remove_from_index(es, ix, e, b), n, e, T \ {ix[b]})
           /\ RobinHood(fs, ix, n, e) /\ ~LeavesBehind(es, ix, e, b) =>
                RobinHood(es, remove_from_index(es, ix, e, b), n, e)
  <1> DEFINE jx == [ix EXCEPT ![b] = e]
             x == After(n, b)
             y == After(n, x)
             i == ix[b]
             moves == jx[x] # e /\ Distance(es, jx, x) > 0
             rx == remove_from_index(es, ix, e, b)
  <1>1. n \in Nat \ {0} /\ ix \in [0 .. n - 1 -> T \cup {e}] /\ DOMAIN ix = 0 .. n - 1
        /\ DOMAIN jx = 0 .. n - 1
    BY DEF OneToOne
  <1>2. Buckets(ix) = n /\ Buckets(jx) = n
    <2> HIDE DEF jx
    <2> QED BY <1>1, BucketsOf
  <1>3. x \in 0 .. n - 1 /\ y \in 0 .. n - 1 /\ x # b /\ y # b /\ y # x
    <2>1. x \in 0 .. n - 1 /\ x = IF b = n - 1 THEN 0 ELSE b + 1
      BY <1>1, AfterCases, Zenon
    <2>2. y \in 0 .. n - 1 /\ y = IF x = n - 1 THEN 0 ELSE x + 1
      BY <1>1, <2>1, AfterCases, Zenon
    <2> QED BY <2>1, <2>2
  <1>4. rx = IF moves THEN [jx EXCEPT ![b] = jx[x], ![x] = e] ELSE jx
    <2>1. next_bucket(ix, b) = x
      BY <1>2 DEF next_bucket, After
    <2> HIDE DEF x
    <2> QED BY <2>1 DEF remove_from_index
  <1>5. jx[b] = e /\ \A c \in 0 .. n - 1 : c # b => jx[c] = ix[c]
    BY <1>1
  <1>6. i \in T /\ \A c \in 0 .. n - 1 : c # b => ix[c] \in (T \ {i}) \cup {e}
    BY <1>1 DEF OneToOne
  <1>7. OneToOne(jx, n, e, T \ {i})
    <2>1. jx \in [0 .. n - 1 -> (T \ {i}) \cup {e}]
      BY <1>1, <1>6
    <2>2. ASSUME NEW s \in T \ {i}
          PROVE  \E c \in 0 .. n - 1 : jx[c] = s
      <3>1. PICK c \in 0 .. n - 1 : ix[c] = s
        BY DEF OneToOne
      <3>2. c # b
        BY <3>1
      <3> QED BY <1>5, <3>1, <3>2
    <2>3. \A c, d \in 0 .. n - 1 : jx[c] = jx[d] /\ jx[c] # e => c = d
      <3> HIDE DEF jx
      <3> QED BY <1>1, <1>5 DEF OneToOne
    <2> HIDE DEF jx
    <2> QED BY <2>1, <2>2, <2>3 DEF OneToOne
  <1> HIDE DEF jx
  <1>8. \A c \in 0 .. n - 1 : c # b /\ ix[c] # e =>
            /\ Distance(es, jx, c) = Distance(fs, ix, c)
            /\ Distance(es, ix, c) = Distance(fs, ix, c)
            /\ Distance(fs, ix, c) \in 0 .. n - 1
    <2> SUFFICES ASSUME NEW c \in 0 .. n - 1, c # b, ix[c] # e
                 PROVE  /\ Distance(es, jx, c) = Distance(fs, ix, c)
                        /\ Distance(es, ix, c) = Distance(fs, ix, c)
                        /\ Distance(fs, ix, c) \in 0 .. n - 1
      OBVIOUS
    <2>1. ix[c] \in T \ {i} /\ jx[c] = ix[c]
      BY <1>5, <1>6
    <2>2. es[jx[c] + 1].hash = fs[ix[c] + 1].hash /\ es[ix[c] + 1].hash = fs[ix[c] + 1].hash
      BY <2>1
    <2>3. Distance(es, jx, c) = Distance(fs, ix, c)
      BY <1>1, <2>2, DistanceSame
    <2>4. Distance(es, ix, c) = Distance(fs, ix, c)
      BY <1>1, <2>2, DistanceSame
    <2>5. Distance(fs, ix, c) \in 0 .. n - 1
      BY <1>1, DistanceRange
    <2> QED BY <2>3, <2>4, <2>5
  <1>9. CASE ~moves
    <2>1. rx = jx
      BY <1>4, <1>9
    <2>2. ASSUME RobinHood(fs, ix, n, e)
          PROVE  RobinHood(es, jx, n, e)
      <3> SUFFICES ASSUME NEW c \in 0 .. n - 1,
                          jx[After(n, c)] # e, Distance(es, jx, After(n, c)) > 0
                   PROVE  /\ jx[c] # e
                          /\ Distance(es, jx, c) >= Distance(es, jx, After(n, c)) - 1
        BY DEF RobinHood
      <3> DEFINE d == After(n, c)
      <3>1. d \in 0 .. n - 1 /\ d # b
        BY <1>1, <1>5, AfterCases
      <3>2. c # b
        BY <1>9
      <3>3. ix[d] # e /\ Distance(fs, ix, d) = Distance(es, jx, d)
        BY <1>5, <1>8, <3>1
      <3>4. ix[c] # e /\ Distance(fs, ix, c) >= Distance(fs, ix, d) - 1
        BY <2>2, <3>3 DEF RobinHood
      <3> QED BY <1>5, <1>8, <3>2, <3>3, <3>4
    <2> QED BY <1>7, <2>1, <2>2, Zenon
  <1>10. CASE moves
    <2> DEFINE j == jx[x]
               kx == [jx EXCEPT ![b] = j, ![x] = e]
    <2>1. rx = kx
      BY <1>4, <1>10
    <2>2. j \in T \ {i} /\ j = ix[x] /\ j # e
      BY <1>3, <1>5, <1>6, <1>10
    <2>3. kx \in [0 .. n - 1 -> (T \ {i}) \cup {e}] /\ DOMAIN kx = 0 .. n - 1
          /\ kx[b] = j /\ kx[x] = e
          /\ \A c \in 0 .. n - 1 : c # b /\ c # x => kx[c] = jx[c] /\ kx[c] = ix[c]
      <3>1. jx \in [0 .. n - 1 -> (T \ {i}) \cup {e}]
        BY <1>7 DEF OneToOne
      <3> QED BY <1>3, <1>5, <2>2, <3>1
    <2> HIDE DEF kx, j
    <2>4. OneToOne(kx, n, e, T \ {i})
      <3>1. ASSUME NEW s \in T \ {i}
            PROVE  \E c \in 0 .. n - 1 : kx[c] = s
        <4>1. PICK c \in 0 .. n - 1 : jx[c] = s
          BY <1>7 DEF OneToOne
        <4>2. c # b
          BY <1>5, <4>1
        <4>3. CASE c = x
          BY <2>3, <4>1, <4>3 DEF j
        <4>4. CASE c # x
          BY <2>3, <4>1, <4>2, <4>4
        <4> QED BY <4>3, <4>4
      <3>2. \A c \in 0 .. n - 1 : c # x => jx[c] # j
        BY <1>3, <1>7, <2>2 DEF OneToOne, j
      <3>3. \A c, d \in 0 .. n - 1 : kx[c] = kx[d] /\ kx[c] # e => c = d
        BY <1>3, <1>7, <2>3, <3>2 DEF OneToOne
      <3> QED BY <2>3, <3>1, <3>3 DEF OneToOne
    <2>5. ASSUME RobinHood(fs, ix, n, e), ~LeavesBehind(es, ix, e, b)
          PROVE  RobinHood(es, kx, n, e)
      <3>1. ~(ix[y] # e /\ Distance(fs, ix, y) > 0)
        <4>1. ~(ix[x] # e /\ Distance(es, ix, x) > 0 /\ ix[y] # e /\ Distance(es, ix, y) > 0)
          BY <1>2, <2>5, Zenon DEF LeavesBehind, next_bucket, After
        <4>2. ix[x] # e /\ Distance(es, ix, x) > 0
          BY <1>3, <1>8, <1>10, <2>2
        <4> QED BY <1>3, <1>8, <4>1, <4>2
      <3>2. Distance(es, kx, b) = Distance(fs, ix, x) - 1 /\ Distance(fs, ix, x) > 0
        <4> DEFINE h == fs[j + 1].hash
        <4>1. es[j + 1].hash = h /\ h \in Int
          BY <2>2 DEF Hashed
        <4>2. Distance(es, kx, b) = Away(n, es[kx[b] + 1].hash, b)
          BY <1>1, <2>3, DistanceIs
        <4>3. Distance(fs, ix, x) = Away(n, fs[ix[x] + 1].hash, x)
          BY <1>1, DistanceIs
        <4>4. Distance(es, kx, b) = Away(n, h, b) /\ Distance(fs, ix, x) = Away(n, h, x)
          BY <2>2, <2>3, <4>1, <4>2, <4>3
        <4> HIDE DEF h
        <4>5. Away(n, h, x) = IF Away(n, h, b) = n - 1 THEN 0 ELSE Away(n, h, b) + 1
          BY <1>1, <4>1, AwayNext
        <4>6. Away(n, h, b) \in 0 .. n - 1
          BY <1>1, <4>1, AwayRange
        <4>7. Distance(fs, ix, x) > 0
          BY <1>3, <1>8, <1>10, <2>2
        <4> QED BY <4>4, <4>5, <4>6, <4>7
      <3>3. \A c \in 0 .. n - 1 : c # b /\ c # x /\ ix[c] # e =>
                Distance(es, kx, c) = Distance(fs, ix, c)
        <4> SUFFICES ASSUME NEW c \in 0 .. n - 1, c # b, c # x, ix[c] # e
                     PROVE  Distance(es, kx, c) = Distance(fs, ix, c)
          OBVIOUS
        <4>1. kx[c] = ix[c] /\ ix[c] \in T \ {i}
          BY <1>6, <2>3
        <4>2. es[kx[c] + 1].hash = fs[ix[c] + 1].hash
          BY <4>1
        <4> QED BY <1>1, <2>3, <4>2, DistanceSame
      <3> SUFFICES ASSUME NEW c \in 0 .. n - 1,
                          kx[After(n, c)] # e, Distance(es, kx, After(n, c)) > 0
                   PROVE  /\ kx[c] # e
                          /\ Distance(es, kx, c) >= Distance(es, kx, After(n, c)) - 1
        BY DEF RobinHood
      <3> DEFINE d == After(n, c)
      <3>4. d \in 0 .. n - 1 /\ d # x /\ d # c
        <4>1. d \in 0 .. n - 1 /\ d = IF c = n - 1 THEN 0 ELSE c + 1
          BY <1>1, AfterCases, Zenon
        <4>2. d # x
          BY <2>3
        <4> QED BY <4>1, <4>2
      <3>5. c # b
        BY <3>4
      <3>6. CASE d = b
        <4>1. c # x
          BY <1>3, <3>6
        <4>2. Distance(es, kx, b) > 0
          BY <3>6
        <4>3. ix[b] # e /\ Distance(fs, ix, b) >= Distance(fs, ix, x) - 1
          BY <1>3, <2>2, <2>5, <3>2 DEF RobinHood
        <4>4. Distance(fs, ix, b) \in 0 .. n - 1 /\ Distance(fs, ix, x) \in 0 .. n - 1
          BY <1>1, <1>3, <2>2, DistanceRange
        <4>5. Distance(fs, ix, b) > 0
          BY <3>2, <4>2, <4>3, <4>4
        <4>6. ix[c] # e /\ Distance(fs, ix, c) >= Distance(fs, ix, b) - 1
          BY <2>5, <3>6, <4>3, <4>5 DEF RobinHood
        <4>7. Distance(fs, ix, c) \in 0 .. n - 1
          BY <1>1, <4>6, DistanceRange
        <4>8. Distance(es, kx, c) = Distance(fs, ix, c) /\ kx[c] # e
          BY <2>3, <3>3, <3>5, <4>1, <4>6
        <4> QED BY <3>2, <3>6, <4>3, <4>4, <4>6, <4>7, <4>8
      <3>7. CASE d # b
        <4>1. ix[d] # e /\ Distance(es, kx, d) = Distance(fs, ix, d)
          BY <2>3, <3>3, <3>4, <3>7
        <4>2. c # x
          BY <3>1, <4>1
        <4>3. ix[c] # e /\ Distance(fs, ix, c) >= Distance(fs, ix, d) - 1
          BY <2>5, <4>1 DEF RobinHood
        <4> QED BY <2>3, <3>3, <3>5, <4>1, <4>2, <4>3
      <3> QED BY <3>6, <3>7
    <2> QED BY <2>1, <2>4, <2>5, Zenon
  <1> QED BY <1>9, <1>10

-----------------------------------------------------------------------------
(* The table as a whole. *)

Entries == [hash : Nat, key : Keys \cup {NoValue}, value : Values \cup {NoValue}]

\* The positions of the entries that are not deleted, from 1 and from 0.
LivePos(es) == {p \in DOMAIN es : ~is_deleted(es[p])}
Held(es) == {q \in 0 .. Len(es) - 1 : ~is_deleted(es[q + 1])}

\* An index of n buckets and an array of entries that belong together.
Built(es, ix, cap, n) ==
    /\ es \in Seq(Entries) /\ Len(es) <= cap
    /\ n \in Nat /\ n >= 4 /\ n <= 2 * MaxIndex
    /\ cap = table_capacity_for_index_capacity(n)
    /\ OneToOne(ix, n, index_size_class(cap), Held(es))

\* The entries hold keys with their hashes, every key once, and are the pairs of
\* an ordered map.
Keyed(es) ==
    \A p \in LivePos(es) :
        es[p].key \in Keys /\ es[p].hash = make_hash(es[p].key) /\ es[p].value \in Values
Distinct(es) ==
    \A p, q \in LivePos(es) : es[p].key = es[q].key => p = q
Reflects(es, m) ==
    \E f : /\ Counts(f, Len(m), LivePos(es))
           /\ m = [i \in 1 .. Len(m) |-> <<es[f[i]].key, es[f[i]].value>>]

\* A key never has the hash that marks deleted entries.
LEMMA HashTypes ==
    ASSUME NEW k \in Keys
    PROVE  make_hash(k) \in Nat /\ make_hash(k) # DeletedHash
  BY HashAssumption DEF make_hash

\* The load factor leaves a bucket empty, and a larger index takes more entries.
LEMMA CapacityFacts ==
    ASSUME NEW n \in Nat, n >= 4
    PROVE  /\ table_capacity_for_index_capacity(n) \in Nat \ {0}
           /\ table_capacity_for_index_capacity(n) < n
           /\ n < 2 * n
           /\ table_capacity_for_index_capacity(n) < table_capacity_for_index_capacity(2 * n)
  <1>1. n \div 4 \in Nat /\ n \div 4 >= 1 /\ 4 * (n \div 4) <= n
    OBVIOUS
  <1>2. (2 * n) \div 4 \in Nat /\ 4 * ((2 * n) \div 4) <= 2 * n
    OBVIOUS
  <1> QED BY <1>1, <1>2 DEF table_capacity_for_index_capacity

\* A larger index takes at least as many entries.
LEMMA CapacityMonotonic ==
    ASSUME NEW n \in Nat, NEW m \in Nat, n <= m
    PROVE  table_capacity_for_index_capacity(n) <= table_capacity_for_index_capacity(m)
  <1>1. n \div 4 \in Nat /\ 4 * (n \div 4) <= n /\ n < 4 * (n \div 4) + 4
    OBVIOUS
  <1>2. m \div 4 \in Nat /\ 4 * (m \div 4) <= m /\ m < 4 * (m \div 4) + 4
    OBVIOUS
  <1> QED BY <1>1, <1>2 DEF table_capacity_for_index_capacity

\* The reserved value is no position.
LEMMA SizeClass ==
    ASSUME NEW n \in Nat, n >= 4, n <= 2 * MaxIndex
    PROVE  /\ index_size_class(table_capacity_for_index_capacity(n)) \in Nat
           /\ table_capacity_for_index_capacity(n)
                <= index_size_class(table_capacity_for_index_capacity(n))
  <1> DEFINE cap == table_capacity_for_index_capacity(n)
             fit == {m \in ToSet(ClassMax) : cap <= m}
  <1>1. cap \in Nat
    BY CapacityFacts
  <1>2. ToSet(ClassMax) \subseteq Nat
    BY HashAssumption DEF ToSet
  <1>3. cap <= table_capacity_for_index_capacity(2 * MaxIndex)
    BY HashAssumption, 2 * MaxIndex \in Nat, CapacityMonotonic
  <1>4. PICK m \in ToSet(ClassMax) : table_capacity_for_index_capacity(2 * MaxIndex) <= m
    BY SizeAssumption
  <1>5. table_capacity_for_index_capacity(2 * MaxIndex) \in Int
    BY HashAssumption, 2 * MaxIndex \in Nat DEF table_capacity_for_index_capacity
  <1> HIDE DEF cap
  <1>6. m \in fit
    BY <1>1, <1>2, <1>3, <1>4, <1>5
  <1>7. fit \subseteq Nat
    BY <1>2
  <1>8. PICK x \in fit : \A y \in fit : x <= y
    <2> HIDE DEF fit
    <2> QED BY <1>6, <1>7, LeastNumber
  <1>9. \E x2 \in ToSet(ClassMax) : cap <= x2 /\ \A y \in ToSet(ClassMax) : cap <= y => x2 <= y
    BY <1>8
  <1>10. /\ index_size_class(cap) \in ToSet(ClassMax)
         /\ cap <= index_size_class(cap)
    BY <1>9, Zenon DEF index_size_class
  <1> QED BY <1>2, <1>10 DEF cap

\* Live entries, counted from 0 or from 1, are as many and no more than all entries.
LEMMA HeldCount ==
    ASSUME NEW es \in Seq(Entries)
    PROVE  /\ IsFiniteSet(LivePos(es)) /\ IsFiniteSet(Held(es))
           /\ Cardinality(Held(es)) = Cardinality(LivePos(es))
           /\ Cardinality(LivePos(es)) \in Nat /\ Cardinality(LivePos(es)) <= Len(es)
           /\ Cardinality(LivePos(es)) = Len(es) <=> LivePos(es) = DOMAIN es
           /\ LivePos(es) = {q + 1 : q \in Held(es)}
  <1>1. Len(es) \in Nat /\ DOMAIN es = 1 .. Len(es)
    OBVIOUS
  <1>2. IsFiniteSet(1 .. Len(es)) /\ Cardinality(1 .. Len(es)) = Len(es)
    BY <1>1, PositionNumber, Zenon
  <1>3. LivePos(es) \in SUBSET (1 .. Len(es))
    BY <1>1 DEF LivePos
  <1>4. /\ IsFiniteSet(LivePos(es)) /\ Cardinality(LivePos(es)) <= Len(es)
        /\ Cardinality(LivePos(es)) = Len(es) => LivePos(es) = 1 .. Len(es)
    BY <1>2, <1>3, FS_Subset
  <1>5. Cardinality(LivePos(es)) \in Nat
    BY <1>4, FS_CardinalityType
  <1> DEFINE f == [q \in Held(es) |-> q + 1]
  <1>6. f \in Bijection(Held(es), LivePos(es))
    <2>1. \A q \in Held(es) : q + 1 \in LivePos(es)
      BY <1>1 DEF Held, LivePos
    <2>2. \A p \in LivePos(es) : p - 1 \in Held(es) /\ (p - 1) + 1 = p
      BY <1>1 DEF Held, LivePos
    <2>3. \A q, r \in Held(es) : q + 1 = r + 1 => q = r
      BY DEF Held
    <2> QED BY <2>1, <2>2, <2>3 DEF Bijection, Injection, Surjection, IsInjective
  <1>7. LivePos(es) = {q + 1 : q \in Held(es)}
    BY <1>1 DEF Held, LivePos
  <1>8. ExistsBijection(Held(es), LivePos(es))
    BY <1>6 DEF ExistsBijection
  <1>9. IsFiniteSet(Held(es))
    <2>1. Held(es) \in SUBSET (0 .. Len(es) - 1)
      BY DEF Held
    <2>2. IsFiniteSet(0 .. Len(es) - 1)
      BY <1>1, IntervalNumber
    <2> QED BY <2>1, <2>2, FS_Subset
  <1>10. Cardinality(LivePos(es)) = Cardinality(Held(es))
    BY <1>8, <1>9, FS_Bijection
  <1> QED BY <1>1, <1>2, <1>4, <1>5, <1>7, <1>9, <1>10

\* Facts about a table that every operation needs.
LEMMA BuiltFacts ==
    ASSUME NEW es, NEW ix, NEW cap, NEW n, Built(es, ix, cap, n)
    PROVE  LET e == index_size_class(cap)
           IN  /\ n \in Nat \ {0} /\ DOMAIN ix = 0 .. n - 1 /\ Buckets(ix) = n
               /\ ix \in [0 .. n - 1 -> Held(es) \cup {e}]
               /\ cap \in Nat \ {0} /\ cap < n
               /\ e \in Nat /\ cap <= e /\ e \notin Held(es)
               /\ Hashed(es, Held(es))
               /\ \E b \in 0 .. n - 1 : ix[b] = e
  <1> DEFINE e == index_size_class(cap)
  <1>1. es \in Seq(Entries) /\ Len(es) <= cap /\ n \in Nat /\ n >= 4 /\ n <= 2 * MaxIndex
        /\ cap = table_capacity_for_index_capacity(n) /\ OneToOne(ix, n, e, Held(es))
    BY DEF Built
  <1>2. Len(es) \in Nat /\ DOMAIN es = 1 .. Len(es) /\ \A p \in 1 .. Len(es) : es[p] \in Entries
    BY <1>1
  <1>3. cap \in Nat \ {0} /\ cap < n
    BY <1>1, CapacityFacts
  <1>4. e \in Nat /\ cap <= e
    BY <1>1, SizeClass
  <1> HIDE DEF e
  <1>5. e \notin Held(es)
    BY <1>1, <1>2, <1>3, <1>4 DEF Held
  <1>6. Hashed(es, Held(es))
    <2>1. \A q \in Held(es) : q + 1 \in 1 .. Len(es)
      BY <1>2 DEF Held
    <2> QED BY <1>2, <2>1 DEF Hashed, Entries
  <1>7. n \in Nat \ {0} /\ ix \in [0 .. n - 1 -> Held(es) \cup {e}] /\ DOMAIN ix = 0 .. n - 1
    BY <1>1 DEF OneToOne
  <1>8. Buckets(ix) = n
    BY <1>1, <1>7, BucketsOf
  <1>9. \E b \in 0 .. n - 1 : ix[b] = e
    <2>1. IsFiniteSet(Held(es)) /\ Cardinality(Held(es)) <= Len(es) /\ Cardinality(Held(es)) \in Nat
      BY <1>1, HeldCount
    <2>2. Cardinality(Held(es)) < n
      BY <1>1, <1>2, <1>3, <2>1
    <2> QED BY <1>1, <2>1, <2>2, EmptyBucket
  <1> QED BY <1>3, <1>4, <1>5, <1>6, <1>7, <1>8, <1>9 DEF e

\* The entries without their holes.
LEMMA LiveEntries ==
    ASSUME NEW es \in Seq(Entries)
    PROVE  /\ Live(es) \in Seq(Entries)
           /\ Len(Live(es)) = Cardinality(LivePos(es))
           /\ Lists(Live(es), es, LivePos(es))
           /\ LivePos(Live(es)) = 1 .. Len(Live(es))
           /\ Held(Live(es)) = 0 .. Len(Live(es)) - 1
           /\ LivePos(es) = DOMAIN es => Live(es) = es
  <1> DEFINE ls == Live(es)
  <1>1. LivePos(es) \in SUBSET DOMAIN es /\ Live(es) = Only(es, LivePos(es))
    BY DEF LivePos, Live
  <1>2. ls \in Seq(Entries) /\ Lists(ls, es, LivePos(es))
    BY <1>1, OnlyLists
  <1> HIDE DEF ls
  <1>3. Len(ls) \in Nat /\ DOMAIN ls = 1 .. Len(ls) /\ Len(es) \in Nat /\ DOMAIN es = 1 .. Len(es)
        /\ es = [p \in 1 .. Len(es) |-> es[p]]
    BY <1>2
  <1>4. LivePos(es) \in SUBSET Nat
    BY <1>1, <1>3
  <1>5. PICK f : Counts(f, Len(ls), LivePos(es)) /\ ls = [i \in 1 .. Len(ls) |-> es[f[i]]]
    BY <1>2 DEF Lists
  <1>6. Len(ls) = Cardinality(LivePos(es))
    BY <1>3, <1>4, <1>5, CountsNumber
  <1>7. \A i \in 1 .. Len(ls) : f[i] \in LivePos(es) /\ ls[i] = es[f[i]] /\ ~is_deleted(ls[i])
    BY <1>5 DEF Counts, LivePos
  <1>8. LivePos(ls) = 1 .. Len(ls)
    BY <1>3, <1>7 DEF LivePos
  <1>9. Held(ls) = 0 .. Len(ls) - 1
    BY <1>3, <1>7 DEF Held
  <1>10. ASSUME LivePos(es) = DOMAIN es
         PROVE  ls = es
    <2> DEFINE g == [i \in 1 .. Len(es) |-> i]
    <2>1. Counts(g, Len(es), LivePos(es))
      BY <1>3, <1>10 DEF Counts
    <2>2. es = [i \in 1 .. Len(es) |-> es[g[i]]]
      BY <1>3
    <2> HIDE DEF g
    <2>3. Lists(es, es, LivePos(es))
      BY <2>1, <2>2 DEF Lists
    <2> QED BY <1>2, <1>3, <1>4, <2>3, ListsUnique
  <1> QED BY <1>2, <1>6, <1>8, <1>9, <1>10 DEF ls

\* Closing the holes keeps what the entries hold.
LEMMA LiveContents ==
    ASSUME NEW es \in Seq(Entries)
    PROVE  /\ Keyed(es) => Keyed(Live(es))
           /\ Distinct(es) => Distinct(Live(es))
           /\ \A m : Len(m) \in Nat /\ Reflects(es, m) => Reflects(Live(es), m)
  <1> DEFINE ls == Live(es)
             L == LivePos(es)
  <1>1. ls \in Seq(Entries) /\ Len(ls) = Cardinality(L) /\ Lists(ls, es, L)
        /\ LivePos(ls) = 1 .. Len(ls)
    BY LiveEntries
  <1> HIDE DEF ls
  <1>2. L \in SUBSET Nat /\ Len(ls) \in Nat
    BY <1>1 DEF LivePos
  <1>3. PICK f : Counts(f, Len(ls), L) /\ ls = [i \in 1 .. Len(ls) |-> es[f[i]]]
    BY <1>1 DEF Lists
  <1>4. \A i \in 1 .. Len(ls) : f[i] \in L /\ ls[i] = es[f[i]]
    BY <1>3 DEF Counts
  <1>5. \A i, j \in 1 .. Len(ls) : f[i] = f[j] => i = j
    BY <1>2, <1>3, CountsNumber
  <1>6. Keyed(es) => Keyed(ls)
    BY <1>1, <1>4 DEF Keyed
  <1>7. Distinct(es) => Distinct(ls)
    BY <1>1, <1>4, <1>5 DEF Distinct
  <1>8. ASSUME NEW m, Len(m) \in Nat, Reflects(es, m)
        PROVE  Reflects(ls, m)
    <2>1. PICK g : /\ Counts(g, Len(m), L)
                   /\ m = [i \in 1 .. Len(m) |-> <<es[g[i]].key, es[g[i]].value>>]
      BY <1>8 DEF Reflects
    <2>2. Len(m) = Len(ls)
      <3>1. Cardinality(L) = Len(m)
        BY <1>2, <1>8, <2>1, CountsNumber
      <3> QED BY <1>1, <3>1
    <2>3. g = f
      BY <1>2, <1>3, <2>1, <2>2, CountsUnique
    <2> DEFINE h == [i \in 1 .. Len(m) |-> i]
    <2>4. Counts(h, Len(m), LivePos(ls))
      BY <1>1, <1>8, <2>2 DEF Counts
    <2>5. \A i \in 1 .. Len(m) : <<es[g[i]].key, es[g[i]].value>> = <<ls[h[i]].key, ls[h[i]].value>>
      BY <1>4, <2>2, <2>3
    <2>6. m = [i \in 1 .. Len(m) |-> <<ls[h[i]].key, ls[h[i]].value>>]
      <3> HIDE DEF h
      <3>1. [i \in 1 .. Len(m) |-> <<es[g[i]].key, es[g[i]].value>>]
                = [i \in 1 .. Len(m) |-> <<ls[h[i]].key, ls[h[i]].value>>]
        BY <2>5
      <3> QED BY <2>1, <3>1
    <2> HIDE DEF h
    <2> QED BY <2>4, <2>6, Zenon DEF Reflects
  <1> QED BY <1>6, <1>7, <1>8 DEF ls

\* The order of the index depends on nothing but the hashes.
LEMMA OrderSame ==
    ASSUME NEW n \in Nat \ {0}, NEW T, NEW e, e \notin T, NEW ix \in [0 .. n - 1 -> T \cup {e}],
           NEW es, NEW fs, \A s \in T : es[s + 1].hash = fs[s + 1].hash,
           RobinHood(es, ix, n, e)
    PROVE  RobinHood(fs, ix, n, e)
  <1>1. \A c \in 0 .. n - 1 : ix[c] # e => Distance(es, ix, c) = Distance(fs, ix, c)
    <2> SUFFICES ASSUME NEW c \in 0 .. n - 1, ix[c] # e
                 PROVE  Distance(es, ix, c) = Distance(fs, ix, c)
      OBVIOUS
    <2>1. DOMAIN ix = 0 .. n - 1 /\ es[ix[c] + 1].hash = fs[ix[c] + 1].hash
      OBVIOUS
    <2> QED BY <2>1, DistanceSame
  <1>2. \A b \in 0 .. n - 1 : After(n, b) \in 0 .. n - 1
    BY AfterCases
  <1> QED BY <1>1, <1>2 DEF RobinHood

\* The bucket at which the search for a key ends.
Found(es, ix, n, e, k) == From(n, make_hash(k), ProbeLength(es, ix, e, k))

\* The search for a key ends in a bucket, after ones that are used by entries no
\* closer to home than the key would be.
LEMMA FoundFacts ==
    ASSUME NEW es, NEW ix, NEW cap, NEW n, Built(es, ix, cap, n), NEW k \in Keys
    PROVE  LET e == index_size_class(cap)
               d == ProbeLength(es, ix, e, k)
               b == Found(es, ix, n, e, k)
           IN  /\ d \in 0 .. n - 1 /\ b \in 0 .. n - 1
               /\ Away(n, make_hash(k), b) = d
               /\ \/ ix[b] = e
                  \/ Distance(es, ix, b) < d
                  \/ es[ix[b] + 1].key = k
               /\ \A c \in 0 .. d - 1 :
                    /\ ix[From(n, make_hash(k), c)] # e
                    /\ ~(Distance(es, ix, From(n, make_hash(k), c)) < c)
                    /\ es[ix[From(n, make_hash(k), c)] + 1].key # k
  <1> DEFINE e == index_size_class(cap)
             d == ProbeLength(es, ix, e, k)
             b == Found(es, ix, n, e, k)
             h == make_hash(k)
  <1>1. n \in Nat \ {0} /\ DOMAIN ix = 0 .. n - 1 /\ Buckets(ix) = n
        /\ \E c \in 0 .. n - 1 : ix[c] = e
    BY BuiltFacts
  <1> HIDE DEF e
  <1>2. h \in Nat
    BY HashTypes
  <1>3. d \in 0 .. n - 1 /\ Stops(es, ix, e, k, d) /\ \A c \in 0 .. d - 1 : ~Stops(es, ix, e, k, c)
    BY <1>1, <1>2, ProbeEnds
  <1> HIDE DEF d
  <1>4. h \in Int /\ d \in Int /\ b = From(n, h, d)
    BY <1>2, <1>3 DEF Found, d
  <1> HIDE DEF h, b
  <1>5. b \in 0 .. n - 1
    BY <1>1, <1>4, FromNext
  <1>6. Away(n, h, b) = d
    BY <1>1, <1>3, <1>4, AwayFrom
  <1>7. \A c : Stops(es, ix, e, k, c) <=>
            \/ ix[From(n, h, c)] = e
            \/ Distance(es, ix, From(n, h, c)) < c
            \/ es[ix[From(n, h, c)] + 1].key = k
    BY <1>1, Zenon DEF Stops, From, h
  <1> QED BY <1>3, <1>4, <1>5, <1>6, <1>7 DEF b, d, e, h

\* In an ordered index the search for a key that is there finds it.
LEMMA FoundThere ==
    ASSUME NEW es, NEW ix, NEW cap, NEW n, Built(es, ix, cap, n),
           Keyed(es), Distinct(es), RobinHood(es, ix, n, index_size_class(cap)),
           NEW k \in Keys, NEW p \in LivePos(es), es[p].key = k
    PROVE  LET e == index_size_class(cap)
               b == Found(es, ix, n, e, k)
           IN  /\ ix[b] = p - 1 /\ ix[b] # e
               /\ ~(Distance(es, ix, b) < ProbeLength(es, ix, e, k))
  <1> DEFINE e == index_size_class(cap)
             d == ProbeLength(es, ix, e, k)
             b == Found(es, ix, n, e, k)
             h == make_hash(k)
  <1>1. n \in Nat \ {0} /\ DOMAIN ix = 0 .. n - 1 /\ e \notin Held(es) /\ Hashed(es, Held(es))
        /\ ix \in [0 .. n - 1 -> Held(es) \cup {e}]
    BY BuiltFacts
  <1>2. d \in 0 .. n - 1 /\ b = From(n, h, d) /\ b \in 0 .. n - 1
        /\ (ix[b] = e \/ Distance(es, ix, b) < d \/ es[ix[b] + 1].key = k)
        /\ \A c \in 0 .. d - 1 : es[ix[From(n, h, c)] + 1].key # k
    <2>1. b = From(n, h, d)
      BY DEF Found
    <2> QED BY <2>1, FoundFacts
  <1>3. h \in Nat /\ h \in Int
    BY HashTypes
  <1>4. es \in Seq(Entries) /\ p \in Nat /\ LivePos(es) = {q + 1 : q \in Held(es)}
        /\ OneToOne(ix, n, e, Held(es))
    <2>1. es \in Seq(Entries) /\ OneToOne(ix, n, e, Held(es))
      BY DEF Built
    <2>2. LivePos(es) = {q + 1 : q \in Held(es)}
      BY <2>1, HeldCount
    <2> QED BY <2>1, <2>2 DEF LivePos
  <1>5. es[p].hash = h
    BY DEF Keyed
  <1> HIDE DEF e, d, b, h
  <1>6. p - 1 \in Held(es) /\ (p - 1) + 1 = p
    BY <1>4 DEF Held
  <1>7. PICK c \in 0 .. n - 1 : ix[c] = p - 1
    BY <1>4, <1>6 DEF OneToOne
  <1> DEFINE D == Distance(es, ix, c)
  <1>8. ix[c] # e /\ D = Away(n, h, c) /\ D \in 0 .. n - 1
    <2>1. ix[c] # e
      BY <1>1, <1>6, <1>7
    <2>2. D = Away(n, es[ix[c] + 1].hash, c) /\ D \in 0 .. n - 1
      BY <1>1, <2>1, DistanceRange
    <2>3. es[ix[c] + 1].hash = h
      BY <1>5, <1>6, <1>7
    <2> QED BY <2>1, <2>2, <2>3
  <1>9. From(n, h, D) = c
    <2>1. From(n, h, Away(n, h, c)) = c
      BY <1>1, <1>3, AwayRange, Zenon
    <2> QED BY <1>8, <2>1, Zenon
  <1>10. \A a \in 0 .. D : ix[From(n, h, a)] # e /\ Distance(es, ix, From(n, h, a)) >= a
    <2>1. Distance(es, ix, From(n, h, D)) >= D
      BY <1>8, <1>9
    <2> HIDE DEF D
    <2>2. RobinHood(es, ix, n, e)
      BY DEF e
    <2> QED BY <1>1, <1>3, <1>8, <1>9, <2>1, <2>2, ClusterBefore
  <1>11. d <= D
    <2> SUFFICES ASSUME D < d
                 PROVE  FALSE
      BY <1>2, <1>8
    <2>1. D \in 0 .. d - 1
      BY <1>2, <1>8
    <2>2. es[ix[From(n, h, D)] + 1].key # k
      BY <1>2, <2>1
    <2> QED BY <1>6, <1>7, <1>9, <2>2
  <1>12. ix[b] # e /\ Distance(es, ix, b) >= d
    <2> HIDE DEF D
    <2>1. d \in 0 .. D
      BY <1>2, <1>8, <1>11
    <2>2. ix[From(n, h, d)] # e /\ Distance(es, ix, From(n, h, d)) >= d
      BY <1>10, <2>1
    <2> QED BY <1>2, <2>2, Zenon
  <1>13. Distance(es, ix, b) \in 0 .. n - 1
    BY <1>1, <1>2, <1>12, DistanceRange
  <1>14. es[ix[b] + 1].key = k
    BY <1>2, <1>12, <1>13
  <1>15. ix[b] \in Held(es)
    BY <1>1, <1>2, <1>12
  <1>16. ix[b] + 1 = p
    <2>1. ix[b] + 1 \in LivePos(es)
      BY <1>4, <1>15
    <2> QED BY <1>14, <2>1 DEF Distinct
  <1>17. ix[b] = p - 1
    BY <1>15, <1>16 DEF Held
  <1> QED BY <1>2, <1>12, <1>13, <1>17 DEF b, d, e

-----------------------------------------------------------------------------
(* Changes of single entries. *)

Fresh(k, v) == Entry(make_hash(k), k, v)
Overwrites(new, es, p, k, v) == new = [es EXCEPT ![p] = Fresh(k, v)]

\* A new entry is live and is the last one.
LEMMA AppendEntry ==
    ASSUME NEW es \in Seq(Entries), NEW k \in Keys, NEW v \in Values
    PROVE  LET x == Fresh(k, v)
               new == Append(es, x)
           IN  /\ new \in Seq(Entries) /\ Len(new) = Len(es) + 1
               /\ new[Len(es) + 1] = x
               /\ \A p \in 1 .. Len(es) : new[p] = es[p]
               /\ LivePos(new) = LivePos(es) \cup {Len(es) + 1}
               /\ Held(new) = Held(es) \cup {Len(es)}
               /\ Len(es) + 1 \notin LivePos(es) /\ Len(es) \notin Held(es)
  <1> DEFINE x == Fresh(k, v)
             new == Append(es, x)
  <1>1. x \in Entries /\ ~is_deleted(x)
    BY HashTypes DEF Fresh, Entry, Entries, is_deleted
  <1> HIDE DEF x
  <1>2. Len(es) \in Nat /\ DOMAIN es = 1 .. Len(es)
        /\ new \in Seq(Entries) /\ Len(new) = Len(es) + 1 /\ DOMAIN new = 1 .. Len(es) + 1
        /\ new[Len(es) + 1] = x /\ \A p \in 1 .. Len(es) : new[p] = es[p]
    BY <1>1
  <1> HIDE DEF new
  <1>3. LivePos(new) = LivePos(es) \cup {Len(es) + 1} /\ Len(es) + 1 \notin LivePos(es)
    BY <1>1, <1>2 DEF LivePos
  <1>4. Held(new) = Held(es) \cup {Len(es)} /\ Len(es) \notin Held(es)
    <2>1. \A q \in 0 .. Len(es) - 1 : q + 1 \in 1 .. Len(es)
      BY <1>2
    <2>2. \A q : q \in 0 .. Len(new) - 1 <=> q \in 0 .. Len(es) - 1 \/ q = Len(es)
      BY <1>2
    <2>3. Len(es) \notin 0 .. Len(es) - 1
      BY <1>2
    <2> QED BY <1>1, <1>2, <2>1, <2>2, <2>3 DEF Held
  <1> QED BY <1>2, <1>3, <1>4 DEF new, x

\* Writing the value of an entry keeps which entries are live.
LEMMA OverwriteEntry ==
    ASSUME NEW es \in Seq(Entries), NEW k \in Keys, NEW v \in Values, NEW p \in LivePos(es),
           NEW new, Overwrites(new, es, p, k, v)
    PROVE  /\ new \in Seq(Entries) /\ Len(new) = Len(es)
           /\ new[p] = Fresh(k, v) /\ \A q \in DOMAIN es : q # p => new[q] = es[q]
           /\ LivePos(new) = LivePos(es) /\ Held(new) = Held(es)
  <1> DEFINE x == Fresh(k, v)
  <1>1. x \in Entries /\ ~is_deleted(x)
    BY HashTypes DEF Fresh, Entry, Entries, is_deleted
  <1>0. new = [es EXCEPT ![p] = x]
    BY DEF Overwrites
  <1> HIDE DEF x
  <1>2. p \in DOMAIN es /\ ~is_deleted(es[p])
    BY DEF LivePos
  <1>3. Len(es) \in Nat /\ DOMAIN es = 1 .. Len(es)
        /\ new \in Seq(Entries) /\ Len(new) = Len(es) /\ DOMAIN new = 1 .. Len(es)
        /\ new[p] = x /\ \A q \in 1 .. Len(es) : q # p => new[q] = es[q]
    BY <1>0, <1>1, <1>2
  <1>4. LivePos(new) = LivePos(es)
    BY <1>1, <1>2, <1>3 DEF LivePos
  <1>5. Held(new) = Held(es)
    <2>1. \A q \in 0 .. Len(es) - 1 : q + 1 \in 1 .. Len(es)
      BY <1>3
    <2> QED BY <1>1, <1>2, <1>3, <2>1 DEF Held
  <1> QED BY <1>3, <1>4, <1>5 DEF x


-----------------------------------------------------------------------------
(* What the operations do to entries and index. *)

\* set_impl adds an entry to entries and index, or overwrites the one of the key. The
\* order of the index is kept; in an ordered index it finds the key.
LEMMA SetImpl ==
    ASSUME NEW es, NEW ix, NEW cap, NEW n, Built(es, ix, cap, n), Keyed(es), Len(es) < cap,
           NEW k \in Keys, NEW v \in Values
    PROVE  LET e == index_size_class(cap)
               done == set_impl(es, ix, cap, k, v)
           IN  /\ Built(done.es, done.ix, cap, n) /\ Keyed(done.es)
               /\ RobinHood(es, ix, n, e) => RobinHood(done.es, done.ix, n, e)
               /\ done.inserted \in BOOLEAN
               /\ done.inserted =>
                    /\ done.es = Append(es, Fresh(k, v))
                    /\ RobinHood(es, ix, n, e) /\ Distinct(es) =>
                        \A p \in LivePos(es) : es[p].key # k
               /\ ~done.inserted =>
                    \E p \in LivePos(es) : es[p].key = k /\ Overwrites(done.es, es, p, k, v)
  <1> DEFINE e == index_size_class(cap)
             done == set_impl(es, ix, cap, k, v)
             d == ProbeLength(es, ix, e, k)
             b == Found(es, ix, n, e, k)
             x == Fresh(k, v)
             new == Append(es, x)
             h == make_hash(k)
             pos == Len(es)
             jx == [ix EXCEPT ![b] = pos]
             D == Distance(es, ix, b)
             T == Held(new)
  <1>1. n \in Nat \ {0} /\ DOMAIN ix = 0 .. n - 1 /\ e \notin Held(es) /\ Hashed(es, Held(es))
        /\ ix \in [0 .. n - 1 -> Held(es) \cup {e}] /\ cap \in Nat /\ cap < n /\ e \in Nat
        /\ cap <= e /\ \E c \in 0 .. n - 1 : ix[c] = e
    BY BuiltFacts
  <1>2. d \in 0 .. n - 1 /\ b \in 0 .. n - 1 /\ Away(n, h, b) = d /\ b = From(n, h, d)
        /\ (ix[b] = e \/ D < d \/ es[ix[b] + 1].key = k)
        /\ \A c \in 0 .. d - 1 : ix[From(n, h, c)] # e /\ ~(Distance(es, ix, From(n, h, c)) < c)
    <2>1. b = From(n, h, d)
      BY DEF Found
    <2> QED BY <2>1, FoundFacts
  <1>3. h \in Nat /\ h \in Int
    BY HashTypes
  <1>4. es \in Seq(Entries) /\ pos \in Nat /\ OneToOne(ix, n, e, Held(es))
        /\ n >= 2 /\ n \in Nat /\ pos < n /\ pos # e
        /\ n >= 4 /\ n <= 2 * MaxIndex /\ cap = table_capacity_for_index_capacity(n)
    BY <1>1 DEF Built
  <1>5. done = IF ix[b] = e THEN [inserted |-> TRUE, es |-> new, ix |-> jx]
               ELSE IF D < d
               THEN [inserted |-> TRUE, es |-> new,
                     ix |-> place(new, jx, e, ix[b], After(n, b), D + 1)]
               ELSE [inserted |-> FALSE, ix |-> ix, es |-> [es EXCEPT ![ix[b] + 1] = x]]
    <2>1. Buckets(ix) = n
      BY BuiltFacts
    <2> QED BY <2>1, Zenon DEF set_impl, Found, From, After, next_bucket, Fresh
  <1>6. RobinHood(es, ix, n, e) /\ Distinct(es) =>
            \A p \in LivePos(es) : es[p].key = k => ix[b] # e /\ ~(D < d)
    BY FoundThere
  <1>7. new \in Seq(Entries) /\ Len(new) = pos + 1 /\ new[pos + 1] = x
        /\ (\A p \in 1 .. pos : new[p] = es[p])
        /\ LivePos(new) = LivePos(es) \cup {pos + 1}
        /\ T = Held(es) \cup {pos} /\ pos \notin Held(es)
    BY <1>4, AppendEntry
  <1>8. x.hash = h /\ x.key = k /\ x.value = v
    BY DEF Fresh, Entry
  <1>9. LivePos(es) = {q + 1 : q \in Held(es)} /\ Held(es) \subseteq 0 .. pos - 1
    BY <1>4, HeldCount DEF Held
  <1>10. Keyed(new)
    <2>1. \A p \in LivePos(es) : p \in 1 .. pos
      BY <1>4, <1>9
    <2> HIDE DEF new, x, h
    <2> QED BY <1>7, <1>8, <2>1 DEF Keyed, h
  <1> HIDE DEF e, done, d, b, x, new, h, pos
  <1>11. e \notin T /\ pos \in T /\ T \ {pos} = Held(es)
    BY <1>1, <1>4, <1>7
  <1>12. \A s \in Held(es) : es[s + 1].hash = new[s + 1].hash
    <2>1. \A s \in Held(es) : s + 1 \in 1 .. pos
      BY <1>4, <1>9
    <2> QED BY <1>7, <2>1
  <1>13. Hashed(new, T)
    BY <1>1, <1>3, <1>7, <1>8, <1>12 DEF Hashed
  <1>14. pos + 1 <= cap
    BY <1>1, <1>4 DEF pos
  <1> HIDE DEF T
  <1>15. RobinHood(es, ix, n, e) => RobinHood(new, ix, n, e)
    BY <1>1, <1>12, OrderSame, Zenon
  <1>16. D \in 0 .. n - 1 \/ ix[b] = e
    BY <1>1, <1>2, DistanceRange
  <1>17. ix[b] # e => Distance(new, ix, b) = D
    <2> SUFFICES ASSUME ix[b] # e
                 PROVE  Distance(new, ix, b) = D
      OBVIOUS
    <2>1. new[ix[b] + 1].hash = es[ix[b] + 1].hash
      BY <1>1, <1>2, <1>12
    <2> QED BY <1>1, <2>1, DistanceSame
  <1>18. RobinHood(es, ix, n, e) => Fits(new, ix, n, e, pos, b, d)
    <2> SUFFICES ASSUME RobinHood(es, ix, n, e), d > 0,
                        NEW c \in 0 .. n - 1, After(n, c) = b
                 PROVE  ix[c] # e /\ Distance(new, ix, c) >= d - 1
      <3>1. d = Away(n, new[pos + 1].hash, b)
        BY <1>2, <1>7, <1>8
      <3> QED BY <3>1 DEF Fits
    <2>1. d - 1 \in 0 .. d - 1 /\ d - 1 \in Int /\ (d - 1) + 1 = d
      BY <1>2
    <2>2. From(n, h, d - 1) \in 0 .. n - 1 /\ After(n, From(n, h, d - 1)) = b
      <3>1. From(n, h, d - 1) \in 0 .. n - 1 /\ From(n, h, (d - 1) + 1) = After(n, From(n, h, d - 1))
        BY <1>1, <1>3, <2>1, FromNext, Zenon
      <3> QED BY <1>2, <2>1, <3>1, Zenon
    <2>3. c = From(n, h, d - 1)
      BY <1>1, <2>2, AfterOneToOne
    <2>4. ix[c] # e /\ ~(Distance(es, ix, c) < d - 1)
      BY <1>2, <2>1, <2>3, Zenon
    <2>5. Distance(es, ix, c) \in 0 .. n - 1
      BY <1>1, <2>4, DistanceRange
    <2>6. new[ix[c] + 1].hash = es[ix[c] + 1].hash
      BY <1>1, <1>12, <2>4
    <2>7. Distance(new, ix, c) = Distance(es, ix, c)
      BY <1>1, <2>6, DistanceSame
    <2> QED BY <1>2, <2>4, <2>5, <2>7
  <1> HIDE DEF D
  <1>19. ASSUME NEW kx, OneToOne(kx, n, e, T)
         PROVE  Built(new, kx, cap, n)
    BY <1>4, <1>7, <1>14, <1>19 DEF Built, T, e
  <1>20. ix \in [0 .. n - 1 -> T \cup {e}] /\ T \ {pos} = Held(es)
    BY <1>1, <1>11
  <1> HIDE DEF jx
  <1>21. CASE ix[b] = e
    <2>1. done.es = new /\ done.ix = jx /\ done.inserted = TRUE
      BY <1>5, <1>21
    <2>2. OneToOne(jx, n, e, T)
      BY <1>1, <1>2, <1>4, <1>11, <1>21, PutOneToOne DEF jx
    <2>3. RobinHood(es, ix, n, e) => RobinHood(new, jx, n, e)
      BY <1>1, <1>2, <1>4, <1>11, <1>13, <1>15, <1>18, <1>20, <1>21, PutKeepsOrder, Zenon DEF jx
    <2>4. Built(new, jx, cap, n)
      BY <1>19, <2>2
    <2> QED BY <1>6, <1>10, <1>21, <2>1, <2>3, <2>4 DEF e, done, x, new
  <1>22. CASE ix[b] # e /\ D < d
    <2> DEFINE j == ix[b]
               c == After(n, b)
               kx == place(new, jx, e, j, c, D + 1)
    <2>1. done.es = new /\ done.ix = kx /\ done.inserted = TRUE
      BY <1>5, <1>22
    <2>2. OneToOne(jx, n, e, T \ {j}) /\ j \in T
      <3>1. OneToOne(ix, n, e, T \ {pos})
        BY <1>4, <1>11
      <3> QED BY <1>1, <1>2, <1>11, <1>22, <3>1, SwapOneToOne, Zenon DEF jx
    <2>3. RobinHood(es, ix, n, e) => RobinHood(new, jx, n, e) /\ Fits(new, jx, n, e, j, c, D + 1)
      <3> SUFFICES ASSUME RobinHood(es, ix, n, e)
                   PROVE  RobinHood(new, jx, n, e) /\ Fits(new, jx, n, e, j, c, D + 1)
        OBVIOUS
      <3>1. RobinHood(new, ix, n, e) /\ Fits(new, ix, n, e, pos, b, d)
        BY <1>15, <1>18
      <3>2. Distance(new, ix, b) = D /\ Distance(new, ix, b) < d
        BY <1>17, <1>22
      <3>3. RobinHood(new, jx, n, e)
            /\ Fits(new, jx, n, e, j, c, Distance(new, ix, b) + 1)
        BY <1>2, <1>4, <1>11, <1>13, <1>20, <1>22, <3>1, <3>2, SwapKeepsOrder, Zenon DEF jx
      <3> QED BY <3>2, <3>3, Zenon
    <2>4. c \in 0 .. n - 1
      BY <1>1, <1>2, AfterCases
    <2>5. \E a \in 0 .. n - 1 : jx[a] = e
      <3>1. PICK a \in 0 .. n - 1 : ix[a] = e
        BY <1>1
      <3>2. a # b
        BY <1>22, <3>1
      <3> QED BY <1>1, <3>1, <3>2 DEF jx
    <2> HIDE DEF j, c
    <2>6. OneToOne(kx, n, e, T) /\ (RobinHood(es, ix, n, e) => RobinHood(new, kx, n, e))
      BY <1>4, <1>11, <1>13, <2>2, <2>3, <2>4, <2>5, Place, Zenon
    <2> HIDE DEF kx
    <2>7. Built(new, kx, cap, n)
      BY <1>19, <2>6
    <2> QED BY <1>6, <1>10, <1>22, <2>1, <2>6, <2>7 DEF e, done, x, new
  <1>23. CASE ix[b] # e /\ ~(D < d)
    <2>0. PICK p, os : p = ix[b] + 1 /\ os = [es EXCEPT ![p] = x]
      OBVIOUS
    <2>1. done.es = os /\ done.ix = ix /\ done.inserted = FALSE
      BY <1>5, <1>23, <2>0
    <2>2. p \in LivePos(es) /\ es[p].key = k
      BY <1>1, <1>2, <1>9, <1>23, <2>0
    <2>3. os \in Seq(Entries) /\ Len(os) = pos /\ os[p] = x
          /\ (\A q \in DOMAIN es : q # p => os[q] = es[q])
          /\ LivePos(os) = LivePos(es) /\ Held(os) = Held(es)
      <3>1. Overwrites(os, es, p, k, v)
        BY <2>0 DEF x, Overwrites
      <3>2. es \in Seq(Entries) /\ p \in LivePos(es)
        BY <1>4, <2>2
      <3>3. os \in Seq(Entries) /\ Len(os) = Len(es) /\ os[p] = Fresh(k, v)
            /\ (\A q \in DOMAIN es : q # p => os[q] = es[q])
            /\ LivePos(os) = LivePos(es) /\ Held(os) = Held(es)
        BY <3>1, <3>2, OverwriteEntry
      <3> QED BY <3>3 DEF x, pos
    <2>4. \A q \in LivePos(es) : os[q].hash = es[q].hash /\ os[q].key = es[q].key
            /\ (os[q].value = es[q].value \/ os[q].value = v)
      <3>1. es[p].hash = h
        BY <2>2 DEF Keyed, h
      <3>2. \A q \in LivePos(es) : q \in DOMAIN es
        BY DEF LivePos
      <3> QED BY <1>8, <2>2, <2>3, <3>1, <3>2
    <2>5. Keyed(os)
      BY <2>3, <2>4 DEF Keyed
    <2>6. Built(os, ix, cap, n)
      BY <1>1, <1>4, <2>3 DEF Built, e, pos
    <2>7. RobinHood(es, ix, n, e) => RobinHood(os, ix, n, e)
      <3>1. \A s \in Held(es) : es[s + 1].hash = os[s + 1].hash
        BY <1>9, <2>4
      <3> QED BY <1>1, <3>1, OrderSame, Zenon
    <2> QED BY <2>0, <2>1, <2>2, <2>5, <2>6, <2>7 DEF e, done, x, Overwrites
  <1> QED BY <1>21, <1>22, <1>23

\* Closing the holes and building the index up again, with the same number of buckets
\* or another one.
LEMMA Rebuilt ==
    ASSUME NEW es \in Seq(Entries), NEW n \in Nat, n >= 4, n <= 2 * MaxIndex, NEW cap,
           cap = table_capacity_for_index_capacity(n), Cardinality(LivePos(es)) <= cap
    PROVE  LET e == index_size_class(cap)
               rx == rehash_index(Live(es), n, e)
           IN  Built(Live(es), rx, cap, n) /\ RobinHood(Live(es), rx, n, e)
  <1> DEFINE e == index_size_class(cap)
             ls == Live(es)
             rx == rehash_index(ls, n, e)
  <1>1. ls \in Seq(Entries) /\ Len(ls) = Cardinality(LivePos(es)) /\ Held(ls) = 0 .. Len(ls) - 1
    BY LiveEntries
  <1>2. cap \in Nat /\ cap < n /\ e \in Nat /\ cap <= e
    BY CapacityFacts, SizeClass
  <1> HIDE DEF e, ls
  <1>3. Len(ls) \in Nat /\ n >= 2 /\ Len(ls) < n /\ Len(ls) <= cap
    BY <1>1, <1>2
  <1>4. e \notin 0 .. Len(ls) - 1
    BY <1>2, <1>3
  <1>5. \A p \in 1 .. Len(ls) : ls[p].hash \in Nat
    <2>1. \A p \in 1 .. Len(ls) : ls[p] \in Entries
      BY <1>1
    <2> QED BY <2>1 DEF Entries
  <1>6. OneToOne(rx, n, e, Held(ls)) /\ RobinHood(ls, rx, n, e)
    BY <1>1, <1>3, <1>4, <1>5, Rehash
  <1> HIDE DEF rx
  <1>7. Built(ls, rx, cap, n)
    BY <1>1, <1>3, <1>6 DEF Built, e
  <1> QED BY <1>6, <1>7 DEF e, ls, rx

-----------------------------------------------------------------------------
(* The table of a state. *)

\* Entries, index and size describe the same table.
TableInv ==
    /\ entries \in Seq(Entries) /\ Keyed(entries)
    /\ size = Cardinality(LivePos(entries))
    /\ capacity \in Nat
    /\ capacity = 0 => entries = <<>> /\ index = <<>>
    /\ capacity # 0 => \E n : Built(entries, index, capacity, n)
    /\ cursor \in [Iterators -> Int]

Ordered(es, ix, cap) == cap # 0 => RobinHood(es, ix, Buckets(ix), index_size_class(cap))

\* Sizes of the table between operations.
LEMMA SizeFacts ==
    ASSUME TableInv
    PROVE  /\ size \in Nat /\ size <= Len(entries) /\ Len(entries) <= capacity /\ Len(entries) \in Nat
           /\ LivePos(entries) # {} => size > 0 /\ capacity # 0
           /\ size > 0 => capacity # 0
  <1>1. entries \in Seq(Entries) /\ size = Cardinality(LivePos(entries))
    BY DEF TableInv
  <1>2. size \in Nat /\ size <= Len(entries) /\ Len(entries) \in Nat /\ IsFiniteSet(LivePos(entries))
    BY <1>1, HeldCount
  <1>3. Len(entries) <= capacity /\ (capacity = 0 => Len(entries) = 0)
    BY DEF TableInv, Built
  <1>4. LivePos(entries) # {} => size # 0
    BY <1>1, <1>2, FS_EmptySet
  <1> QED BY <1>2, <1>3, <1>4

\* After ensure_free_capacity there is room, and the entries are the same or have
\* lost their holes.
LEMMA Room ==
    ASSUME TableInv
    PROVE  LET room == ensure_free_capacity
           IN  room.ok =>
                /\ room.cap \in Nat \ {0} /\ Len(room.es) < room.cap /\ Len(room.es) \in Nat
                /\ \E n : Built(room.es, room.ix, room.cap, n)
                /\ room.es = entries \/ room.es = Live(entries)
                /\ Keyed(room.es)
                /\ Ordered(entries, index, capacity) => Ordered(room.es, room.ix, room.cap)
  <1> DEFINE room == ensure_free_capacity
             grown == 2 * Buckets(index)
             larger == table_capacity_for_index_capacity(grown)
             first == table_capacity_for_index_capacity(InitialIndex)
             should_grow == size \div 3 >= capacity \div 4
             Goal == /\ room.cap \in Nat \ {0} /\ Len(room.es) < room.cap /\ Len(room.es) \in Nat
                     /\ \E n : Built(room.es, room.ix, room.cap, n)
                     /\ room.es = entries \/ room.es = Live(entries)
                     /\ Keyed(room.es)
                     /\ Ordered(entries, index, capacity) => Ordered(room.es, room.ix, room.cap)
  <1> SUFFICES ASSUME room.ok
               PROVE  Goal
    OBVIOUS
  <1>1. entries \in Seq(Entries) /\ Keyed(entries) /\ size = Cardinality(LivePos(entries))
        /\ capacity \in Nat /\ size \in Nat /\ size <= Len(entries) /\ Len(entries) <= capacity
        /\ Len(entries) \in Nat
    BY SizeFacts DEF TableInv
  <1>2. Keyed(Live(entries)) /\ Len(Live(entries)) = size
    BY <1>1, LiveContents, LiveEntries
  <1>3. CASE capacity = 0
    <2>1. entries = <<>>
      BY <1>3 DEF TableInv
    <2>2. room = [ok |-> TRUE, es |-> <<>>, cap |-> first,
                  ix |-> EmptyIndex(InitialIndex, index_size_class(first))]
      <3>1. ~(capacity > 0)
        BY <1>3
      <3> QED BY <1>3, <3>1, Zenon DEF ensure_free_capacity
    <2>3. InitialIndex \in Nat /\ InitialIndex >= 4 /\ InitialIndex <= 2 * MaxIndex
      BY HashAssumption
    <2>4. first \in Nat \ {0} /\ InitialIndex \in Nat \ {0}
      BY <2>3, CapacityFacts
    <2> DEFINE e == index_size_class(first)
               nx == EmptyIndex(InitialIndex, e)
    <2>5. OneToOne(nx, InitialIndex, e, {}) /\ RobinHood(<<>>, nx, InitialIndex, e)
      <3> HIDE DEF e
      <3> QED BY <2>4, EmptyIndexOneToOne
    <2>6. Held(<<>>) = {} /\ Len(<<>>) = 0 /\ <<>> \in Seq(Entries)
      BY DEF Held
    <2> HIDE DEF nx
    <2>7. Built(<<>>, nx, first, InitialIndex)
      <3>1. first = table_capacity_for_index_capacity(InitialIndex)
        OBVIOUS
      <3>2. OneToOne(nx, InitialIndex, index_size_class(first), Held(<<>>))
        BY <2>5, <2>6, Zenon
      <3> HIDE DEF first, e
      <3>3. Len(<<>>) <= first
        BY <2>4, <2>6
      <3> QED BY <2>3, <2>6, <3>1, <3>2, <3>3, Zenon DEF Built
    <2>8. Buckets(nx) = InitialIndex
      BY <2>7, BuiltFacts
    <2>9. Ordered(<<>>, nx, first)
      BY <2>5, <2>8 DEF Ordered
    <2>10. room = [ok |-> TRUE, es |-> <<>>, cap |-> first, ix |-> nx]
      BY <2>2, Zenon DEF nx
    <2> HIDE DEF room, first
    <2>11. room.es = <<>> /\ room.cap = first /\ room.ix = nx
      BY <2>10
    <2>12. Len(room.es) < room.cap /\ Len(room.es) \in Nat /\ room.cap \in Nat \ {0}
      BY <2>4, <2>6, <2>11
    <2> QED BY <1>1, <2>1, <2>7, <2>9, <2>11, <2>12
  <1>4. CASE capacity > 0
    <2>1. capacity # 0
      BY <1>4
    <2>2. PICK n : Built(entries, index, capacity, n)
      BY <2>1 DEF TableInv
    <2>3. Buckets(index) = n /\ n \in Nat \ {0}
      BY <2>2, BuiltFacts
    <2>4. n \in Nat /\ n >= 4 /\ n <= 2 * MaxIndex /\ capacity = table_capacity_for_index_capacity(n)
      BY <2>2 DEF Built
    <2>5. CASE Len(entries) < capacity
      <3>1. room = [ok |-> TRUE, es |-> entries, cap |-> capacity, ix |-> index]
        <4>1. ~(Len(entries) = capacity)
          BY <1>1, <2>5
        <4> QED BY <1>4, <2>1, <2>5, <4>1, Zenon DEF ensure_free_capacity
      <3> QED BY <1>1, <2>1, <2>2, <2>5, <3>1
    <2>6. CASE Len(entries) = capacity /\ should_grow
      <3>0. ~(Len(entries) < capacity)
        BY <1>1, <2>6
      <3>1. room = IF Buckets(index) >= MaxIndex
                   THEN [ok |-> FALSE, es |-> entries, cap |-> capacity, ix |-> index]
                   ELSE [ok |-> TRUE, es |-> Live(entries), cap |-> larger,
                         ix |-> rehash_index(Live(entries), grown, index_size_class(larger))]
        BY <1>4, <2>1, <2>6, <3>0, Zenon DEF ensure_free_capacity
      <3>2. SUFFICES ASSUME ~(Buckets(index) >= MaxIndex)
                     PROVE  Goal
        BY <3>1
      <3>3. grown = 2 * n /\ grown \in Nat /\ grown >= 4 /\ grown <= 2 * MaxIndex
        BY HashAssumption, <2>3, <2>4, <3>2
      <3>4. larger \in Nat \ {0} /\ capacity < larger
        BY <2>4, <3>3, CapacityFacts
      <3>5. Cardinality(LivePos(entries)) <= larger /\ size < larger
        BY <1>1, <3>4
      <3> DEFINE nx == rehash_index(Live(entries), grown, index_size_class(larger))
      <3>6. Built(Live(entries), nx, larger, grown)
            /\ RobinHood(Live(entries), nx, grown, index_size_class(larger))
        <4> DEFINE g == grown
        <4> HIDE DEF g
        <4>1. g \in Nat /\ g >= 4 /\ g <= 2 * MaxIndex
              /\ Cardinality(LivePos(entries)) <= table_capacity_for_index_capacity(g)
          BY <3>3, <3>5 DEF g
        <4> DEFINE l == table_capacity_for_index_capacity(g)
        <4>2. Built(Live(entries), rehash_index(Live(entries), g, index_size_class(l)), l, g)
              /\ RobinHood(Live(entries), rehash_index(Live(entries), g, index_size_class(l)),
                           g, index_size_class(l))
          <5> HIDE DEF l
          <5> QED BY <1>1, <4>1, Rebuilt DEF l
        <4> QED BY <4>2, Zenon DEF g
      <3> HIDE DEF nx
      <3>7. Buckets(nx) = grown
        BY <3>6, BuiltFacts
      <3>8. Ordered(Live(entries), nx, larger)
        BY <3>6, <3>7 DEF Ordered
      <3>9. room = [ok |-> TRUE, es |-> Live(entries), cap |-> larger, ix |-> nx]
        BY <3>1, <3>2, Zenon DEF nx
      <3> HIDE DEF larger, grown, room
      <3> QED BY <1>1, <1>2, <3>4, <3>5, <3>6, <3>8, <3>9
    <2>7. CASE Len(entries) = capacity /\ ~should_grow
      <3>0. ~(Len(entries) < capacity)
        BY <1>1, <2>7
      <3> DEFINE nx == rehash_index(Live(entries), Buckets(index), Empty)
      <3>1. room = [ok |-> TRUE, es |-> Live(entries), cap |-> capacity, ix |-> nx]
        BY <1>4, <2>1, <2>7, <3>0, Zenon DEF ensure_free_capacity
      <3>2. size < capacity
        <4>1. size \div 3 < capacity \div 4
          BY <1>1, <2>7
        <4>2. size \div 3 \in Nat /\ capacity \div 4 \in Nat /\ size < 3 * (size \div 3) + 3
              /\ 4 * (capacity \div 4) <= capacity
          BY <1>1
        <4> QED BY <1>1, <4>1, <4>2
      <3>3. nx = rehash_index(Live(entries), n, index_size_class(capacity))
        BY <2>3 DEF Empty
      <3>4. Built(Live(entries), nx, capacity, n)
            /\ RobinHood(Live(entries), nx, n, index_size_class(capacity))
        <4>1. Cardinality(LivePos(entries)) <= capacity
          BY <1>1, <3>2
        <4> HIDE DEF nx
        <4> QED BY <1>1, <2>4, <3>3, <4>1, Rebuilt
      <3> HIDE DEF nx
      <3>5. Buckets(nx) = n
        BY <3>4, BuiltFacts
      <3>6. Ordered(Live(entries), nx, capacity)
        BY <3>4, <3>5 DEF Ordered
      <3> HIDE DEF room
      <3> QED BY <1>1, <1>2, <2>1, <3>1, <3>2, <3>4, <3>6
    <2>8. Len(entries) < capacity \/ Len(entries) = capacity
      BY <1>1
    <2> QED BY <2>5, <2>6, <2>7, <2>8
  <1> QED BY <1>1, <1>3, <1>4

\* Exactly the entry at pos goes.
LEMMA Removed ==
    ASSUME TableInv, NEW pos \in LivePos(entries)
    PROVE  LET es == RemoveEntry(entries, pos)
           IN  /\ es \in Seq(Entries) /\ Len(es) <= Len(entries)
               /\ LivePos(es) = LivePos(entries) \ {pos}
               /\ Held(es) = Held(entries) \ {pos - 1}
               /\ \A p \in LivePos(es) : es[p] = entries[p]
               /\ Cardinality(LivePos(es)) = size - 1
  <1> DEFINE es == RemoveEntry(entries, pos)
  <1>1. entries \in Seq(Entries) /\ size = Cardinality(LivePos(entries))
    BY DEF TableInv
  <1>2. Len(entries) \in Nat /\ DOMAIN entries = 1 .. Len(entries) /\ pos \in 1 .. Len(entries)
    BY <1>1 DEF LivePos
  <1>3. IsFiniteSet(LivePos(entries))
    BY <1>1, HeldCount
  <1>4. es \in Seq(Entries) /\ Len(es) <= Len(entries)
        /\ LivePos(es) = LivePos(entries) \ {pos}
        /\ \A p \in LivePos(es) : es[p] = entries[p]
    <2>1. CASE size = 1
      <3>1. es = <<>>
        BY <2>1 DEF RemoveEntry
      <3>2. LivePos(entries) = {pos}
        <4>1. IsFiniteSet({pos}) /\ Cardinality({pos}) = 1
          BY FS_Singleton
        <4> QED BY <1>1, <1>3, <2>1, <4>1, FS_Subset
      <3>3. LivePos(<<>>) = {} /\ <<>> \in Seq(Entries) /\ Len(<<>>) = 0
        BY DEF LivePos
      <3> HIDE DEF es
      <3> QED BY <1>2, <3>1, <3>2, <3>3
    <2>2. CASE size # 1 /\ pos = Len(entries)
      <3>1. es = SubSeq(entries, 1, Len(entries) - 1)
        BY <2>2 DEF RemoveEntry
      <3> HIDE DEF es
      <3>2. es \in Seq(Entries) /\ Len(es) = Len(entries) - 1 /\ DOMAIN es = 1 .. Len(entries) - 1
            /\ \A p \in 1 .. Len(entries) - 1 : es[p] = entries[p]
        BY <1>1, <1>2, <3>1
      <3>3. LivePos(es) = LivePos(entries) \ {pos}
        BY <1>2, <2>2, <3>2 DEF LivePos
      <3>4. \A p \in LivePos(es) : p \in 1 .. Len(entries) - 1
        BY <3>2 DEF LivePos
      <3> QED BY <1>2, <3>2, <3>3, <3>4
    <2>3. CASE size # 1 /\ pos # Len(entries)
      <3>1. es = [entries EXCEPT ![pos] = Deleted]
        BY <2>3 DEF RemoveEntry
      <3>2. Deleted \in Entries /\ is_deleted(Deleted)
        BY HashAssumption DEF Deleted, Entries, is_deleted
      <3> HIDE DEF es
      <3>3. es \in Seq(Entries) /\ Len(es) = Len(entries) /\ DOMAIN es = 1 .. Len(entries)
            /\ es[pos] = Deleted /\ \A p \in 1 .. Len(entries) : p # pos => es[p] = entries[p]
        BY <1>1, <1>2, <3>1, <3>2
      <3>4. LivePos(es) = LivePos(entries) \ {pos}
        BY <1>2, <3>2, <3>3 DEF LivePos
      <3>5. \A p \in LivePos(es) : p \in 1 .. Len(entries) /\ p # pos
        BY <3>2, <3>3 DEF LivePos
      <3> QED BY <1>2, <3>3, <3>4, <3>5
    <2> QED BY <2>1, <2>2, <2>3
  <1> HIDE DEF es
  <1>5. Held(es) = Held(entries) \ {pos - 1}
    <2>1. LivePos(es) = {q + 1 : q \in Held(es)} /\ LivePos(entries) = {q + 1 : q \in Held(entries)}
      BY <1>1, <1>4, HeldCount
    <2>2. (\A q \in Held(es) : q \in Int) /\ \A q \in Held(entries) : q \in Int
      BY DEF Held
    <2>3. \A q \in Held(es) : q + 1 \in LivePos(entries) /\ q + 1 # pos
      BY <1>4, <2>1
    <2>4. \A q \in Held(es) : q \in Held(entries) /\ q # pos - 1
      BY <1>2, <2>1, <2>2, <2>3
    <2>5. \A q \in Held(entries) : q # pos - 1 => q + 1 \in LivePos(es)
      BY <1>2, <1>4, <2>1, <2>2
    <2>6. \A q \in Held(entries) : q # pos - 1 => q \in Held(es)
      BY <2>1, <2>2, <2>5
    <2> QED BY <2>4, <2>6
  <1>6. Cardinality(LivePos(es)) = size - 1
    <2>1. pos \in LivePos(entries)
      OBVIOUS
    <2> QED BY <1>1, <1>3, <1>4, <2>1, FS_RemoveElement
  <1> QED BY <1>4, <1>5, <1>6 DEF es

\* A key that find_impl finds is the key of the entry in that bucket; in an ordered
\* index it finds every key that is there.
LEMMA FindImpl ==
    ASSUME TableInv, NEW k \in Keys
    PROVE  LET b == find_impl(k)
           IN  /\ b # -1 =>
                    /\ capacity # 0 /\ b \in 0 .. Buckets(index) - 1
                    /\ index[b] # Empty /\ index[b] \in Held(entries)
                    /\ index[b] + 1 \in LivePos(entries) /\ entries[index[b] + 1].key = k
               /\ Ordered(entries, index, capacity) /\ Distinct(entries) =>
                    \A p \in LivePos(entries) :
                        entries[p].key = k => b # -1 /\ index[b] + 1 = p
  <1> DEFINE d == ProbeLength(entries, index, Empty, k)
             a == (make_hash(k) + d) % Buckets(index)
             b == find_impl(k)
             hit == /\ size > 0
                    /\ index[a] # Empty
                    /\ Distance(entries, index, a) >= d
                    /\ entries[index[a] + 1].key = k
  <1>1. b = IF hit THEN a ELSE -1
    BY Zenon DEF find_impl
  <1>2. LivePos(entries) # {} => size > 0
    BY SizeFacts
  <1>3. CASE size > 0
    <2>1. capacity # 0
      BY <1>3, SizeFacts
    <2>2. PICK n : Built(entries, index, capacity, n)
      BY <2>1 DEF TableInv
    <2>3. Buckets(index) = n /\ n \in Nat \ {0} /\ index \in [0 .. n - 1 -> Held(entries) \cup {Empty}]
          /\ Hashed(entries, Held(entries)) /\ Empty \notin Held(entries)
      BY <2>2, BuiltFacts DEF Empty
    <2>4. a = Found(entries, index, n, Empty, k)
      BY <2>3, Zenon DEF Found, From
    <2>5. a \in 0 .. n - 1 /\ d \in 0 .. n - 1
      BY <2>2, <2>4, FoundFacts DEF Empty
    <2> HIDE DEF a, d
    <2>6. a # -1
      BY <2>5
    <2>7. entries \in Seq(Entries) /\ LivePos(entries) = {q + 1 : q \in Held(entries)}
      BY HeldCount DEF TableInv
    <2>8. hit => index[a] \in Held(entries) /\ index[a] + 1 \in LivePos(entries)
      BY <2>3, <2>5, <2>7
    <2>9. ASSUME Ordered(entries, index, capacity), Distinct(entries),
                 NEW p \in LivePos(entries), entries[p].key = k
          PROVE  hit /\ index[a] + 1 = p
      <3>1. RobinHood(entries, index, n, index_size_class(capacity))
        BY <2>1, <2>3, <2>9 DEF Ordered
      <3>2. index[a] = p - 1 /\ index[a] # Empty /\ ~(Distance(entries, index, a) < d)
        <4>1. Keyed(entries)
          BY DEF TableInv
        <4> QED BY <2>2, <2>4, <2>9, <3>1, <4>1, FoundThere DEF Empty, d
      <3>3. Distance(entries, index, a) \in 0 .. n - 1
        BY <2>3, <2>5, <3>2, DistanceRange
      <3>4. p \in Int
        BY <2>7 DEF LivePos
      <3>5. index[a] + 1 = p
        BY <3>2, <3>4
      <3> QED BY <1>3, <2>5, <2>9, <3>2, <3>3, <3>5
    <2> HIDE DEF b
    <2> QED BY <1>1, <2>1, <2>3, <2>5, <2>6, <2>8, <2>9 DEF b
  <1>4. CASE ~(size > 0)
    <2>1. b = -1
      BY <1>1, <1>4
    <2> QED BY <1>2, <1>4, <2>1
  <1> QED BY <1>3, <1>4

\* Taking the entry of a bucket from entries and index, then closing the holes.
LEMMA Removal ==
    ASSUME TableInv, NEW k \in Keys, find_impl(k) # -1
    PROVE  LET b == find_impl(k)
               es == RemoveEntry(entries, index[b] + 1)
               closed == compact(es, remove_from_index(es, index, Empty, b))
           IN  /\ capacity # 0
               /\ \E n : Built(closed.es, closed.ix, capacity, n)
               /\ Keyed(es) /\ Keyed(closed.es) /\ es \in Seq(Entries)
               /\ Cardinality(LivePos(closed.es)) = size - 1
               /\ closed.es = es \/ closed.es = Live(es)
               /\ index[b] + 1 \in LivePos(entries) /\ entries[index[b] + 1].key = k
               /\ LivePos(es) = LivePos(entries) \ {index[b] + 1}
               /\ \A p \in LivePos(es) : es[p] = entries[p]
               /\ Ordered(entries, index, capacity) /\ ~LeavesBehind(es, index, Empty, b) =>
                    Ordered(closed.es, closed.ix, capacity)
  <1> DEFINE b == find_impl(k)
             pos == index[b] + 1
             es == RemoveEntry(entries, pos)
             rx == remove_from_index(es, index, Empty, b)
             closed == compact(es, rx)
             T == Held(entries)
  <1>1. capacity # 0 /\ b \in 0 .. Buckets(index) - 1 /\ index[b] # Empty /\ index[b] \in T
        /\ pos \in LivePos(entries) /\ entries[pos].key = k
    BY FindImpl
  <1>2. PICK n : Built(entries, index, capacity, n)
    BY <1>1 DEF TableInv
  <1>3. Buckets(index) = n /\ n \in Nat \ {0} /\ Hashed(entries, T) /\ Empty \notin T
        /\ DOMAIN index = 0 .. n - 1
    BY <1>2, BuiltFacts DEF Empty
  <1>4. n \in Nat /\ n >= 4 /\ n <= 2 * MaxIndex /\ capacity = table_capacity_for_index_capacity(n)
        /\ OneToOne(index, n, Empty, T) /\ Len(entries) <= capacity
    BY <1>2 DEF Built, Empty
  <1> HIDE DEF b
  <1>5. es \in Seq(Entries) /\ Len(es) <= Len(entries)
        /\ LivePos(es) = LivePos(entries) \ {pos}
        /\ Held(es) = T \ {pos - 1}
        /\ (\A p \in LivePos(es) : es[p] = entries[p])
        /\ Cardinality(LivePos(es)) = size - 1
    <2> HIDE DEF pos
    <2> QED BY <1>1, Removed
  <1>6. pos - 1 = index[b]
    <2>1. index[b] \in Int
      BY <1>1 DEF Held
    <2> QED BY <2>1
  <1>7. entries \in Seq(Entries) /\ Keyed(entries) /\ size \in Nat /\ Len(entries) \in Nat /\ capacity \in Nat
    BY SizeFacts DEF TableInv
  <1> HIDE DEF es
  <1>8. Keyed(es)
    BY <1>5, <1>7 DEF Keyed
  <1>9. LivePos(es) = {q + 1 : q \in Held(es)} /\ Len(es) \in Nat
    BY <1>5, HeldCount
  <1>10. \A s \in T \ {index[b]} : es[s + 1].hash = entries[s + 1].hash
    BY <1>5, <1>6, <1>9
  <1> HIDE DEF pos, T
  <1>11. OneToOne(rx, n, Empty, T \ {index[b]})
         /\ (RobinHood(entries, index, n, Empty) /\ ~LeavesBehind(es, index, Empty, b) =>
                RobinHood(es, rx, n, Empty))
    <2>1. n >= 3 /\ b \in 0 .. n - 1
      BY <1>1, <1>3, <1>4
    <2> QED BY <1>1, <1>3, <1>4, <1>10, <2>1, RemoveFromIndex, Zenon
  <1> HIDE DEF rx
  <1>12. OneToOne(rx, n, Empty, Held(es))
    BY <1>5, <1>6, <1>11
  <1>13. DOMAIN rx = 0 .. n - 1 /\ Buckets(rx) = n
    <2>1. DOMAIN rx = 0 .. n - 1
      BY <1>12 DEF OneToOne
    <2> QED BY <1>4, <2>1, BucketsOf
  <1>14. CASE size - 1 <= Len(es) \div 2 /\ size - 1 # Len(es)
    <2> DEFINE nx == rehash_index(Live(es), Buckets(rx), Empty)
    <2>1. closed.es = Live(es) /\ closed.ix = nx
      BY <1>14 DEF compact
    <2>2. Cardinality(LivePos(es)) <= capacity
      BY <1>4, <1>5, <1>7, <1>9, <1>14
    <2>3. Built(Live(es), nx, capacity, n) /\ RobinHood(Live(es), nx, n, Empty)
      <3>1. nx = rehash_index(Live(es), n, index_size_class(capacity))
        BY <1>13 DEF Empty
      <3> HIDE DEF nx
      <3> QED BY <1>4, <1>5, <2>2, <3>1, Rebuilt DEF Empty
    <2> HIDE DEF closed, nx
    <2>4. Buckets(nx) = n
      BY <2>3, BuiltFacts
    <2>5. Ordered(closed.es, closed.ix, capacity)
      BY <2>1, <2>3, <2>4 DEF Ordered, Empty
    <2>6. Keyed(closed.es) /\ Cardinality(LivePos(closed.es)) = size - 1
      <3>1. Len(Live(es)) = size - 1 /\ LivePos(Live(es)) = 1 .. Len(Live(es))
        BY <1>5, LiveEntries
      <3>2. Cardinality(1 .. size - 1) = size - 1
        <4>1. size - 1 \in Nat
          BY <1>5, HeldCount
        <4> QED BY <4>1, PositionNumber, Zenon
      <3>3. Keyed(Live(es))
        BY <1>5, <1>8, LiveContents
      <3> QED BY <2>1, <3>1, <3>2, <3>3
    <2>7. \E m : Built(closed.es, closed.ix, capacity, m)
      BY <2>1, <2>3
    <2> QED BY <1>1, <1>5, <1>8, <2>1, <2>5, <2>6, <2>7 DEF b, pos, es, rx, closed
  <1>15. CASE ~(size - 1 <= Len(es) \div 2 /\ size - 1 # Len(es))
    <2>1. closed.es = es /\ closed.ix = rx
      BY <1>15 DEF compact
    <2>2. Len(es) <= capacity
      BY <1>4, <1>5, <1>7, <1>9
    <2>3. Built(es, rx, capacity, n)
      BY <1>4, <1>5, <1>12, <2>2 DEF Built, Empty
    <2>4. Ordered(entries, index, capacity) /\ ~LeavesBehind(es, index, Empty, b) =>
            Ordered(es, rx, capacity)
      BY <1>1, <1>3, <1>11, <1>13 DEF Ordered, Empty
    <2> HIDE DEF closed
    <2>5. \E m : Built(closed.es, closed.ix, capacity, m)
      BY <2>1, <2>3
    <2> QED BY <1>1, <1>5, <1>8, <2>1, <2>4, <2>5 DEF b, pos, es, rx, closed
  <1> QED BY <1>14, <1>15

\* A table without entries.
LEMMA Emptied ==
    ASSUME NEW n \in Nat, n >= 4, n <= 2 * MaxIndex, NEW cap,
           cap = table_capacity_for_index_capacity(n)
    PROVE  LET nx == EmptyIndex(n, index_size_class(cap))
           IN  /\ Built(<<>>, nx, cap, n) /\ Ordered(<<>>, nx, cap)
               /\ Keyed(<<>>) /\ LivePos(<<>>) = {} /\ Cardinality(LivePos(<<>>)) = 0
  <1> DEFINE e == index_size_class(cap)
             nx == EmptyIndex(n, e)
  <1>1. cap \in Nat \ {0} /\ n \in Nat \ {0}
    BY CapacityFacts
  <1>2. OneToOne(nx, n, e, {}) /\ RobinHood(<<>>, nx, n, e)
    <2> HIDE DEF e
    <2> QED BY <1>1, EmptyIndexOneToOne
  <1>3. Held(<<>>) = {} /\ LivePos(<<>>) = {} /\ Len(<<>>) = 0 /\ <<>> \in Seq(Entries)
    BY DEF Held, LivePos
  <1> HIDE DEF nx
  <1>4. OneToOne(nx, n, index_size_class(cap), Held(<<>>))
    BY <1>2, <1>3, Zenon
  <1>5. Len(<<>>) <= cap
    BY <1>1, <1>3
  <1>6. Built(<<>>, nx, cap, n)
    BY <1>3, <1>4, <1>5, Zenon DEF Built
  <1>7. Buckets(nx) = n
    BY <1>6, BuiltFacts
  <1>8. Ordered(<<>>, nx, cap)
    BY <1>2, <1>7 DEF Ordered
  <1>9. Keyed(<<>>) /\ Cardinality(LivePos(<<>>)) = 0
    BY <1>3, FS_EmptySet DEF Keyed
  <1> QED BY <1>3, <1>6, <1>8, <1>9 DEF nx

\* TableInv holds at first, and every operation keeps it.
LEMMA InitTable == Init => TableInv
  <1> SUFFICES ASSUME Init
               PROVE  TableInv
    OBVIOUS
  <1>1. entries = <<>> /\ size = 0 /\ cursor \in [Iterators -> Int]
    BY DEF Init
  <1>2. Keyed(<<>>) /\ Cardinality(LivePos(<<>>)) = 0 /\ <<>> \in Seq(Entries)
    <2>1. LivePos(<<>>) = {}
      BY DEF LivePos
    <2> QED BY <2>1, FS_EmptySet DEF Keyed
  <1>3. PICK n \in 0 .. MaxInitial :
            LET cap == index_capacity_for_entries_capacity(n)
            IN  IF n = 0
                THEN capacity = 0 /\ index = <<>>
                ELSE /\ capacity = table_capacity_for_index_capacity(cap)
                     /\ index = EmptyIndex(cap, index_size_class(capacity))
    BY Zenon DEF Init
  <1>4. CASE n = 0
    BY <1>1, <1>2, <1>3, <1>4 DEF TableInv
  <1>5. CASE n # 0
    <2> DEFINE m == index_capacity_for_entries_capacity(n)
    <2>1. m \in InitialIndex .. MaxIndex
      <3>1. n \in 1 .. MaxInitial
        BY <1>5, HashAssumption
      <3> QED BY <3>1, SizeAssumption
    <2>2. capacity = table_capacity_for_index_capacity(m)
          /\ index = EmptyIndex(m, index_size_class(capacity))
      BY <1>3, <1>5, Zenon
    <2> HIDE DEF m
    <2>3. m \in Nat /\ m >= 4 /\ m <= 2 * MaxIndex
      BY <2>1, HashAssumption
    <2>4. Built(<<>>, index, capacity, m)
      BY <2>2, <2>3, Emptied
    <2>5. capacity \in Nat /\ capacity # 0
      BY <2>4, BuiltFacts
    <2> QED BY <1>1, <1>2, <2>4, <2>5 DEF TableInv
  <1> QED BY <1>4, <1>5

\* set and insert: make room, then put the key into an entry and the index.
LEMMA SetTable ==
    ASSUME TableInv, NEW k \in Keys, NEW v \in Values, set(k, v)
    PROVE  TableInv'
  <1> DEFINE room == ensure_free_capacity
             done == set_impl(room.es, room.ix, room.cap, k, v)
  <1>1. room.ok /\ entries' = done.es /\ index' = done.ix /\ capacity' = room.cap
        /\ size' = size + (IF done.inserted THEN 1 ELSE 0) /\ cursor' = cursor
    BY DEF set
  <1>2. entries \in Seq(Entries) /\ size = Cardinality(LivePos(entries)) /\ size \in Nat
        /\ cursor \in [Iterators -> Int]
    BY SizeFacts DEF TableInv
  <1>3. /\ room.cap \in Nat \ {0} /\ Len(room.es) < room.cap
        /\ \E n : Built(room.es, room.ix, room.cap, n)
        /\ room.es = entries \/ room.es = Live(entries)
        /\ Keyed(room.es)
    BY <1>1, Room
  <1> HIDE DEF room
  <1>4. PICK n : Built(room.es, room.ix, room.cap, n)
    BY <1>3
  <1>5. Built(done.es, done.ix, room.cap, n) /\ Keyed(done.es) /\ done.inserted \in BOOLEAN
        /\ (done.inserted => done.es = Append(room.es, Fresh(k, v)))
        /\ (~done.inserted =>
                \E p \in LivePos(room.es) : Overwrites(done.es, room.es, p, k, v))
    BY <1>3, <1>4, SetImpl
  <1> HIDE DEF done
  <1>6. room.es \in Seq(Entries) /\ done.es \in Seq(Entries)
    BY <1>4, <1>5 DEF Built
  <1>7. Cardinality(LivePos(room.es)) = size
    <2>1. CASE room.es = Live(entries)
      <3>1. LivePos(room.es) = 1 .. size
        BY <1>2, <2>1, LiveEntries
      <3> QED BY <1>2, <3>1, PositionNumber
    <2> QED BY <1>2, <1>3, <2>1
  <1>8. Cardinality(LivePos(done.es)) = size + (IF done.inserted THEN 1 ELSE 0)
    <2>1. CASE done.inserted
      <3>1. LivePos(done.es) = LivePos(room.es) \cup {Len(room.es) + 1}
            /\ Len(room.es) + 1 \notin LivePos(room.es)
        <4>1. done.es = Append(room.es, Fresh(k, v))
          BY <1>5, <2>1
        <4> QED BY <1>6, <4>1, AppendEntry
      <3>2. IsFiniteSet(LivePos(room.es))
        BY <1>6, HeldCount
      <3>3. Cardinality(LivePos(done.es)) = Cardinality(LivePos(room.es)) + 1
        BY <3>1, <3>2, FS_AddElement
      <3> QED BY <1>7, <2>1, <3>3
    <2>2. CASE ~done.inserted
      <3>1. LivePos(done.es) = LivePos(room.es)
        <4>1. PICK p \in LivePos(room.es) : Overwrites(done.es, room.es, p, k, v)
          BY <1>5, <2>2
        <4> QED BY <1>6, <4>1, OverwriteEntry
      <3> QED BY <1>2, <1>7, <2>2, <3>1
    <2> QED BY <1>5, <2>1, <2>2
  <1> QED BY <1>1, <1>2, <1>3, <1>5, <1>6, <1>8 DEF TableInv

LEMMA StepTable == TableInv /\ [Next]_vars => TableInv'
  <1> SUFFICES ASSUME TableInv, [Next]_vars
               PROVE  TableInv'
    OBVIOUS
  <1>1. ASSUME NEW k \in Keys, insert(k)
        PROVE  TableInv'
    BY <1>1, HashAssumption, SetTable DEF insert
  <1>2. ASSUME NEW k \in Keys, NEW v \in Values, set(k, v)
        PROVE  TableInv'
    BY <1>2, SetTable
  <1>3. ASSUME NEW k \in Keys, remove(k)
        PROVE  TableInv'
    <2> DEFINE b == find_impl(k)
               es == RemoveEntry(entries, index[b] + 1)
               closed == compact(es, remove_from_index(es, index, Empty, b))
    <2>1. capacity' = capacity /\ cursor' = cursor
      BY <1>3 DEF remove
    <2>2. CASE b # -1
      <3>1. entries' = closed.es /\ index' = closed.ix /\ size' = size - 1
        BY <1>3, <2>2, Zenon DEF remove
      <3>2. capacity # 0 /\ (\E n : Built(closed.es, closed.ix, capacity, n)) /\ Keyed(closed.es)
            /\ Cardinality(LivePos(closed.es)) = size - 1
        BY <2>2, Removal, Zenon
      <3> HIDE DEF closed
      <3>3. closed.es \in Seq(Entries)
        BY <3>2 DEF Built
      <3> QED BY <2>1, <3>1, <3>2, <3>3 DEF TableInv
    <2>3. CASE b = -1
      <3>1. entries' = entries /\ index' = index /\ size' = size
        BY <1>3, <2>3, Zenon DEF remove
      <3> QED BY <2>1, <3>1 DEF TableInv
    <2> QED BY <2>2, <2>3
  <1>4. CASE clear
    <2>1. capacity' = capacity /\ cursor' = cursor
      BY <1>4 DEF clear
    <2>2. CASE size = 0
      <3>1. entries' = entries /\ index' = index /\ size' = size
        BY <1>4, <2>2 DEF clear
      <3> QED BY <2>1, <3>1 DEF TableInv
    <2>3. CASE size # 0
      <3>1. entries' = <<>> /\ size' = 0 /\ index' = EmptyIndex(Buckets(index), Empty)
        BY <1>4, <2>3 DEF clear
      <3>2. capacity # 0
        BY <2>3, SizeFacts
      <3>3. PICK n : Built(entries, index, capacity, n)
        BY <3>2 DEF TableInv
      <3>4. n \in Nat /\ n >= 4 /\ n <= 2 * MaxIndex /\ capacity = table_capacity_for_index_capacity(n)
        BY <3>3 DEF Built
      <3>5. index' = EmptyIndex(n, index_size_class(capacity))
        BY <3>1, <3>3, BuiltFacts DEF Empty
      <3>6. Built(<<>>, EmptyIndex(n, index_size_class(capacity)), capacity, n)
            /\ Keyed(<<>>) /\ Cardinality(LivePos(<<>>)) = 0
        BY <3>4, Emptied
      <3>7. Built(entries', index', capacity', n) /\ <<>> \in Seq(Entries)
        BY <2>1, <3>1, <3>5, <3>6
      <3> QED BY <2>1, <3>1, <3>2, <3>6, <3>7 DEF TableInv
    <2> QED BY <2>2, <2>3
  <1>5. ASSUME NEW i \in Iterators, make_iterator(i) \/ iterator_next(i)
        PROVE  TableInv'
    <2>1. UNCHANGED <<entries, index, capacity, size>>
      BY <1>5 DEF make_iterator, iterator_next
    <2>2. cursor' \in [Iterators -> Int]
      <3>1. cursor \in [Iterators -> Int]
        BY DEF TableInv
      <3>2. CASE make_iterator(i)
        BY <3>1, <3>2 DEF make_iterator
      <3>3. CASE iterator_next(i)
        <4> DEFINE at == Remaining(i)
                   first == CHOOSE p \in at : \A q \in at : p <= q
        <4>1. \/ at # {} /\ cursor' = [cursor EXCEPT ![i] = first]
              \/ cursor' = [cursor EXCEPT ![i] = -1]
          BY <3>3, Zenon DEF iterator_next
        <4>2. at \subseteq Nat
          BY DEF Remaining, TableInv
        <4>3. ASSUME at # {}
              PROVE  first \in at
          <5> HIDE DEF at
          <5>1. \E p \in at : \A q \in at : p <= q
            BY <4>2, <4>3, LeastNumber
          <5> QED BY <5>1, Zenon
        <4> HIDE DEF first, at
        <4>4. CASE at # {} /\ cursor' = [cursor EXCEPT ![i] = first]
          <5>0. first \in at
            BY <4>3, <4>4
          <5>1. first \in Int
            BY <4>2, <5>0
          <5> QED BY <3>1, <4>4, <5>1
        <4>5. CASE cursor' = [cursor EXCEPT ![i] = -1]
          BY <3>1, <4>5
        <4> QED BY <4>1, <4>4, <4>5
      <3> QED BY <1>5, <3>2, <3>3
    <2> QED BY <2>1, <2>2 DEF TableInv
  <1>6. CASE UNCHANGED vars
    BY <1>6 DEF vars, TableInv
  <1> QED BY <1>1, <1>2, <1>3, <1>4, <1>5, <1>6 DEF Next

LEMMA TableInvariant == Spec => []TableInv
  <1>1. Init => TableInv
    BY InitTable
  <1>2. TableInv /\ [Next]_vars => TableInv'
    BY StepTable
  <1> QED BY <1>1, <1>2, PTL DEF Spec

\* What the run checks follows from the invariant.
LEMMA TableInvIntact == TableInv => TableIntact
  <1> SUFFICES ASSUME TableInv
               PROVE  TableIntact
    OBVIOUS
  <1> DEFINE used == {b \in DOMAIN index : index[b] # Empty}
             live == {p \in DOMAIN entries : ~is_deleted(entries[p])}
  <1>1. entries \in Seq(Entries) /\ size = Cardinality(live) /\ size \in Nat /\ capacity \in Nat
        /\ cursor \in [Iterators -> Int] /\ Len(entries) <= capacity /\ live = LivePos(entries)
    BY SizeFacts DEF TableInv, LivePos
  <1>2. CASE capacity = 0
    <2>1. DOMAIN index = 0 .. 0 - 1 /\ 0 \in Nat
      BY <1>2 DEF TableInv
    <2>2. Buckets(index) = 0
      BY <2>1, BucketsOf, Zenon
    <2>3. DOMAIN index = 0 .. Buckets(index) - 1
      BY <2>1, <2>2
    <2>4. TypeOK
      BY <1>1, <2>3 DEF TypeOK, Entries
    <2>5. IndexMatchesEntries /\ BucketFree
      BY <1>1, <1>2 DEF IndexMatchesEntries, BucketFree
    <2> QED BY <2>4, <2>5 DEF TableIntact
  <1>3. CASE capacity # 0
    <2>1. PICK n : Built(entries, index, capacity, n)
      BY <1>3 DEF TableInv
    <2>2. Buckets(index) = n /\ DOMAIN index = 0 .. n - 1 /\ Empty \notin Held(entries)
          /\ \E b \in 0 .. n - 1 : index[b] = Empty
      BY <2>1, BuiltFacts DEF Empty
    <2>3. OneToOne(index, n, Empty, Held(entries))
      BY <2>1 DEF Built, Empty
    <2>4. LivePos(entries) = {q + 1 : q \in Held(entries)} /\ IsFiniteSet(Held(entries))
          /\ Cardinality(Held(entries)) = size
      BY <1>1, HeldCount
    <2>5. TypeOK
      BY <1>1, <2>2 DEF TypeOK, Entries
    <2>6. BucketFree
      BY <2>2 DEF BucketFree
    <2>7. \A b \in used : index[b] \in Held(entries)
      BY <2>2, <2>3 DEF OneToOne
    <2>8. \A q \in Held(entries) : \E b \in used : index[b] = q
      BY <2>2, <2>3 DEF OneToOne
    <2>9. {index[b] + 1 : b \in used} = live
      <3> HIDE DEF used, live
      <3> QED BY <1>1, <2>4, <2>7, <2>8
    <2>10. Cardinality(used) = size
      <3> DEFINE f == [b \in used |-> index[b]]
      <3>1. \A b, c \in used : index[b] = index[c] => b = c
        BY <2>2, <2>3 DEF OneToOne
      <3> HIDE DEF used
      <3>2. f \in Bijection(used, Held(entries))
        BY <2>7, <2>8, <3>1 DEF Bijection, Injection, Surjection, IsInjective
      <3>3. ExistsBijection(used, Held(entries))
        BY <3>2 DEF ExistsBijection
      <3>4. IsFiniteSet(used)
        <4>1. DOMAIN index = 0 .. n - 1 /\ n \in Nat
          BY <2>1, <2>2 DEF Built
        <4>2. IsFiniteSet(0 .. n - 1)
          BY <4>1, IntervalNumber
        <4>3. used \in SUBSET (0 .. n - 1)
          BY <4>1 DEF used
        <4> QED BY <4>2, <4>3, FS_Subset
      <3> QED BY <2>4, <3>3, <3>4, FS_Bijection
    <2> HIDE DEF used, live
    <2>11. IndexMatchesEntries
      BY <1>1, <2>9, <2>10 DEF IndexMatchesEntries, used, live
    <2> QED BY <2>5, <2>6, <2>11 DEF TableIntact
  <1> QED BY <1>2, <1>3

\* The index and the entries of a table always belong together: buckets and live entries
\* correspond one to one, also after growth, compaction and removals that leave entries
\* unreachable, and a bucket is free, so that every probe ends (hash_table.cpp).
THEOREM TableIntactCorrect == Spec => []TableIntact
  <1>1. Spec => []TableInv
    BY TableInvariant
  <1>2. TableInv => TableIntact
    BY TableInvIntact
  <1> QED BY <1>1, <1>2, PTL

-----------------------------------------------------------------------------
(* Entries and the pairs of the ordered map. *)

Pairs == Seq(Keys \X Values)

\* Every pair of the map is that of a live entry, and the other way round.
PairsMatch(es, m) ==
    /\ \A i \in 1 .. Len(m) : \E p \in LivePos(es) : m[i] = <<es[p].key, es[p].value>>
    /\ \A p \in LivePos(es) : \E i \in 1 .. Len(m) : m[i] = <<es[p].key, es[p].value>>

\* The pairs of the map and those of the live entries are the same.
LEMMA ReflectsFacts ==
    ASSUME NEW es, NEW m, Reflects(es, m)
    PROVE  PairsMatch(es, m)
  <1>1. PICK f : /\ Counts(f, Len(m), LivePos(es))
                 /\ m = [i \in 1 .. Len(m) |-> <<es[f[i]].key, es[f[i]].value>>]
    BY DEF Reflects
  <1>2. \A i \in 1 .. Len(m) : m[i] = <<es[f[i]].key, es[f[i]].value>>
    BY <1>1
  <1> QED BY <1>1, <1>2 DEF Counts, PairsMatch

\* A new key is added at the end of both,
LEMMA ReflectsAppend ==
    ASSUME NEW es \in Seq(Entries), NEW m \in Pairs, Reflects(es, m), Distinct(es),
           NEW k \in Keys, NEW v \in Values, \A p \in LivePos(es) : es[p].key # k
    PROVE  /\ Reflects(Append(es, Fresh(k, v)), Append(m, <<k, v>>))
           /\ Distinct(Append(es, Fresh(k, v)))
  <1> DEFINE new == Append(es, Fresh(k, v))
             am == Append(m, <<k, v>>)
             n == Len(m)
             top == Len(es) + 1
  <1>1. LivePos(new) = LivePos(es) \cup {top} /\ top \notin LivePos(es)
        /\ new[top] = Fresh(k, v) /\ \A p \in 1 .. Len(es) : new[p] = es[p]
    BY AppendEntry
  <1>2. \A p \in LivePos(es) : p \in Nat /\ p < top /\ p \in 1 .. Len(es)
    BY DEF LivePos
  <1>3. new[top].key = k /\ new[top].value = v
    BY <1>1 DEF Fresh, Entry
  <1>4. n \in Nat /\ Len(am) = n + 1
        /\ am = [i \in 1 .. n + 1 |-> IF i = n + 1 THEN <<k, v>> ELSE m[i]]
    BY DEF Pairs
  <1>5. PICK f : /\ Counts(f, n, LivePos(es))
                 /\ m = [i \in 1 .. n |-> <<es[f[i]].key, es[f[i]].value>>]
    BY DEF Reflects
  <1> DEFINE g == [i \in 1 .. n + 1 |-> IF i = n + 1 THEN top ELSE f[i]]
  <1>6. \A i \in 1 .. n : m[i] = <<es[f[i]].key, es[f[i]].value>> /\ f[i] \in LivePos(es)
    BY <1>5 DEF Counts
  <1>7. (\A i, j \in 1 .. n : i < j => f[i] < f[j]) /\ \A p \in LivePos(es) : \E i \in 1 .. n : f[i] = p
    BY <1>5 DEF Counts
  <1> HIDE DEF new, am, n, top
  <1>8. g[n + 1] = top /\ (\A i \in 1 .. n : g[i] = f[i]) /\ DOMAIN g = 1 .. n + 1
    BY <1>4
  <1>9. \A i \in 1 .. n + 1 : i \in 1 .. n \/ i = n + 1
    BY <1>4
  <1>10. \A i \in 1 .. n : i \in 1 .. n + 1
    BY <1>4
  <1>11. g \in [1 .. n + 1 -> LivePos(new)]
    BY <1>1, <1>4, <1>6
  <1> HIDE DEF g
  <1>12. \A i, j \in 1 .. n + 1 : i < j => g[i] < g[j]
    <2> SUFFICES ASSUME NEW i \in 1 .. n + 1, NEW j \in 1 .. n + 1, i < j
                 PROVE  g[i] < g[j]
      OBVIOUS
    <2>1. i \in 1 .. n
      BY <1>4
    <2>2. CASE j = n + 1
      BY <1>2, <1>6, <1>8, <2>1, <2>2
    <2>3. CASE j \in 1 .. n
      BY <1>7, <1>8, <2>1, <2>3
    <2> QED BY <1>9, <2>2, <2>3
  <1>13. \A p \in LivePos(new) : \E i \in 1 .. n + 1 : g[i] = p
    <2>1. n + 1 \in 1 .. n + 1
      BY <1>4
    <2> QED BY <1>1, <1>7, <1>8, <1>10, <2>1
  <1>14. Counts(g, n + 1, LivePos(new))
    BY <1>11, <1>12, <1>13 DEF Counts
  <1>15. am = [i \in 1 .. n + 1 |-> <<new[g[i]].key, new[g[i]].value>>]
    <2>1. \A i \in 1 .. n + 1 :
            (IF i = n + 1 THEN <<k, v>> ELSE m[i]) = <<new[g[i]].key, new[g[i]].value>>
      <3> SUFFICES ASSUME NEW i \in 1 .. n + 1
                   PROVE  (IF i = n + 1 THEN <<k, v>> ELSE m[i])
                            = <<new[g[i]].key, new[g[i]].value>>
        OBVIOUS
      <3>1. CASE i = n + 1
        BY <1>3, <1>8, <3>1
      <3>2. CASE i # n + 1
        <4>1. i \in 1 .. n
          BY <1>9, <3>2
        <4>2. g[i] = f[i] /\ f[i] \in 1 .. Len(es)
          BY <1>2, <1>6, <1>8, <4>1
        <4>3. new[g[i]] = es[f[i]]
          BY <1>1, <4>2
        <4> QED BY <1>6, <3>2, <4>1, <4>3
      <3> QED BY <3>1, <3>2
    <2> QED BY <1>4, <2>1
  <1>16. Reflects(new, am)
    BY <1>4, <1>14, <1>15, Zenon DEF Reflects
  <1>17. Distinct(new)
    BY <1>1, <1>2, <1>3 DEF Distinct
  <1> QED BY <1>16, <1>17 DEF new, am

\* a key that is there gets its value in the same place in both,
LEMMA ReflectsOverwrite ==
    ASSUME NEW es \in Seq(Entries), NEW m \in Pairs, Reflects(es, m), Distinct(es),
           NEW k \in Keys, NEW v \in Values, NEW p \in LivePos(es), es[p].key = k,
           NEW new, Overwrites(new, es, p, k, v)
    PROVE  /\ Reflects(new, [i \in DOMAIN m |-> IF m[i][1] = k THEN <<k, v>> ELSE m[i]])
           /\ Distinct(new)
           /\ \A q \in LivePos(es) : q \in LivePos(new) /\ new[q].key = es[q].key
  <1> DEFINE n == Len(m)
             om == [i \in DOMAIN m |-> IF m[i][1] = k THEN <<k, v>> ELSE m[i]]
  <1>1. new[p] = Fresh(k, v) /\ (\A q \in DOMAIN es : q # p => new[q] = es[q])
        /\ LivePos(new) = LivePos(es)
    BY OverwriteEntry
  <1>2. new[p].key = k /\ new[p].value = v
    BY <1>1 DEF Fresh, Entry
  <1>3. \A q \in LivePos(es) : q \in DOMAIN es
    BY DEF LivePos
  <1>4. \A q \in LivePos(es) : new[q].key = es[q].key /\ (q # p => new[q] = es[q])
    BY <1>1, <1>2, <1>3
  <1>5. Distinct(new)
    BY <1>1, <1>4 DEF Distinct
  <1>6. PICK f : /\ Counts(f, n, LivePos(es))
                 /\ m = [i \in 1 .. n |-> <<es[f[i]].key, es[f[i]].value>>]
    BY DEF Reflects
  <1>7. n \in Nat /\ DOMAIN m = 1 .. n
    BY DEF Pairs
  <1>8. \A i \in 1 .. n : m[i] = <<es[f[i]].key, es[f[i]].value>> /\ f[i] \in LivePos(es)
    BY <1>6 DEF Counts
  <1>9. \A i \in 1 .. n : om[i] = <<new[f[i]].key, new[f[i]].value>>
    <2> SUFFICES ASSUME NEW i \in 1 .. n
                 PROVE  om[i] = <<new[f[i]].key, new[f[i]].value>>
      OBVIOUS
    <2>1. om[i] = IF m[i][1] = k THEN <<k, v>> ELSE m[i]
      BY <1>7
    <2>2. m[i][1] = es[f[i]].key
      BY <1>8
    <2>3. CASE f[i] = p
      BY <1>2, <2>1, <2>2, <2>3
    <2>4. CASE f[i] # p
      <3>1. es[f[i]].key # k
        BY <1>8, <2>4 DEF Distinct
      <3> QED BY <1>4, <1>8, <2>1, <2>2, <2>4, <3>1
    <2> QED BY <2>3, <2>4
  <1>10. om = [i \in 1 .. n |-> om[i]] /\ om \in Seq(Keys \X Values) /\ Len(om) = n
    <2>1. \A i \in 1 .. n : om[i] \in Keys \X Values
      BY <1>7 DEF Pairs
    <2>2. om = [i \in 1 .. n |-> om[i]]
      BY <1>7
    <2> HIDE DEF om
    <2>3. om \in [1 .. n -> Keys \X Values]
      BY <2>1, <2>2
    <2> QED BY <1>7, <2>2, <2>3
  <1> HIDE DEF om, n
  <1>11. om = [i \in 1 .. n |-> <<new[f[i]].key, new[f[i]].value>>]
    <2> DEFINE r == [i \in 1 .. n |-> <<new[f[i]].key, new[f[i]].value>>]
    <2>1. \A i \in 1 .. n : r[i] = om[i]
      BY <1>9
    <2>2. r = [i \in 1 .. n |-> r[i]]
      OBVIOUS
    <2> HIDE DEF r
    <2>3. r = om
      BY <1>10, <2>1, <2>2
    <2> QED BY <2>3 DEF r
  <1>12. Reflects(new, om)
    BY <1>1, <1>6, <1>10, <1>11 DEF Reflects
  <1> QED BY <1>1, <1>4, <1>5, <1>12 DEF om

\* Without the pair of a key that is not there nothing is missing.
LEMMA OnlyAll ==
    ASSUME NEW E, NEW s \in Seq(E)
    PROVE  Only(s, DOMAIN s) = s
  <1> DEFINE r == Only(s, DOMAIN s)
             g == [i \in 1 .. Len(s) |-> i]
  <1>1. r \in Seq(E) /\ Lists(r, s, DOMAIN s)
    BY OnlyLists
  <1>2. Len(s) \in Nat /\ DOMAIN s = 1 .. Len(s) /\ s = [i \in 1 .. Len(s) |-> s[i]]
    OBVIOUS
  <1>3. Counts(g, Len(s), DOMAIN s)
    BY <1>2 DEF Counts
  <1>4. s = [i \in 1 .. Len(s) |-> s[g[i]]]
    BY <1>2
  <1> HIDE DEF g, r
  <1>5. Lists(s, s, DOMAIN s)
    BY <1>3, <1>4 DEF Lists
  <1>6. Len(r) \in Nat /\ DOMAIN s \in SUBSET Nat
    BY <1>1, <1>2
  <1>7. r = s
    BY <1>1, <1>2, <1>5, <1>6, ListsUnique
  <1> QED BY <1>7 DEF r

\* and a removed key goes from the same place in both.
LEMMA ReflectsRemove ==
    ASSUME NEW es \in Seq(Entries), NEW m \in Pairs, Reflects(es, m), Distinct(es),
           NEW k, NEW p \in LivePos(es), es[p].key = k,
           NEW new, LivePos(new) = LivePos(es) \ {p}, \A q \in LivePos(new) : new[q] = es[q]
    PROVE  /\ Reflects(new, Only(m, {i \in DOMAIN m : m[i][1] # k}))
           /\ Distinct(new)
  <1> DEFINE n == Len(m)
             at == {i \in DOMAIN m : m[i][1] # k}
             r == Only(m, at)
             l == Len(r)
  <1>1. n \in Nat /\ DOMAIN m = 1 .. n /\ m \in Seq(Keys \X Values) /\ at \in SUBSET DOMAIN m
    BY DEF Pairs
  <1>2. r \in Seq(Keys \X Values) /\ Lists(r, m, at)
    BY <1>1, OnlyLists
  <1>3. PICK g : Counts(g, l, at) /\ r = [i \in 1 .. l |-> m[g[i]]]
    BY <1>2 DEF Lists
  <1>4. PICK f : /\ Counts(f, n, LivePos(es))
                 /\ m = [i \in 1 .. n |-> <<es[f[i]].key, es[f[i]].value>>]
    BY DEF Reflects
  <1> HIDE DEF r
  <1>5. \A i \in 1 .. n : m[i] = <<es[f[i]].key, es[f[i]].value>> /\ f[i] \in LivePos(es)
                          /\ m[i][1] = es[f[i]].key
    BY <1>4 DEF Counts
  <1>6. \A i \in 1 .. n : i \in at <=> f[i] # p
    <2>1. \A i \in 1 .. n : m[i][1] = k <=> f[i] = p
      BY <1>5 DEF Distinct
    <2> QED BY <1>1, <2>1
  <1> DEFINE h == [i \in 1 .. l |-> f[g[i]]]
  <1>7. (\A i \in 1 .. l : g[i] \in at) /\ (\A i, j \in 1 .. l : i < j => g[i] < g[j])
        /\ \A x \in at : \E i \in 1 .. l : g[i] = x
    BY <1>3 DEF Counts
  <1>8. (\A i, j \in 1 .. n : i < j => f[i] < f[j]) /\ \A q \in LivePos(es) : \E i \in 1 .. n : f[i] = q
    BY <1>4 DEF Counts
  <1>9. at \subseteq 1 .. n
    BY <1>1
  <1> HIDE DEF at, n, l
  <1>10. \A i \in 1 .. l : h[i] = f[g[i]] /\ h[i] \in LivePos(new)
    BY <1>5, <1>6, <1>7, <1>9
  <1>11. Counts(h, l, LivePos(new))
    <2>1. h \in [1 .. l -> LivePos(new)]
      BY <1>10
    <2>2. \A i, j \in 1 .. l : i < j => h[i] < h[j]
      BY <1>7, <1>8, <1>9, <1>10
    <2>3. \A q \in LivePos(new) : \E i \in 1 .. l : h[i] = q
      <3> SUFFICES ASSUME NEW q \in LivePos(new)
                   PROVE  \E i \in 1 .. l : h[i] = q
        OBVIOUS
      <3>1. PICK j \in 1 .. n : f[j] = q
        BY <1>8
      <3>2. j \in at
        BY <1>6, <3>1
      <3>3. PICK i \in 1 .. l : g[i] = j
        BY <1>7, <3>2
      <3> QED BY <1>10, <3>1, <3>3
    <2> HIDE DEF h
    <2> QED BY <2>1, <2>2, <2>3 DEF Counts
  <1> HIDE DEF h
  <1>12. ASSUME NEW i \in 1 .. l
         PROVE  m[g[i]] = <<new[h[i]].key, new[h[i]].value>>
    <2>1. g[i] \in 1 .. n
      BY <1>7, <1>9
    <2>2. m[g[i]] = <<es[f[g[i]]].key, es[f[g[i]]].value>>
      BY <1>5, <2>1
    <2>3. h[i] = f[g[i]] /\ new[h[i]] = es[h[i]]
      BY <1>10
    <2> QED BY <2>2, <2>3, Zenon
  <1>13. r = [i \in 1 .. l |-> <<new[h[i]].key, new[h[i]].value>>]
    <2>1. [i \in 1 .. l |-> m[g[i]]] = [i \in 1 .. l |-> <<new[h[i]].key, new[h[i]].value>>]
      BY <1>12
    <2> QED BY <1>3, <2>1
  <1>14. Reflects(new, r)
    BY <1>11, <1>13 DEF Reflects, l
  <1>15. Distinct(new)
    BY DEF Distinct
  <1> QED BY <1>14, <1>15 DEF r, at

-----------------------------------------------------------------------------
(* The ordered map. *)

\* As long as no removal has left an entry behind, the index is ordered, every key is
\* there once, and the entries are the pairs of the map.
OrderInv ==
    /\ map \in Pairs
    /\ ~truncated =>
        /\ Ordered(entries, index, capacity)
        /\ Distinct(entries)
        /\ Reflects(entries, map)

\* An empty table is the empty map.
LEMMA EmptyContents ==
    /\ <<>> \in Seq(Entries) /\ LivePos(<<>>) = {} /\ <<>> \in Pairs
    /\ Distinct(<<>>) /\ Reflects(<<>>, <<>>)
  <1>1. <<>> \in Seq(Entries) /\ LivePos(<<>>) = {} /\ <<>> \in Pairs /\ Len(<<>>) = 0
    BY DEF LivePos, Pairs
  <1>2. Distinct(<<>>)
    BY <1>1 DEF Distinct
  <1>3. Reflects(<<>>, <<>>)
    <2> DEFINE f == [i \in 1 .. 0 |-> i]
               m == [i \in 1 .. 0 |-> <<<<>>[f[i]].key, <<>>[f[i]].value>>]
    <2>1. Counts(f, 0, {})
      BY DEF Counts
    <2>2. <<>> = m
      OBVIOUS
    <2> HIDE DEF f
    <2>3. Counts(f, Len(<<>>), LivePos(<<>>))
      BY <1>1, <2>1, Zenon
    <2>4. <<>> = [i \in 1 .. Len(<<>>) |-> <<<<>>[f[i]].key, <<>>[f[i]].value>>]
      BY <1>1, <2>2, Zenon
    <2> QED BY <2>3, <2>4, Zenon DEF Reflects
  <1> QED BY <1>1, <1>2, <1>3

\* OrderInv holds at first, and every operation keeps it.
LEMMA InitOrder == Init => OrderInv
  <1> SUFFICES ASSUME Init
               PROVE  OrderInv
    OBVIOUS
  <1>1. entries = <<>> /\ map = <<>>
    BY DEF Init
  <1>2. Ordered(<<>>, index, capacity)
    <2>1. PICK n \in 0 .. MaxInitial :
            LET cap == index_capacity_for_entries_capacity(n)
            IN  IF n = 0
                THEN capacity = 0 /\ index = <<>>
                ELSE /\ capacity = table_capacity_for_index_capacity(cap)
                     /\ index = EmptyIndex(cap, index_size_class(capacity))
      BY Zenon DEF Init
    <2>2. CASE n = 0
      BY <2>1, <2>2 DEF Ordered
    <2>3. CASE n # 0
      <3> DEFINE m == index_capacity_for_entries_capacity(n)
      <3>1. m \in InitialIndex .. MaxIndex
        <4>1. n \in 1 .. MaxInitial
          BY <2>3, HashAssumption
        <4> QED BY <4>1, SizeAssumption
      <3>2. capacity = table_capacity_for_index_capacity(m)
            /\ index = EmptyIndex(m, index_size_class(capacity))
        BY <2>1, <2>3, Zenon
      <3> HIDE DEF m
      <3>3. m \in Nat /\ m >= 4 /\ m <= 2 * MaxIndex
        BY <3>1, HashAssumption
      <3> QED BY <3>2, <3>3, Emptied
    <2> QED BY <2>2, <2>3
  <1> QED BY <1>1, <1>2, EmptyContents DEF OrderInv

\* What the map becomes, for every pair of operations on entries.
LEMMA MapSetIs ==
    ASSUME NEW es \in Seq(Entries), map \in Pairs, Reflects(es, map), Distinct(es),
           NEW k \in Keys, NEW v \in Values
    PROVE  /\ (\A p \in LivePos(es) : es[p].key # k) => MapSet(k, v) = Append(map, <<k, v>>)
           /\ (\E p \in LivePos(es) : es[p].key = k) =>
                MapSet(k, v) = [i \in DOMAIN map |-> IF map[i][1] = k THEN <<k, v>> ELSE map[i]]
  <1>1. DOMAIN map = 1 .. Len(map)
    BY DEF Pairs
  <1>2. (\A i \in 1 .. Len(map) : \E p \in LivePos(es) : map[i] = <<es[p].key, es[p].value>>)
        /\ \A p \in LivePos(es) : \E i \in 1 .. Len(map) : map[i] = <<es[p].key, es[p].value>>
    <2>1. PairsMatch(es, map)
      BY ReflectsFacts, Zenon
    <2> QED BY <2>1 DEF PairsMatch
  <1>3. (\E i \in DOMAIN map : map[i][1] = k) <=> \E p \in LivePos(es) : es[p].key = k
    <2>1. ASSUME NEW i \in DOMAIN map, map[i][1] = k
          PROVE  \E p \in LivePos(es) : es[p].key = k
      <3>1. PICK p \in LivePos(es) : map[i] = <<es[p].key, es[p].value>>
        BY <1>1, <1>2
      <3> QED BY <2>1, <3>1
    <2>2. ASSUME NEW p \in LivePos(es), es[p].key = k
          PROVE  \E i \in DOMAIN map : map[i][1] = k
      <3>1. PICK i \in 1 .. Len(map) : map[i] = <<es[p].key, es[p].value>>
        BY <1>2
      <3> QED BY <1>1, <2>2, <3>1
    <2> QED BY <2>1, <2>2
  <1>4. (\A p \in LivePos(es) : es[p].key # k) <=> ~(\E p \in LivePos(es) : es[p].key = k)
    OBVIOUS
  <1> QED BY <1>3, <1>4, Zenon DEF MapSet

\* The map stays a sequence of pairs.
LEMMA MapTypes ==
    ASSUME map \in Pairs, NEW k \in Keys, NEW v \in Values
    PROVE  MapSet(k, v) \in Pairs /\ MapRemove(k) \in Pairs
  <1>1. Append(map, <<k, v>>) \in Pairs
    BY DEF Pairs
  <1>2. [i \in DOMAIN map |-> IF map[i][1] = k THEN <<k, v>> ELSE map[i]] \in Pairs
    <2> DEFINE om == [i \in DOMAIN map |-> IF map[i][1] = k THEN <<k, v>> ELSE map[i]]
    <2>1. Len(map) \in Nat /\ DOMAIN map = 1 .. Len(map)
      BY DEF Pairs
    <2>2. \A i \in 1 .. Len(map) : om[i] \in Keys \X Values
      BY <2>1 DEF Pairs
    <2>3. om = [i \in 1 .. Len(map) |-> om[i]]
      BY <2>1
    <2> HIDE DEF om
    <2>4. om \in [1 .. Len(map) -> Keys \X Values]
      BY <2>2, <2>3
    <2>5. om \in Seq(Keys \X Values)
      BY <2>1, <2>4
    <2> QED BY <2>5 DEF om, Pairs
  <1>3. MapRemove(k) \in Pairs
    <2> DEFINE at == {i \in DOMAIN map : map[i][1] # k}
    <2>1. map \in Seq(Keys \X Values) /\ at \in SUBSET DOMAIN map
      BY DEF Pairs
    <2>2. Only(map, at) \in Seq(Keys \X Values)
      <3> HIDE DEF at
      <3> QED BY <2>1, OnlyLists
    <2> QED BY <2>2 DEF Pairs, MapRemove
  <1> QED BY <1>1, <1>2, <1>3, Zenon DEF MapSet

LEMMA SetOrder ==
    ASSUME TableInv, OrderInv, NEW k \in Keys, NEW v \in Values, set(k, v)
    PROVE  OrderInv'
  <1> DEFINE room == ensure_free_capacity
             done == set_impl(room.es, room.ix, room.cap, k, v)
  <1>1. room.ok /\ entries' = done.es /\ index' = done.ix /\ capacity' = room.cap
        /\ map' = MapSet(k, v) /\ truncated' = truncated
    BY DEF set
  <1>2. map' \in Pairs
    BY <1>1, MapTypes DEF OrderInv
  <1>3. SUFFICES ASSUME ~truncated
                 PROVE  /\ Ordered(done.es, done.ix, room.cap)
                        /\ Distinct(done.es)
                        /\ Reflects(done.es, MapSet(k, v))
    BY <1>1, <1>2 DEF OrderInv
  <1>4. Ordered(entries, index, capacity) /\ Distinct(entries) /\ Reflects(entries, map)
        /\ map \in Pairs /\ entries \in Seq(Entries)
    BY <1>3 DEF OrderInv, TableInv
  <1>5. /\ room.cap \in Nat \ {0} /\ Len(room.es) < room.cap
        /\ \E n : Built(room.es, room.ix, room.cap, n)
        /\ room.es = entries \/ room.es = Live(entries)
        /\ Keyed(room.es)
        /\ Ordered(room.es, room.ix, room.cap)
    BY <1>1, <1>4, Room
  <1> HIDE DEF room
  <1>6. Distinct(room.es) /\ Reflects(room.es, map)
    <2>1. Len(map) \in Nat
      BY <1>4 DEF Pairs
    <2>2. Distinct(Live(entries)) /\ Reflects(Live(entries), map)
      BY <1>4, <2>1, LiveContents
    <2> QED BY <1>4, <1>5, <2>2
  <1>7. PICK n : Built(room.es, room.ix, room.cap, n)
    BY <1>5
  <1> DEFINE e == index_size_class(room.cap)
  <1>8. Buckets(room.ix) = n /\ room.es \in Seq(Entries) /\ room.cap # 0
    BY <1>5, <1>7, BuiltFacts DEF Built
  <1>9. RobinHood(room.es, room.ix, n, e)
    BY <1>5, <1>8 DEF Ordered
  <1>10. /\ Built(done.es, done.ix, room.cap, n) /\ RobinHood(done.es, done.ix, n, e)
         /\ done.inserted \in BOOLEAN
         /\ done.inserted => /\ done.es = Append(room.es, Fresh(k, v))
                             /\ \A p \in LivePos(room.es) : room.es[p].key # k
         /\ ~done.inserted => \E p \in LivePos(room.es) :
                room.es[p].key = k /\ Overwrites(done.es, room.es, p, k, v)
    BY <1>5, <1>6, <1>7, <1>9, SetImpl
  <1> HIDE DEF done
  <1>11. Ordered(done.es, done.ix, room.cap)
    <2>1. Buckets(done.ix) = n
      BY <1>10, BuiltFacts
    <2> QED BY <1>10, <2>1 DEF Ordered
  <1>12. CASE done.inserted
    <2>1. MapSet(k, v) = Append(map, <<k, v>>)
      BY <1>4, <1>6, <1>8, <1>10, <1>12, MapSetIs
    <2>2. Reflects(Append(room.es, Fresh(k, v)), Append(map, <<k, v>>))
          /\ Distinct(Append(room.es, Fresh(k, v)))
      BY <1>4, <1>6, <1>8, <1>10, <1>12, ReflectsAppend
    <2> QED BY <1>10, <1>11, <1>12, <2>1, <2>2
  <1>13. CASE ~done.inserted
    <2>1. PICK p \in LivePos(room.es) :
            room.es[p].key = k /\ Overwrites(done.es, room.es, p, k, v)
      BY <1>10, <1>13
    <2> DEFINE om == [i \in DOMAIN map |-> IF map[i][1] = k THEN <<k, v>> ELSE map[i]]
    <2>2. MapSet(k, v) = om
      BY <1>4, <1>6, <1>8, <2>1, MapSetIs, Zenon
    <2>3. Reflects(done.es, om) /\ Distinct(done.es)
      BY <1>4, <1>6, <1>8, <2>1, ReflectsOverwrite
    <2> QED BY <1>11, <2>2, <2>3
  <1> QED BY <1>10, <1>12, <1>13

LEMMA RemoveOrder ==
    ASSUME TableInv, OrderInv, NEW k \in Keys, remove(k)
    PROVE  OrderInv'
  <1> DEFINE b == find_impl(k)
             pos == index[b] + 1
             es == RemoveEntry(entries, pos)
             closed == compact(es, remove_from_index(es, index, Empty, b))
             at == {i \in DOMAIN map : map[i][1] # k}
  <1>1. capacity' = capacity /\ map' = MapRemove(k)
    BY DEF remove
  <1>2. map' \in Pairs
    BY <1>1, HashAssumption, MapTypes DEF OrderInv
  <1>3. MapRemove(k) = Only(map, at)
    BY DEF MapRemove
  <1>4. map \in Pairs /\ entries \in Seq(Entries)
    BY DEF OrderInv, TableInv
  <1>5. CASE b # -1
    <2>1. entries' = closed.es /\ index' = closed.ix
          /\ truncated' = (truncated \/ LeavesBehind(es, index, Empty, b))
      BY <1>5, Zenon DEF remove
    <2>2. es \in Seq(Entries) /\ (closed.es = es \/ closed.es = Live(es))
          /\ pos \in LivePos(entries) /\ entries[pos].key = k
          /\ LivePos(es) = LivePos(entries) \ {pos}
          /\ (\A p \in LivePos(es) : es[p] = entries[p])
          /\ (Ordered(entries, index, capacity) /\ ~LeavesBehind(es, index, Empty, b) =>
                Ordered(closed.es, closed.ix, capacity))
      BY <1>5, Removal, Zenon
    <2> HIDE DEF closed, es, pos, b, at
    <2>3. SUFFICES ASSUME ~truncated, ~LeavesBehind(es, index, Empty, b)
                   PROVE  /\ Ordered(closed.es, closed.ix, capacity)
                          /\ Distinct(closed.es)
                          /\ Reflects(closed.es, Only(map, at))
      BY <1>1, <1>2, <1>3, <2>1, Zenon DEF OrderInv
    <2>4. Ordered(entries, index, capacity) /\ Distinct(entries) /\ Reflects(entries, map)
      BY <2>3 DEF OrderInv
    <2>5. Reflects(es, Only(map, at)) /\ Distinct(es)
      BY <1>4, <2>2, <2>4, ReflectsRemove DEF at
    <2>6. Len(Only(map, at)) \in Nat
      BY <1>1, <1>2, <1>3 DEF Pairs
    <2>7. Reflects(Live(es), Only(map, at)) /\ Distinct(Live(es))
      BY <2>2, <2>5, <2>6, LiveContents
    <2> QED BY <2>2, <2>3, <2>4, <2>5, <2>7
  <1>6. CASE b = -1
    <2>1. entries' = entries /\ index' = index /\ truncated' = truncated
      BY <1>6, Zenon DEF remove
    <2>2. SUFFICES ASSUME ~truncated
                   PROVE  Only(map, at) = map
      BY <1>1, <1>2, <1>3, <2>1 DEF OrderInv
    <2>3. Ordered(entries, index, capacity) /\ Distinct(entries) /\ Reflects(entries, map)
      BY <2>2 DEF OrderInv
    <2>4. \A p \in LivePos(entries) : entries[p].key # k
      BY <1>6, <2>3, FindImpl
    <2>5. DOMAIN map = 1 .. Len(map) /\ map \in Seq(Keys \X Values)
      BY <1>4 DEF Pairs
    <2>6. \A i \in DOMAIN map : map[i][1] # k
      <3> SUFFICES ASSUME NEW i \in 1 .. Len(map)
                   PROVE  map[i][1] # k
        BY <2>5
      <3>1. PICK p \in LivePos(entries) : map[i] = <<entries[p].key, entries[p].value>>
        <4>1. PairsMatch(entries, map)
          BY <2>3, ReflectsFacts, Zenon
        <4> QED BY <4>1 DEF PairsMatch
      <3> QED BY <2>4, <3>1
    <2>7. at = DOMAIN map
      BY <2>6
    <2> HIDE DEF at
    <2> QED BY <2>5, <2>7, OnlyAll
  <1> QED BY <1>5, <1>6

LEMMA ClearOrder ==
    ASSUME TableInv, OrderInv, clear
    PROVE  OrderInv'
  <1>1. map' = <<>> /\ capacity' = capacity /\ truncated' = truncated
    BY DEF clear
  <1>2. entries \in Seq(Entries) /\ size = Cardinality(LivePos(entries))
    BY DEF TableInv
  <1>3. CASE size = 0
    <2>1. entries' = entries /\ index' = index
      BY <1>3 DEF clear
    <2>2. LivePos(entries) = {}
      BY <1>3, SizeFacts
    <2>3. Distinct(entries) /\ Reflects(entries, <<>>)
      <3>1. Distinct(entries)
        BY <2>2 DEF Distinct
      <3>2. PICK f : Counts(f, Len(<<>>), {})
                     /\ <<>> = [i \in 1 .. Len(<<>>) |-> <<<<>>[f[i]].key, <<>>[f[i]].value>>]
        BY EmptyContents DEF Reflects
      <3>3. <<>> = [i \in 1 .. Len(<<>>) |-> <<entries[f[i]].key, entries[f[i]].value>>]
        OBVIOUS
      <3> QED BY <2>2, <3>1, <3>2, <3>3, Zenon DEF Reflects
    <2> QED BY <1>1, <2>1, <2>3, EmptyContents DEF OrderInv
  <1>4. CASE size # 0
    <2>1. entries' = <<>> /\ index' = EmptyIndex(Buckets(index), Empty)
      BY <1>4 DEF clear
    <2>2. capacity # 0
      BY <1>4, SizeFacts
    <2>3. PICK n : Built(entries, index, capacity, n)
      BY <2>2 DEF TableInv
    <2>4. n \in Nat /\ n >= 4 /\ n <= 2 * MaxIndex /\ capacity = table_capacity_for_index_capacity(n)
      BY <2>3 DEF Built
    <2>5. index' = EmptyIndex(n, index_size_class(capacity))
      BY <2>1, <2>3, BuiltFacts DEF Empty
    <2>6. Ordered(<<>>, EmptyIndex(n, index_size_class(capacity)), capacity)
      BY <2>4, Emptied
    <2>7. Ordered(entries', index', capacity')
      BY <1>1, <2>1, <2>5, <2>6
    <2> QED BY <1>1, <2>1, <2>7, EmptyContents DEF OrderInv
  <1> QED BY <1>3, <1>4

LEMMA StepOrder == TableInv /\ OrderInv /\ [Next]_vars => OrderInv'
  <1> SUFFICES ASSUME TableInv, OrderInv, [Next]_vars
               PROVE  OrderInv'
    OBVIOUS
  <1>1. ASSUME NEW k \in Keys, insert(k)
        PROVE  OrderInv'
    BY <1>1, HashAssumption, SetOrder DEF insert
  <1>2. ASSUME NEW k \in Keys, NEW v \in Values, set(k, v)
        PROVE  OrderInv'
    BY <1>2, SetOrder
  <1>3. ASSUME NEW k \in Keys, remove(k)
        PROVE  OrderInv'
    BY <1>3, RemoveOrder
  <1>4. CASE clear
    BY <1>4, ClearOrder
  <1>5. ASSUME NEW i \in Iterators, make_iterator(i) \/ iterator_next(i)
        PROVE  OrderInv'
    <2>1. UNCHANGED <<entries, index, capacity, map, truncated>>
      BY <1>5 DEF make_iterator, iterator_next
    <2> QED BY <2>1 DEF OrderInv
  <1>6. CASE UNCHANGED vars
    BY <1>6 DEF vars, OrderInv
  <1> QED BY <1>1, <1>2, <1>3, <1>4, <1>5, <1>6 DEF Next

LEMMA OrderInvariant == Spec => [](TableInv /\ OrderInv)
  <1>1. Init => TableInv /\ OrderInv
    BY InitTable, InitOrder
  <1>2. TableInv /\ OrderInv /\ [Next]_vars => (TableInv /\ OrderInv)'
    BY StepTable, StepOrder
  <1> QED BY <1>1, <1>2, PTL DEF Spec

\* What the run checks follows from the invariant.
LEMMA OrderInvMap == TableInv /\ OrderInv => OrderedMap
  <1> SUFFICES ASSUME TableInv, OrderInv, ~truncated
               PROVE  /\ [i \in 1 .. size |-> <<Live(entries)[i].key, Live(entries)[i].value>>] = map
                      /\ \A k \in Keys : get(k) =
                            IF \E i \in DOMAIN map : map[i][1] = k
                            THEN (CHOOSE p \in ToSet(map) : p[1] = k)[2] ELSE NoValue
    BY DEF OrderedMap
  <1>1. Ordered(entries, index, capacity) /\ Distinct(entries) /\ Reflects(entries, map)
        /\ map \in Pairs /\ entries \in Seq(Entries) /\ size = Cardinality(LivePos(entries))
    BY DEF OrderInv, TableInv
  <1>2. Len(map) \in Nat /\ DOMAIN map = 1 .. Len(map)
    BY <1>1 DEF Pairs
  <1>3. [i \in 1 .. size |-> <<Live(entries)[i].key, Live(entries)[i].value>>] = map
    <2> DEFINE ls == Live(entries)
    <2>1. ls \in Seq(Entries) /\ Len(ls) = size /\ LivePos(ls) = 1 .. size
      BY <1>1, LiveEntries
    <2>2. Reflects(ls, map)
      BY <1>1, <1>2, LiveContents
    <2> HIDE DEF ls
    <2>3. PICK f : /\ Counts(f, Len(map), 1 .. size)
                   /\ map = [i \in 1 .. Len(map) |-> <<ls[f[i]].key, ls[f[i]].value>>]
      BY <2>1, <2>2 DEF Reflects
    <2> DEFINE g == [i \in 1 .. size |-> i]
    <2>4. size \in Nat /\ 1 .. size \in SUBSET Nat
      BY SizeFacts
    <2>5. Counts(g, size, 1 .. size)
      BY <2>4 DEF Counts
    <2> DEFINE S == 1 .. size
    <2>6. Len(map) = size
      <3> HIDE DEF S
      <3>1. Cardinality(S) = Len(map)
        BY <1>2, <2>3, <2>4, CountsNumber DEF S
      <3>2. Cardinality(S) = size
        <4>1. Cardinality(1 .. size) = size
          BY <2>4, PositionNumber, Zenon
        <4> QED BY <4>1 DEF S
      <3> QED BY <3>1, <3>2
    <2> HIDE DEF g
    <2>7. f = g
      <3> HIDE DEF S
      <3>1. Counts(f, size, S) /\ Counts(g, size, S) /\ S \in SUBSET Nat
        BY <2>3, <2>4, <2>5, <2>6 DEF S
      <3> QED BY <2>4, <3>1, CountsUnique
    <2>8. \A i \in 1 .. size : f[i] = i
      BY <2>7 DEF g
    <2>9. map = [i \in 1 .. size |-> <<ls[i].key, ls[i].value>>]
      <3>1. [i \in 1 .. size |-> <<ls[f[i]].key, ls[f[i]].value>>]
                = [i \in 1 .. size |-> <<ls[i].key, ls[i].value>>]
        BY <2>8
      <3> QED BY <2>3, <2>6, <3>1
    <2> QED BY <2>9 DEF ls
  <1>4. ASSUME NEW k \in Keys
        PROVE  get(k) = IF \E i \in DOMAIN map : map[i][1] = k
                        THEN (CHOOSE p \in ToSet(map) : p[1] = k)[2] ELSE NoValue
    <2> DEFINE b == find_impl(k)
               x == CHOOSE p \in ToSet(map) : p[1] = k
    <2>1. get(k) = IF b = -1 THEN NoValue ELSE entries[index[b] + 1].value
      BY Zenon DEF get
    <2>2. (b # -1 => index[b] + 1 \in LivePos(entries) /\ entries[index[b] + 1].key = k)
          /\ \A p \in LivePos(entries) : entries[p].key = k => b # -1 /\ index[b] + 1 = p
      BY <1>1, FindImpl
    <2>3. (\A i \in 1 .. Len(map) :
                \E p \in LivePos(entries) : map[i] = <<entries[p].key, entries[p].value>>)
          /\ \A p \in LivePos(entries) :
                \E i \in 1 .. Len(map) : map[i] = <<entries[p].key, entries[p].value>>
      <3>1. PairsMatch(entries, map)
        BY <1>1, ReflectsFacts, Zenon
      <3> QED BY <3>1 DEF PairsMatch
    <2> HIDE DEF b
    <2>4. CASE \E i \in DOMAIN map : map[i][1] = k
      <3>1. \E p \in ToSet(map) : p[1] = k
        BY <2>4 DEF ToSet
      <3>2. x \in ToSet(map) /\ x[1] = k
        BY <3>1, Zenon
      <3> HIDE DEF x
      <3>3. PICK j \in 1 .. Len(map) : x = map[j]
        BY <1>2, <3>2 DEF ToSet
      <3>4. PICK p \in LivePos(entries) : map[j] = <<entries[p].key, entries[p].value>>
        BY <2>3
      <3>5. entries[p].key = k /\ x[2] = entries[p].value
        BY <3>2, <3>3, <3>4
      <3>6. b # -1 /\ index[b] + 1 = p
        BY <2>2, <3>5
      <3>7. get(k) = x[2]
        BY <2>1, <3>5, <3>6
      <3> QED BY <2>4, <3>7 DEF x
    <2>5. CASE ~(\E i \in DOMAIN map : map[i][1] = k)
      <3>1. b = -1
        <4> SUFFICES ASSUME b # -1
                     PROVE  FALSE
          OBVIOUS
        <4>1. PICK p \in LivePos(entries) : entries[p].key = k
          BY <2>2
        <4>2. PICK i \in 1 .. Len(map) : map[i] = <<entries[p].key, entries[p].value>>
          BY <2>3
        <4>3. i \in DOMAIN map /\ map[i][1] = k
          BY <1>2, <4>1, <4>2
        <4> QED BY <2>5, <4>3
      <3> QED BY <2>1, <2>5, <3>1
    <2> QED BY <2>4, <2>5
  <1> QED BY <1>3, <1>4

\* As long as every removal could close the gap it left, the table is an ordered map: the
\* live entries are its pairs in the order of insertion, and a lookup finds every key
\* with its value and no other key (HashTable::find_impl, get).
THEOREM OrderedMapCorrect == Spec => []OrderedMap
  <1>1. Spec => [](TableInv /\ OrderInv)
    BY OrderInvariant
  <1>2. TableInv /\ OrderInv => OrderedMap
    BY OrderInvMap
  <1> QED BY <1>1, <1>2, PTL

-----------------------------------------------------------------------------
(* Iterators. *)

\* As long as no removal has left an entry behind, what an iterator has returned is at
\* its cursor or before; what an iterator that has not seen entries move must still
\* return is after it.
IterInv ==
    /\ pending \in [Iterators -> SUBSET Keys] /\ returned \in [Iterators -> SUBSET Keys]
    /\ ~truncated =>
        /\ \A i \in Made : \A k \in returned[i] :
            \E p \in LivePos(entries) : p <= cursor[i] /\ entries[p].key = k
        /\ \A i \in Made \ moved : \A k \in pending[i] :
            \E p \in LivePos(entries) : p > cursor[i] /\ entries[p].key = k

\* The entries with other keys than the given ones do not move up, or not at all.
Sinks(es, fs, gone) ==
    \A p \in LivePos(es) : es[p].key \notin gone =>
        \E q \in LivePos(fs) : q <= p /\ fs[q].key = es[p].key
Stays(es, fs, gone) ==
    \A p \in LivePos(es) : es[p].key \notin gone => p \in LivePos(fs) /\ fs[p].key = es[p].key

\* Closing the holes moves entries down only, and none if there is no hole.
LEMMA LiveSinks ==
    ASSUME NEW es \in Seq(Entries)
    PROVE  Sinks(es, Live(es), {}) /\ (Len(Live(es)) >= Len(es) => Live(es) = es)
  <1> DEFINE ls == Live(es)
             n == Len(ls)
  <1>1. ls \in Seq(Entries) /\ n = Cardinality(LivePos(es)) /\ Lists(ls, es, LivePos(es))
        /\ LivePos(ls) = 1 .. n /\ (LivePos(es) = DOMAIN es => ls = es)
    BY LiveEntries
  <1> HIDE DEF ls
  <1>2. n \in Nat /\ Len(es) \in Nat
    BY <1>1
  <1>3. n >= Len(es) => ls = es
    BY <1>1, <1>2, HeldCount
  <1>4. PICK f : Counts(f, n, LivePos(es)) /\ ls = [i \in 1 .. n |-> es[f[i]]]
    BY <1>1 DEF Lists
  <1> HIDE DEF n
  <1>5. (\A i \in 1 .. n : f[i] \in LivePos(es)) /\ (\A i, j \in 1 .. n : i < j => f[i] < f[j])
        /\ \A p \in LivePos(es) : \E i \in 1 .. n : f[i] = p
    BY <1>4 DEF Counts
  <1>6. \A p \in LivePos(es) : p \in Nat /\ p >= 1
    BY DEF LivePos
  <1> DEFINE G == {k \in 0 .. n : \A i \in 1 .. k : i <= f[i]}
  <1>7. 0 \in G
    BY <1>2
  <1>8. ASSUME NEW k \in 0 .. n - 1, k \in G
        PROVE  k + 1 \in G
    <2>1. \A i \in 1 .. k : i <= f[i]
      BY <1>8
    <2>2. k + 1 \in 1 .. n /\ k \in Nat /\ f[k + 1] \in Nat /\ f[k + 1] >= 1
      <3>1. k + 1 \in 1 .. n /\ k \in Nat
        BY <1>2
      <3> QED BY <1>5, <1>6, <3>1
    <2>3. k + 1 <= f[k + 1]
      <3>1. CASE k = 0
        BY <2>2, <3>1
      <3>2. CASE k # 0
        <4>1. k \in 1 .. k /\ k \in 1 .. n /\ k < k + 1
          BY <1>2, <3>2
        <4>2. k <= f[k] /\ f[k] < f[k + 1] /\ f[k] \in Nat
          BY <1>5, <1>6, <2>1, <2>2, <4>1
        <4> QED BY <2>2, <4>2
      <3> QED BY <3>1, <3>2
    <2>4. \A i \in 1 .. k + 1 : i \in 1 .. k \/ i = k + 1
      BY <2>2
    <2>5. \A i \in 1 .. k + 1 : i <= f[i]
      BY <2>1, <2>3, <2>4
    <2>6. k + 1 \in 0 .. n
      BY <1>2
    <2> QED BY <2>5, <2>6
  <1> HIDE DEF G
  <1>9. \A k \in 0 .. n : k \in G
    BY <1>2, <1>7, <1>8, UpTo
  <1>10. \A i \in 1 .. n : i <= f[i]
    BY <1>2, <1>9, n \in 0 .. n DEF G
  <1>11. Sinks(es, ls, {})
    <2> SUFFICES ASSUME NEW p \in LivePos(es)
                 PROVE  \E q \in LivePos(ls) : q <= p /\ ls[q].key = es[p].key
      BY DEF Sinks
    <2>1. PICK i \in 1 .. n : f[i] = p
      BY <1>5
    <2>2. ls[i] = es[p] /\ i <= p /\ i \in LivePos(ls)
      BY <1>1, <1>4, <1>10, <2>1 DEF n
    <2> QED BY <2>2
  <1> QED BY <1>3, <1>11 DEF ls, n

\* A step that changes the entries keeps the invariant, when keys that go are forgotten
\* and iterators that see entries move are noted.
LEMMA EntriesChange ==
    ASSUME TableInv, IterInv, NEW gone, cursor' = cursor,
           pending' = [i \in Iterators |-> pending[i] \ gone],
           returned' = [i \in Iterators |-> returned[i] \ gone],
           truncated => truncated',
           entries' \in Seq(Entries), Sinks(entries, entries', gone),
           (Stays(entries, entries', gone) /\ moved' = moved) \/ moved' = moved \cup Made
    PROVE  IterInv'
  <1>1. pending' \in [Iterators -> SUBSET Keys] /\ returned' \in [Iterators -> SUBSET Keys]
    BY DEF IterInv
  <1>2. SUFFICES ASSUME ~truncated'
                 PROVE  /\ \A i \in Made' : \A k \in returned'[i] :
                            \E p \in LivePos(entries') : p <= cursor'[i] /\ entries'[p].key = k
                        /\ \A i \in Made' \ moved' : \A k \in pending'[i] :
                            \E p \in LivePos(entries') : p > cursor'[i] /\ entries'[p].key = k
    BY <1>1, Zenon DEF IterInv
  <1>3. ~truncated
    BY <1>2
  <1>4. Made' = Made /\ Made \subseteq Iterators
    BY DEF Made
  <1>5. ASSUME NEW i \in Made', NEW k \in returned'[i]
        PROVE  \E p \in LivePos(entries') : p <= cursor'[i] /\ entries'[p].key = k
    <2>1. i \in Made /\ k \in returned[i] /\ k \notin gone
      BY <1>4
    <2>2. PICK p \in LivePos(entries) : p <= cursor[i] /\ entries[p].key = k
      BY <1>3, <2>1 DEF IterInv
    <2>3. PICK q \in LivePos(entries') : q <= p /\ entries'[q].key = k
      BY <2>1, <2>2 DEF Sinks
    <2>4. p \in Int /\ q \in Int /\ cursor[i] \in Int
      <3>1. i \in Iterators
        BY <1>4, <2>1
      <3> QED BY <3>1 DEF TableInv, LivePos
    <2>5. q <= cursor'[i]
      BY <2>2, <2>3, <2>4
    <2> QED BY <2>3, <2>5
  <1>6. ASSUME NEW i \in Made' \ moved', NEW k \in pending'[i]
        PROVE  \E p \in LivePos(entries') : p > cursor'[i] /\ entries'[p].key = k
    <2>1. moved' = moved /\ Stays(entries, entries', gone)
      BY <1>4
    <2>2. i \in Made \ moved /\ k \in pending[i] /\ k \notin gone
      BY <1>4, <2>1
    <2>3. PICK p \in LivePos(entries) : p > cursor[i] /\ entries[p].key = k
      BY <1>3, <2>2 DEF IterInv
    <2>4. p \in LivePos(entries') /\ entries'[p].key = k
      BY <2>1, <2>2, <2>3 DEF Stays
    <2> QED BY <2>3, <2>4
  <1> QED BY <1>5, <1>6

\* One operation after another.
LEMMA Compose ==
    ASSUME NEW es, NEW fs, NEW gs, NEW gone
    PROVE  /\ Stays(es, es, gone)
           /\ Sinks(es, fs, {}) /\ Stays(fs, gs, {}) => Sinks(es, gs, {})
           /\ Stays(es, fs, {}) /\ Stays(fs, gs, {}) => Stays(es, gs, {})
  BY DEF Sinks, Stays

\* Entries that stay do not move up.
LEMMA StaysSinks ==
    ASSUME NEW es \in Seq(Entries), NEW fs, NEW gone, Stays(es, fs, gone)
    PROVE  Sinks(es, fs, gone)
  <1>1. \A p \in LivePos(es) : p \in Nat
    BY DEF LivePos
  <1>2. \A p \in LivePos(es) : p <= p
    BY <1>1
  <1> QED BY <1>2 DEF Sinks, Stays

\* set and insert keep the entries of other keys; if some move down, moved notes it.
LEMMA SetIter ==
    ASSUME TableInv, IterInv, TableInv', NEW k \in Keys, NEW v \in Values, set(k, v)
    PROVE  IterInv'
  <1> DEFINE room == ensure_free_capacity
             done == set_impl(room.es, room.ix, room.cap, k, v)
  <1>1. room.ok /\ entries' = done.es /\ truncated' = truncated /\ cursor' = cursor
        /\ pending' = pending /\ returned' = returned
        /\ moved' = (IF Len(room.es) < Len(entries) THEN moved \cup Made ELSE moved)
    BY DEF set, Moves
  <1>2. entries \in Seq(Entries) /\ entries' \in Seq(Entries)
    BY DEF TableInv
  <1>3. /\ Len(room.es) < room.cap /\ Len(room.es) \in Nat
        /\ \E n : Built(room.es, room.ix, room.cap, n)
        /\ room.es = entries \/ room.es = Live(entries)
        /\ Keyed(room.es)
    BY <1>1, Room
  <1> HIDE DEF room
  <1>4. PICK n : Built(room.es, room.ix, room.cap, n)
    BY <1>3
  <1>5. /\ done.inserted \in BOOLEAN
        /\ done.inserted => done.es = Append(room.es, Fresh(k, v))
        /\ ~done.inserted => \E p \in LivePos(room.es) :
                room.es[p].key = k /\ Overwrites(done.es, room.es, p, k, v)
    BY <1>3, <1>4, SetImpl
  <1> HIDE DEF done
  <1>6. room.es \in Seq(Entries)
    BY <1>4 DEF Built
  <1>7. Stays(room.es, done.es, {})
    <2>1. \A p \in LivePos(room.es) : p \in 1 .. Len(room.es) /\ p \in DOMAIN room.es
      BY <1>6 DEF LivePos
    <2>2. CASE done.inserted
      <3>1. done.es = Append(room.es, Fresh(k, v))
        BY <1>5, <2>2
      <3>2. LivePos(done.es) = LivePos(room.es) \cup {Len(room.es) + 1}
            /\ \A p \in 1 .. Len(room.es) : done.es[p] = room.es[p]
        BY <1>6, <3>1, AppendEntry
      <3> QED BY <2>1, <3>2 DEF Stays
    <2>3. CASE ~done.inserted
      <3>1. PICK p \in LivePos(room.es) : room.es[p].key = k /\ Overwrites(done.es, room.es, p, k, v)
        BY <1>5, <2>3
      <3>2. done.es[p] = Fresh(k, v) /\ LivePos(done.es) = LivePos(room.es)
            /\ \A q \in DOMAIN room.es : q # p => done.es[q] = room.es[q]
        BY <1>6, <3>1, OverwriteEntry
      <3>3. done.es[p].key = k
        BY <3>2 DEF Fresh, Entry
      <3> QED BY <2>1, <3>1, <3>2, <3>3 DEF Stays
    <2> QED BY <1>5, <2>2, <2>3
  <1>8. Sinks(entries, room.es, {})
    <2>1. CASE room.es = entries
      BY <1>2, <2>1, Compose, StaysSinks
    <2>2. CASE room.es = Live(entries)
      BY <1>2, <2>2, LiveSinks
    <2> QED BY <1>3, <2>1, <2>2
  <1>9. Sinks(entries, entries', {})
    BY <1>1, <1>7, <1>8, Compose
  <1>10. (Stays(entries, entries', {}) /\ moved' = moved) \/ moved' = moved \cup Made
    <2>1. CASE Len(room.es) < Len(entries)
      BY <1>1, <2>1
    <2>2. CASE ~(Len(room.es) < Len(entries))
      <3>1. room.es = entries
        <4>1. Len(room.es) >= Len(entries)
          BY <1>2, <1>6, <2>2
        <4> QED BY <1>2, <1>3, <4>1, LiveSinks
      <3> QED BY <1>1, <1>7, <2>2, <3>1
    <2> QED BY <2>1, <2>2
  <1>11. pending' = [i \in Iterators |-> pending[i] \ {}]
         /\ returned' = [i \in Iterators |-> returned[i] \ {}]
    BY <1>1 DEF IterInv
  <1>12. truncated => truncated'
    BY <1>1
  <1> QED BY <1>1, <1>2, <1>9, <1>10, <1>11, <1>12, EntriesChange

\* remove forgets its key and moves no other entry up.
LEMMA RemoveIter ==
    ASSUME TableInv, IterInv, TableInv', NEW k \in Keys, remove(k)
    PROVE  IterInv'
  <1> DEFINE b == find_impl(k)
             pos == index[b] + 1
             es == RemoveEntry(entries, pos)
             closed == compact(es, remove_from_index(es, index, Empty, b))
  <1>1. cursor' = cursor /\ pending' = [i \in Iterators |-> pending[i] \ {k}]
        /\ returned' = [i \in Iterators |-> returned[i] \ {k}]
    BY DEF remove, Forget
  <1>2. entries \in Seq(Entries) /\ entries' \in Seq(Entries)
    BY DEF TableInv
  <1>3. CASE b # -1
    <2>1. entries' = closed.es
          /\ truncated' = (truncated \/ LeavesBehind(es, index, Empty, b))
          /\ moved' = (IF closed.es # es THEN moved \cup Made ELSE moved)
      BY <1>3, Zenon DEF remove, Moves
    <2>2. es \in Seq(Entries) /\ (closed.es = es \/ closed.es = Live(es))
          /\ pos \in LivePos(entries) /\ entries[pos].key = k
          /\ LivePos(es) = LivePos(entries) \ {pos}
          /\ \A p \in LivePos(es) : es[p] = entries[p]
      BY <1>3, Removal, Zenon
    <2> HIDE DEF closed, es, pos, b
    <2>3. Stays(entries, es, {k})
      BY <2>2 DEF Stays
    <2>4. Sinks(es, closed.es, {})
      <3>1. CASE closed.es = es
        BY <2>2, <3>1, Compose, StaysSinks
      <3>2. CASE closed.es = Live(es)
        BY <2>2, <3>2, LiveSinks
      <3> QED BY <2>2, <3>1, <3>2
    <2>5. Sinks(entries, entries', {k})
      BY <2>1, <2>3, <2>4 DEF Sinks, Stays
    <2>6. (Stays(entries, entries', {k}) /\ moved' = moved) \/ moved' = moved \cup Made
      BY <2>1, <2>3
    <2>7. truncated => truncated'
      BY <2>1
    <2> QED BY <1>1, <1>2, <2>5, <2>6, <2>7, EntriesChange
  <1>4. CASE b = -1
    <2>1. entries' = entries /\ truncated' = truncated /\ moved' = moved
      BY <1>4, Zenon DEF remove
    <2>2. Stays(entries, entries', {k})
      BY <2>1, Compose
    <2>3. Sinks(entries, entries', {k})
      BY <1>2, <2>2, StaysSinks
    <2>4. truncated => truncated'
      BY <2>1
    <2> QED BY <1>1, <1>2, <2>1, <2>2, <2>3, <2>4, EntriesChange
  <1> QED BY <1>3, <1>4

LEMMA ClearIter ==
    ASSUME TableInv, IterInv, TableInv', clear
    PROVE  IterInv'
  <1>1. cursor' = cursor /\ truncated' = truncated /\ moved' = moved
        /\ pending' = [i \in Iterators |-> pending[i] \ Keys]
        /\ returned' = [i \in Iterators |-> returned[i] \ Keys]
    BY DEF clear, Forget
  <1>2. entries' \in Seq(Entries)
    BY DEF TableInv
  <1>3. Stays(entries, entries', Keys) /\ Sinks(entries, entries', Keys)
    BY DEF TableInv, Keyed, Stays, Sinks
  <1>4. truncated => truncated'
    BY <1>1
  <1> QED BY <1>1, <1>2, <1>3, <1>4, EntriesChange

\* A new iterator has everything before it.
LEMMA MakeIter ==
    ASSUME TableInv, OrderInv, IterInv, NEW i \in Iterators, make_iterator(i)
    PROVE  IterInv'
  <1> DEFINE ks == {map[j][1] : j \in DOMAIN map}
  <1>1. cursor' = [cursor EXCEPT ![i] = 0] /\ pending' = [pending EXCEPT ![i] = ks]
        /\ returned' = [returned EXCEPT ![i] = {}] /\ moved' = moved \ {i}
        /\ entries' = entries /\ truncated' = truncated
    BY DEF make_iterator
  <1>2. cursor \in [Iterators -> Int] /\ entries \in Seq(Entries)
        /\ pending \in [Iterators -> SUBSET Keys] /\ returned \in [Iterators -> SUBSET Keys]
    BY DEF TableInv, IterInv
  <1>3. ks \subseteq Keys
    <2>1. DOMAIN map = 1 .. Len(map) /\ \A j \in 1 .. Len(map) : map[j] \in Keys \X Values
      BY DEF OrderInv, Pairs
    <2> QED BY <2>1
  <1>4. ~truncated => \A k \in ks : \E p \in LivePos(entries) : p > 0 /\ entries[p].key = k
    <2> SUFFICES ASSUME ~truncated, NEW k \in ks
                 PROVE  \E p \in LivePos(entries) : p > 0 /\ entries[p].key = k
      OBVIOUS
    <2>1. DOMAIN map = 1 .. Len(map) /\ Reflects(entries, map)
      BY DEF OrderInv, Pairs
    <2>2. PICK j \in 1 .. Len(map) : map[j][1] = k
      BY <2>1
    <2>3. PICK p \in LivePos(entries) : map[j] = <<entries[p].key, entries[p].value>>
      <3>1. PairsMatch(entries, map)
        BY <2>1, ReflectsFacts, Zenon
      <3> QED BY <3>1 DEF PairsMatch
    <2>4. p > 0
      BY <1>2 DEF LivePos
    <2> QED BY <2>2, <2>3, <2>4
  <1> HIDE DEF ks
  <1>5. pending' \in [Iterators -> SUBSET Keys] /\ returned' \in [Iterators -> SUBSET Keys]
    BY <1>1, <1>2, <1>3
  <1>6. cursor'[i] = 0 /\ pending'[i] = ks /\ returned'[i] = {}
        /\ \A j \in Iterators : j # i => cursor'[j] = cursor[j] /\ pending'[j] = pending[j]
                                         /\ returned'[j] = returned[j]
    BY <1>1, <1>2
  <1>7. \A j \in Made' : j \in Iterators /\ (j # i => j \in Made /\ (j \notin moved' => j \notin moved))
    BY <1>1, <1>6 DEF Made
  <1>8. ASSUME ~truncated', NEW j \in Made', NEW k \in returned'[j]
        PROVE  \E p \in LivePos(entries') : p <= cursor'[j] /\ entries'[p].key = k
    <2>1. j # i
      BY <1>6, <1>8
    <2>2. j \in Made /\ k \in returned[j] /\ cursor'[j] = cursor[j]
      BY <1>6, <1>7, <2>1
    <2> QED BY <1>1, <1>8, <2>2 DEF IterInv
  <1>9. ASSUME ~truncated', NEW j \in Made' \ moved', NEW k \in pending'[j]
        PROVE  \E p \in LivePos(entries') : p > cursor'[j] /\ entries'[p].key = k
    <2>1. CASE j = i
      BY <1>1, <1>4, <1>6, <1>9, <2>1
    <2>2. CASE j # i
      <3>1. j \in Made \ moved /\ k \in pending[j] /\ cursor'[j] = cursor[j]
        BY <1>6, <1>7, <2>2
      <3> QED BY <1>1, <1>9, <3>1 DEF IterInv
    <2> QED BY <2>1, <2>2
  <1> QED BY <1>5, <1>8, <1>9, Zenon DEF IterInv

\* next returns the first live entry after the cursor.
LEMMA NextIter ==
    ASSUME TableInv, IterInv, NEW i \in Iterators, iterator_next(i)
    PROVE  IterInv'
  <1> DEFINE at == Remaining(i)
             first == CHOOSE p \in at : \A q \in at : p <= q
             key == entries[first].key
  <1>1. cursor \in [Iterators -> Int] /\ entries \in Seq(Entries) /\ Keyed(entries)
        /\ pending \in [Iterators -> SUBSET Keys] /\ returned \in [Iterators -> SUBSET Keys]
    BY DEF TableInv, IterInv
  <1>2. entries' = entries /\ truncated' = truncated /\ cursor[i] >= 0
    BY DEF iterator_next
  <1>3. at = {p \in LivePos(entries) : p > cursor[i]} /\ at \subseteq Nat
    BY <1>1 DEF Remaining, LivePos
  <1>4. i \in Made
    BY <1>2 DEF Made
  <1>5. CASE /\ at # {}
             /\ cursor' = [cursor EXCEPT ![i] = first]
             /\ pending' = [pending EXCEPT ![i] = @ \ {key}]
             /\ returned' = [returned EXCEPT ![i] = @ \cup {key}]
             /\ moved' = moved
    <2>1. first \in at /\ \A q \in at : first <= q
      <3> HIDE DEF at
      <3>1. \E p \in at : \A q \in at : p <= q
        BY <1>3, <1>5, LeastNumber
      <3> QED BY <3>1, Zenon
    <2> HIDE DEF first, at
    <2>2. first \in LivePos(entries) /\ first > cursor[i] /\ first \in Nat
          /\ \A q \in LivePos(entries) : q > cursor[i] => first <= q
      BY <1>3, <2>1
    <2>3. key \in Keys
      BY <1>1, <2>2 DEF Keyed
    <2> HIDE DEF key
    <2>4. pending' \in [Iterators -> SUBSET Keys] /\ returned' \in [Iterators -> SUBSET Keys]
      BY <1>1, <1>5, <2>3
    <2>5. cursor'[i] = first /\ pending'[i] = pending[i] \ {key}
          /\ returned'[i] = returned[i] \cup {key}
          /\ \A j \in Iterators : j # i => cursor'[j] = cursor[j] /\ pending'[j] = pending[j]
                                           /\ returned'[j] = returned[j]
      BY <1>1, <1>5
    <2>6. \A j \in Made' : j \in Iterators /\ j \in Made
      BY <1>4, <2>5 DEF Made
    <2>7. ASSUME ~truncated', NEW j \in Made', NEW k \in returned'[j]
          PROVE  \E p \in LivePos(entries') : p <= cursor'[j] /\ entries'[p].key = k
      <3>1. CASE j # i
        <4>1. j \in Made /\ k \in returned[j] /\ cursor'[j] = cursor[j]
          BY <2>5, <2>6, <3>1
        <4> QED BY <1>2, <2>7, <4>1 DEF IterInv
      <3>2. CASE j = i /\ k = key
        <4>1. first <= cursor'[j] /\ entries'[first].key = k
          BY <1>2, <2>2, <2>5, <3>2 DEF key
        <4> QED BY <1>2, <2>2, <4>1
      <3>3. CASE j = i /\ k # key
        <4>1. k \in returned[i]
          BY <2>5, <3>3
        <4>2. PICK p \in LivePos(entries) : p <= cursor[i] /\ entries[p].key = k
          BY <1>2, <1>4, <2>7, <4>1 DEF IterInv
        <4>3. p \in Int /\ cursor[i] \in Int
          BY <1>1 DEF LivePos
        <4>4. p <= cursor'[j]
          BY <2>2, <2>5, <3>3, <4>2, <4>3
        <4> QED BY <1>2, <4>2, <4>4
      <3> QED BY <3>1, <3>2, <3>3
    <2>8. ASSUME ~truncated', NEW j \in Made' \ moved', NEW k \in pending'[j]
          PROVE  \E p \in LivePos(entries') : p > cursor'[j] /\ entries'[p].key = k
      <3>0. j \in Made \ moved
        BY <1>5, <2>6
      <3>1. CASE j # i
        <4>1. k \in pending[j] /\ cursor'[j] = cursor[j]
          BY <2>5, <2>6, <3>1
        <4> QED BY <1>2, <2>8, <3>0, <4>1 DEF IterInv
      <3>2. CASE j = i
        <4>1. k \in pending[i] /\ k # key
          BY <2>5, <3>2
        <4>2. PICK p \in LivePos(entries) : p > cursor[i] /\ entries[p].key = k
          BY <1>2, <2>8, <3>0, <3>2, <4>1 DEF IterInv
        <4>3. p \in Int /\ first <= p /\ p # first
          <5>1. p \in Int
            BY <1>1 DEF LivePos
          <5> QED BY <2>2, <4>1, <4>2, <5>1 DEF key
        <4>4. p > cursor'[j]
          BY <2>2, <2>5, <3>2, <4>3
        <4> QED BY <1>2, <4>2, <4>4
      <3> QED BY <3>1, <3>2
    <2> QED BY <2>4, <2>7, <2>8, Zenon DEF IterInv
  <1>6. CASE /\ cursor' = [cursor EXCEPT ![i] = -1]
             /\ pending' = [pending EXCEPT ![i] = {}]
             /\ returned' = [returned EXCEPT ![i] = {}]
             /\ moved' = moved \ {i}
    <2>1. pending' \in [Iterators -> SUBSET Keys] /\ returned' \in [Iterators -> SUBSET Keys]
      BY <1>1, <1>6
    <2>2. \A j \in Made' :
            /\ j \in Made /\ cursor'[j] = cursor[j] /\ pending'[j] = pending[j]
            /\ returned'[j] = returned[j] /\ (j \notin moved' => j \notin moved)
      BY <1>1, <1>6 DEF Made
    <2>3. ASSUME ~truncated', NEW j \in Made', NEW k \in returned'[j]
          PROVE  \E p \in LivePos(entries') : p <= cursor'[j] /\ entries'[p].key = k
      <3>1. j \in Made /\ k \in returned[j] /\ cursor'[j] = cursor[j]
        BY <2>2, <2>3
      <3> QED BY <1>2, <2>3, <3>1 DEF IterInv
    <2>4. ASSUME ~truncated', NEW j \in Made' \ moved', NEW k \in pending'[j]
          PROVE  \E p \in LivePos(entries') : p > cursor'[j] /\ entries'[p].key = k
      <3>1. j \in Made \ moved /\ k \in pending[j] /\ cursor'[j] = cursor[j]
        BY <2>2, <2>4
      <3> QED BY <1>2, <2>4, <3>1 DEF IterInv
    <2> QED BY <2>1, <2>3, <2>4, Zenon DEF IterInv
  <1> QED BY <1>5, <1>6, Zenon DEF iterator_next

\* IterInv holds at first, and every operation keeps it.
LEMMA InitIter == Init => IterInv
  <1> SUFFICES ASSUME Init
               PROVE  IterInv
    OBVIOUS
  <1>1. pending = [i \in Iterators |-> {}] /\ returned = [i \in Iterators |-> {}]
        /\ cursor = [i \in Iterators |-> -1]
    BY DEF Init
  <1>2. Made = {}
    BY <1>1 DEF Made
  <1> QED BY <1>1, <1>2 DEF IterInv

LEMMA StepIter == TableInv /\ OrderInv /\ IterInv /\ TableInv' /\ [Next]_vars => IterInv'
  <1> SUFFICES ASSUME TableInv, OrderInv, IterInv, TableInv', [Next]_vars
               PROVE  IterInv'
    OBVIOUS
  <1>1. ASSUME NEW k \in Keys, insert(k)
        PROVE  IterInv'
    BY <1>1, HashAssumption, SetIter DEF insert
  <1>2. ASSUME NEW k \in Keys, NEW v \in Values, set(k, v)
        PROVE  IterInv'
    BY <1>2, SetIter
  <1>3. ASSUME NEW k \in Keys, remove(k)
        PROVE  IterInv'
    BY <1>3, RemoveIter
  <1>4. CASE clear
    BY <1>4, ClearIter
  <1>5. ASSUME NEW i \in Iterators, make_iterator(i)
        PROVE  IterInv'
    BY <1>5, MakeIter
  <1>6. ASSUME NEW i \in Iterators, iterator_next(i)
        PROVE  IterInv'
    BY <1>6, NextIter
  <1>7. CASE UNCHANGED vars
    BY <1>7 DEF vars, IterInv, Made
  <1> QED BY <1>1, <1>2, <1>3, <1>4, <1>5, <1>6, <1>7 DEF Next

\* What the run checks follows from the invariant.
LEMMA IterInvExact == TableInv /\ OrderInv /\ IterInv => IterationExact
  <1> SUFFICES ASSUME TableInv, OrderInv, IterInv, ~truncated
               PROVE  /\ \A i \in Made : \A p \in Remaining(i) : entries[p].key \notin returned[i]
                      /\ \A i \in Made \ moved :
                            pending[i] \subseteq
                                {entries[p].key : p \in cursor[i] + 1 .. Len(entries)}
    BY DEF IterationExact, NothingReturnedTwice, NothingSkipped
  <1>1. cursor \in [Iterators -> Int] /\ entries \in Seq(Entries) /\ Distinct(entries)
        /\ Made \subseteq Iterators
    BY DEF TableInv, OrderInv, Made
  <1>2. \A p \in LivePos(entries) : p \in Int /\ p <= Len(entries) /\ Len(entries) \in Nat
    BY <1>1 DEF LivePos
  <1>3. ASSUME NEW i \in Made, NEW p \in Remaining(i), entries[p].key \in returned[i]
        PROVE  FALSE
    <2>1. p \in LivePos(entries) /\ p > cursor[i]
      BY DEF Remaining, LivePos
    <2>2. PICK q \in LivePos(entries) : q <= cursor[i] /\ entries[q].key = entries[p].key
      BY <1>3 DEF IterInv
    <2>3. q = p
      BY <1>1, <2>1, <2>2 DEF Distinct
    <2>4. p \in Int /\ cursor[i] \in Int
      BY <1>1, <1>2, <2>1
    <2> QED BY <2>1, <2>2, <2>3, <2>4
  <1>4. ASSUME NEW i \in Made \ moved, NEW k \in pending[i]
        PROVE  \E p \in cursor[i] + 1 .. Len(entries) : entries[p].key = k
    <2>1. PICK p \in LivePos(entries) : p > cursor[i] /\ entries[p].key = k
      BY DEF IterInv
    <2>2. cursor[i] \in Int
      BY <1>1
    <2>3. p \in cursor[i] + 1 .. Len(entries)
      BY <1>2, <2>1, <2>2
    <2> QED BY <2>1, <2>3
  <1> QED BY <1>3, <1>4

\* As long as every removal could close the gap it left, an iterator returns no key a
\* second time unless it was removed and inserted again, whatever is inserted, removed,
\* compacted or grown in between; and while the entries it has yet to see do not move it
\* leaves none out that was there when it was made (HashTableIterator::next).
THEOREM IterationExactCorrect == Spec => []IterationExact
  <1>1. Init => TableInv /\ OrderInv /\ IterInv
    BY InitTable, InitOrder, InitIter
  <1>2. TableInv /\ OrderInv /\ IterInv /\ [Next]_vars => (TableInv /\ OrderInv /\ IterInv)'
    BY StepTable, StepOrder, StepIter
  <1>3. TableInv /\ OrderInv /\ IterInv => IterationExact
    BY IterInvExact
  <1> QED BY <1>1, <1>2, <1>3, PTL DEF Spec
=============================================================================

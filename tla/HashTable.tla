----------------------------- MODULE HashTable -----------------------------
(***************************************************************************)
(* The hash table behind maps and sets (vm/objects/hash_table.cpp): an     *)
(* array of entries in the order of insertion, with holes where entries    *)
(* were removed, and an index from buckets to entries with robin hood      *)
(* hashing. Growing, compaction, backshift on removal and iteration are    *)
(* modelled as the code does them. Keys are compared by identity; their    *)
(* hashes are a parameter. One operation is one step: none of them gives   *)
(* up control.                                                             *)
(***************************************************************************)
EXTENDS Integers, Sequences, SequencesExt, FiniteSets

CONSTANTS
    Keys, Values,
    NoValue,        \* what a lookup of an absent key returns
    Null,           \* the value of the keys of a set
    RawHash,        \* the hash of every key
    DeletedHash,    \* the hash that marks a deleted entry (size_t(-1))
    InitialIndex,   \* initial_index_capacity
    MaxIndex,       \* the largest power of two
    ClassMax,       \* largest values of the index types, ascending
    MaxInitial,     \* bound on the capacity asked for in HashTable::make
    Iterators

ASSUME HashAssumption ==
    /\ RawHash \in [Keys -> Nat] /\ DeletedHash \in Nat \ {0}
    /\ InitialIndex \in Nat /\ InitialIndex >= 4
    /\ MaxIndex \in Nat /\ MaxIndex >= InitialIndex
    /\ NoValue \notin Values /\ Null \in Values
    /\ ClassMax \in Seq(Nat) /\ MaxInitial \in Nat

VARIABLES
    entries,    \* sequence of entries, [hash, key, value]
    index,      \* bucket -> position in entries (from 0) or the empty value
    capacity,   \* capacity of the entries array, 0 before it exists
    size,       \* entries that are not deleted
    cursor,     \* iterator -> entry_index, or -1 before it is made
    map,        \* history: the pairs an ordered map would hold
    truncated,  \* history: a backshift has left a displaced entry behind
    pending,    \* history: iterator -> keys present since it was made, not yet returned
    returned,   \* history: iterator -> keys returned and not removed since
    moved       \* history: iterators made before entries changed position

vars == <<entries, index, capacity, size, cursor, map, truncated, pending, returned, moved>>

Deleted == [hash |-> DeletedHash, key |-> NoValue, value |-> NoValue]
Entry(h, k, v) == [hash |-> h, key |-> k, value |-> v]

make_hash(k) == IF RawHash[k] = DeletedHash THEN 0 ELSE RawHash[k]

is_deleted(e) == e.hash = DeletedHash

\* The elements of s at the given positions, copied one after the other.
Only(s, at) ==
    LET copied[n \in 0 .. Len(s)] ==
            IF n = 0 THEN <<>>
            ELSE IF n \in at THEN Append(copied[n - 1], s[n]) ELSE copied[n - 1]
    IN  copied[Len(s)]
Live(es) == Only(es, {p \in DOMAIN es : ~is_deleted(es[p])})

---------------------------------------------------------------------------
\* Sizes.

table_capacity_for_index_capacity(n) == n - n \div 4

ceil_pow2(n) == CHOOSE p \in {2 ^ i : i \in 0 .. n} :
                    p >= n /\ \A q \in {2 ^ i : i \in 0 .. n} : q >= n => q >= p

index_capacity_for_entries_capacity(n) ==
    LET c == ceil_pow2((n + 2) \div 3 + n) IN IF c > InitialIndex THEN c ELSE InitialIndex

\* The reserved value of the smallest index type for that many entries.
index_size_class(cap) ==
    CHOOSE m \in ToSet(ClassMax) : cap <= m /\ \A n \in ToSet(ClassMax) : cap <= n => m <= n

\* A table that may still grow finds an index type for its entries, and so does one
\* made for up to MaxInitial entries.
ASSUME SizeAssumption ==
    /\ \E m \in ToSet(ClassMax) : table_capacity_for_index_capacity(2 * MaxIndex) <= m
    /\ \A n \in 1 .. MaxInitial :
        index_capacity_for_entries_capacity(n) \in InitialIndex .. MaxIndex

Empty == index_size_class(capacity)
Buckets(ix) == Cardinality(DOMAIN ix)

---------------------------------------------------------------------------
\* The index.

bucket_for_hash(ix, h) == h % Buckets(ix)
next_bucket(ix, b) == (b + 1) % Buckets(ix)
distance_from_ideal(ix, h, b) == (b - bucket_for_hash(ix, h)) % Buckets(ix)

Distance(es, ix, b) == distance_from_ideal(ix, es[ix[b] + 1].hash, b)

\* One turn of the loop that puts a position into the index, at bucket c: the
\* position s.i is s.d buckets away from home; an entry that is closer to its own
\* makes way.
displace(es, empty, s, c) ==
    IF s.done THEN s
    ELSE IF s.ix[c] = empty
    THEN [s EXCEPT !.ix[c] = s.i, !.done = TRUE]
    ELSE IF Distance(es, s.ix, c) < s.d
    THEN [s EXCEPT !.ix[c] = s.i, !.i = s.ix[c], !.d = Distance(es, s.ix, c) + 1]
    ELSE [s EXCEPT !.d = s.d + 1]

\* The loop, beginning with position i at bucket b and distance d.
place(es, ix, empty, i, b, d) ==
    LET after[k \in 0 .. Buckets(ix)] ==
            IF k = 0 THEN [ix |-> ix, i |-> i, d |-> d, done |-> FALSE]
            ELSE displace(es, empty, after[k - 1], (b + k - 1) % Buckets(ix))
    IN  after[Buckets(ix)].ix

EmptyIndex(n, empty) == [b \in 0 .. n - 1 |-> empty]

\* Builds an empty index up again from entries without holes.
rehash_index(es, n, empty) ==
    LET add(ix, p) == place(es, ix, empty, p - 1, bucket_for_hash(ix, es[p].hash), 0)
        after[p \in 0 .. Len(es)] ==
            IF p = 0 THEN EmptyIndex(n, empty) ELSE add(after[p - 1], p)
    IN  after[Len(es)]

\* The bucket at which the search for a key ends: an empty one, one whose
\* entry is closer to home than the key would be, or the one of the key.
Stops(es, ix, empty, k, d) ==
    LET b == (make_hash(k) + d) % Buckets(ix)
    IN  \/ ix[b] = empty
        \/ Distance(es, ix, b) < d
        \/ es[ix[b] + 1].key = k
ProbeLength(es, ix, empty, k) ==
    CHOOSE d \in 0 .. Buckets(ix) - 1 :
        Stops(es, ix, empty, k, d) /\ \A c \in 0 .. d - 1 : ~Stops(es, ix, empty, k, c)

\* Mutant: looks at the first bucket only.
find_impl_no_probe(k) ==
    LET b == make_hash(k) % Buckets(index)
    IN  IF size > 0 /\ index[b] # Empty /\ entries[index[b] + 1].key = k THEN b ELSE -1
\* The bucket of a key, or -1. The empty table may have no index.
find_impl(k) ==
    LET d == ProbeLength(entries, index, Empty, k)
        b == (make_hash(k) + d) % Buckets(index)
    IN  IF /\ size > 0
           /\ index[b] # Empty
           /\ Distance(entries, index, b) >= d
           /\ entries[index[b] + 1].key = k
        THEN b ELSE -1

get(k) == LET b == find_impl(k)
          IN  IF b = -1 THEN NoValue ELSE entries[index[b] + 1].value

---------------------------------------------------------------------------
\* What the operations do to the history of iterators.

Made == {i \in Iterators : cursor[i] >= 0}
Forget(ks) ==
    /\ pending' = [i \in Iterators |-> pending[i] \ ks]
    /\ returned' = [i \in Iterators |-> returned[i] \ ks]
\* Entries have moved down where iterators may have passed a hole.
Moves(yes) == moved' = IF yes THEN moved \cup Made ELSE moved

---------------------------------------------------------------------------
\* Initially: an empty table, or one made with room for n entries.
Init ==
    /\ \E n \in 0 .. MaxInitial :
        LET cap == index_capacity_for_entries_capacity(n)
        IN  IF n = 0
            THEN capacity = 0 /\ index = <<>>
            ELSE /\ capacity = table_capacity_for_index_capacity(cap)
                 /\ index = EmptyIndex(cap, index_size_class(capacity))
    /\ entries = <<>> /\ size = 0
    /\ cursor = [i \in Iterators |-> -1]
    /\ map = <<>> /\ truncated = FALSE
    /\ pending = [i \in Iterators |-> {}]
    /\ returned = [i \in Iterators |-> {}]
    /\ moved = {}

\* Room for one more entry: nothing to do, the first arrays, a larger table or
\* one without holes. The result has a field for each of the three variables.
ensure_free_capacity ==
    LET grown == 2 * Buckets(index)
        cap == table_capacity_for_index_capacity(grown)
        should_grow == size \div 3 >= capacity \div 4
    IN  CASE capacity = 0 ->
                LET first == table_capacity_for_index_capacity(InitialIndex)
                IN  [ok |-> TRUE, es |-> <<>>, cap |-> first,
                     ix |-> EmptyIndex(InitialIndex, index_size_class(first))]
          [] capacity > 0 /\ Len(entries) < capacity ->
                [ok |-> TRUE, es |-> entries, cap |-> capacity, ix |-> index]
          [] capacity > 0 /\ Len(entries) = capacity /\ should_grow ->
                IF Buckets(index) >= MaxIndex
                THEN [ok |-> FALSE, es |-> entries, cap |-> capacity, ix |-> index]
                ELSE [ok |-> TRUE, es |-> Live(entries), cap |-> cap,
                      ix |-> rehash_index(Live(entries), grown, index_size_class(cap))]
          [] OTHER ->
                [ok |-> TRUE, es |-> Live(entries), cap |-> capacity,
                 ix |-> rehash_index(Live(entries), Buckets(index), Empty)]

\* What the ordered map does.
MapSet(k, v) ==
    IF \E i \in DOMAIN map : map[i][1] = k
    THEN [i \in DOMAIN map |-> IF map[i][1] = k THEN <<k, v>> ELSE map[i]]
    ELSE Append(map, <<k, v>>)
MapRemove(k) == Only(map, {i \in DOMAIN map : map[i][1] # k})

\* set: overwrites the value of an existing key, takes a free bucket, or takes
\* the bucket of an entry that is closer to its home and finds that one another.
set_impl(es, ix, cap, k, v) ==
    LET empty == index_size_class(cap)
        d == ProbeLength(es, ix, empty, k)
        b == (make_hash(k) + d) % Buckets(ix)
        new == Append(es, Entry(make_hash(k), k, v))
        pos == Len(es)
    IN  IF ix[b] = empty
        THEN [inserted |-> TRUE, es |-> new, ix |-> [ix EXCEPT ![b] = pos]]
        ELSE IF Distance(es, ix, b) < d
        THEN [inserted |-> TRUE, es |-> new,
              ix |-> place(new, [ix EXCEPT ![b] = pos], empty, ix[b], next_bucket(ix, b),
                           Distance(es, ix, b) + 1)]
        ELSE [inserted |-> FALSE, ix |-> ix,
              es |-> [es EXCEPT ![ix[b] + 1] = Entry(make_hash(k), k, v)]]

\* A table that cannot grow any more throws and stays as it is.
set(k, v) ==
    LET room == ensure_free_capacity
        done == set_impl(room.es, room.ix, room.cap, k, v)
    IN  /\ room.ok
        /\ entries' = done.es /\ index' = done.ix /\ capacity' = room.cap
        /\ size' = size + (IF done.inserted THEN 1 ELSE 0)
        /\ map' = MapSet(k, v)
        /\ Moves(Len(room.es) < Len(entries))
        /\ UNCHANGED <<cursor, truncated, pending, returned>>

\* Sets are tables whose keys have the value null.
insert(k) == set(k, Null)

\* Erases a bucket and moves the entry of the next bucket back if that one is
\* not at home. The loop does not advance: it ends after one entry.
remove_from_index(es, ix, empty, b) ==
    LET erased == [ix EXCEPT ![b] = empty]
        n == next_bucket(ix, b)
    IN  IF erased[n] # empty /\ Distance(es, erased, n) > 0
        THEN [erased EXCEPT ![b] = erased[n], ![n] = empty]
        ELSE erased

\* The entry after the ones that were moved is not at home, and now follows a hole.
LeavesBehind(es, ix, empty, b) ==
    LET n == next_bucket(ix, b)  m == next_bucket(ix, n)
    IN  /\ ix[n] # empty /\ Distance(es, ix, n) > 0
        /\ ix[m] # empty /\ Distance(es, ix, m) > 0

\* The entries without the one at pos: the last one is removed, the others
\* leave a hole, and the empty table starts from the beginning.
RemoveEntry(es, pos) ==
    IF size = 1 THEN <<>>
    ELSE IF pos = Len(es) THEN SubSeq(es, 1, Len(es) - 1)
    ELSE [es EXCEPT ![pos] = Deleted]

\* Closes the holes when half of the entries or more are deleted.
\* Mutant: keeps the index of the entries with holes.
compact_keeps_index(es, ix) ==
    IF size - 1 <= Len(es) \div 2 /\ size - 1 # Len(es)
    THEN [es |-> Live(es), ix |-> ix] ELSE [es |-> es, ix |-> ix]
compact(es, ix) ==
    IF size - 1 <= Len(es) \div 2 /\ size - 1 # Len(es)
    THEN [es |-> Live(es), ix |-> rehash_index(Live(es), Buckets(ix), Empty)]
    ELSE [es |-> es, ix |-> ix]

remove(k) ==
    LET b == find_impl(k)
        es == RemoveEntry(entries, index[b] + 1)
        closed == compact(es, remove_from_index(es, index, Empty, b))
    IN  /\ \/ /\ b # -1
              /\ entries' = closed.es /\ index' = closed.ix
              /\ size' = size - 1
              /\ truncated' = (truncated \/ LeavesBehind(es, index, Empty, b))
              /\ Moves(closed.es # es)
           \/ b = -1 /\ UNCHANGED <<entries, index, size, truncated, moved>>
        /\ map' = MapRemove(k)
        /\ Forget({k})
        /\ UNCHANGED <<capacity, cursor>>

clear ==
    /\ IF size = 0
       THEN UNCHANGED <<entries, index, size>>
       ELSE /\ entries' = <<>> /\ size' = 0
            /\ index' = EmptyIndex(Buckets(index), Empty)
    /\ map' = <<>>
    /\ Forget(Keys)
    /\ UNCHANGED <<capacity, cursor, truncated, moved>>

make_iterator(i) ==
    /\ cursor[i] = -1
    /\ cursor' = [cursor EXCEPT ![i] = 0]
    /\ pending' = [pending EXCEPT ![i] = {map[j][1] : j \in DOMAIN map}]
    /\ returned' = [returned EXCEPT ![i] = {}]
    /\ moved' = moved \ {i}
    /\ UNCHANGED <<entries, index, capacity, size, map, truncated>>

\* Mutant: the entry after the cursor is passed over.
Remaining_skips(i) ==
    {p \in DOMAIN entries : p > cursor[i] + 1 /\ ~is_deleted(entries[p])}
Remaining(i) == {p \in DOMAIN entries : p > cursor[i] /\ ~is_deleted(entries[p])}

\* The first entry from the cursor on that is not deleted.
iterator_next(i) ==
    LET at == Remaining(i)
        p == CHOOSE p \in at : \A q \in at : p <= q
    IN  /\ cursor[i] >= 0
        /\ \/ /\ at # {}
              /\ cursor' = [cursor EXCEPT ![i] = p]
              /\ pending' = [pending EXCEPT ![i] = @ \ {entries[p].key}]
              /\ returned' = [returned EXCEPT ![i] = @ \cup {entries[p].key}]
              /\ UNCHANGED moved
           \* The iterator is finished and dropped.
           \/ /\ at = {}
              /\ cursor' = [cursor EXCEPT ![i] = -1]
              /\ pending' = [pending EXCEPT ![i] = {}]
              /\ returned' = [returned EXCEPT ![i] = {}]
              /\ moved' = moved \ {i}
        /\ UNCHANGED <<entries, index, capacity, size, map, truncated>>

Next ==
    \/ \E k \in Keys : insert(k) \/ remove(k)
    \/ \E k \in Keys, v \in Values : set(k, v)
    \/ clear
    \/ \E i \in Iterators : make_iterator(i) \/ iterator_next(i)

Spec == Init /\ [][Next]_vars

---------------------------------------------------------------------------
\* Every part of the table has its type; the hash that make_hash computes of a key is never
\* negative, whatever its raw hash is.
TypeOK ==
    /\ entries \in Seq([hash : Nat, key : Keys \cup {NoValue}, value : Values \cup {NoValue}])
    /\ DOMAIN index = 0 .. Buckets(index) - 1
    /\ capacity \in Nat /\ size \in Nat
    /\ cursor \in [Iterators -> Int]

\* Buckets and live entries belong together one to one, the number of live
\* entries is the size, and the array is within its capacity: also after
\* removals that leave entries unreachable, no bucket refers to a hole.
IndexMatchesEntries ==
    LET used == {b \in DOMAIN index : index[b] # Empty}
        live == {p \in DOMAIN entries : ~is_deleted(entries[p])}
    IN  /\ Cardinality(live) = size
        /\ Len(entries) <= capacity
        /\ capacity > 0 =>
            /\ {index[b] + 1 : b \in used} = live
            /\ Cardinality(used) = size

\* A bucket is always free: the loops that probe the index end.
BucketFree == capacity > 0 => \E b \in DOMAIN index : index[b] = Empty

\* As long as every removal could close the gap it left, the table is the
\* ordered map: same pairs in the same order, every key is found with its value.
OrderedMap ==
    ~truncated =>
        /\ [i \in 1 .. size |-> <<Live(entries)[i].key, Live(entries)[i].value>>] = map
        /\ \A k \in Keys : get(k) =
            IF \E i \in DOMAIN map : map[i][1] = k
            THEN (CHOOSE p \in ToSet(map) : p[1] = k)[2] ELSE NoValue

\* Removal, insertion and compaction keep the entries that remain in order, and
\* an iterator, whose cursor is a position, returns no pair twice, also after
\* compaction and growth have moved the entries.
NothingReturnedTwice ==
    ~truncated => \A i \in Made : \A p \in Remaining(i) : entries[p].key \notin returned[i]

\* An iterator that has not seen the entries move still has before it every
\* key that was there when it was made, and was neither removed nor returned.
NothingSkipped ==
    ~truncated => \A i \in Made \ moved :
        pending[i] \subseteq {entries[p].key : p \in cursor[i] + 1 .. Len(entries)}

\* Index and entries describe the same table, and a probe comes to an end (hash_table.cpp).
TableIntact == TypeOK /\ IndexMatchesEntries /\ BucketFree

\* An iterator returns no entry twice and, as long as entries do not move, leaves none out
\* (HashTableIterator::next).
IterationExact == NothingReturnedTwice /\ NothingSkipped
=============================================================================

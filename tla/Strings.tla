------------------------------- MODULE Strings ------------------------------
(***************************************************************************)
(* Strings of the machine (vm/objects/string.cpp): strings with a cached   *)
(* hash that shares its word with the flag of interned strings, slices     *)
(* that refer to their string, iterators, one builder with its buffer, and *)
(* the table of interned strings (context.cpp), which is a map here (see   *)
(* HashTable).  Strings are sequences of bytes.  Objects are not collected.*)
(***************************************************************************)
EXTENDS Integers, Sequences, FiniteSets

CONSTANTS
    Contents,      \* what strings are made from
    byte_hash(_),  \* the hash function, into 0 .. 2 * InternedFlag - 1
    InternedFlag,  \* the highest bit of a hash
    MinCapacity,   \* capacity of the first buffer of a builder (64)
    Bytes,         \* the bytes scripts append one by one
    SliceArgs,     \* integers that scripts pass to slice methods
    MaxObjects,    \* bound on objects
    MaxText        \* bound on the text in the builder

VARIABLES
    objects,   \* strings, slices and iterators
    interned,  \* the keys of the table of interned strings, each with a symbol of its own
    buffer,    \* the builder's buffer, empty if there is none
    size,      \* the builder's size
    content,   \* history: what each object was made to stand for
    appended   \* history: what was appended to the builder

svars == <<objects, interned, buffer, size, content, appended>>

\* Strings consist of numbers.
ASSUME StringsAssumption ==
    /\ Contents \subseteq Seq(Nat) /\ Bytes \subseteq Nat /\ SliceArgs \subseteq Int
    /\ InternedFlag \in Nat \ {0} /\ MinCapacity \in Nat
    /\ MaxObjects \in Nat /\ MaxText \in Nat

Ids == DOMAIN objects
IsString(i) == objects[i].t = "String"
IsSlice(i) == objects[i].t = "StringSlice"
IsStringLike(i) == IsString(i) \/ IsSlice(i)

\* The bytes a string or slice shows (of an iterator: the ones it has before it).
view(i) ==
    LET o == objects[i]
    IN  IF IsString(i) THEN o.data ELSE SubSeq(objects[o.of].data, o.offset + 1, o.offset + o.size)
Size(i) == IF IsString(i) THEN Len(objects[i].data) ELSE objects[i].size

NewString(s) == [t |-> "String", data |-> s, hash |-> 0, of |-> 0, offset |-> 0, size |-> 0]
Part(t, of, offset, n) == [t |-> t, data |-> <<>>, hash |-> 0, of |-> of, offset |-> offset, size |-> n]

\* A new object that is to stand for s.
Create(o, s) ==
    /\ Len(objects) < MaxObjects
    /\ objects' = Append(objects, o)
    /\ content' = Append(content, s)
    /\ UNCHANGED <<interned, buffer, size, appended>>

-----------------------------------------------------------------------------
\* Hashes.

str_hash(s) == (IF byte_hash(s) = 0 THEN 1 ELSE byte_hash(s)) % InternedFlag

IsInterned(i) == objects[i].hash >= InternedFlag
Flags(i) == IF IsInterned(i) THEN InternedFlag ELSE 0
\* The hash field after the hash was asked for.
Cached(i) ==
    IF objects[i].hash % InternedFlag = 0 THEN str_hash(objects[i].data) + Flags(i) ELSE objects[i].hash
hash(i) == IF IsString(i) THEN Cached(i) % InternedFlag ELSE str_hash(view(i))

\* A script uses a string as a key.
use_hash(i) ==
    /\ IsString(i) /\ objects[i].hash # Cached(i)
    /\ objects' = [objects EXCEPT ![i].hash = Cached(i)]
    /\ UNCHANGED <<interned, buffer, size, content, appended>>

String_equal(i, j) ==
    IF IsString(i) /\ IsString(j) /\ IsInterned(i) /\ IsInterned(j) THEN i = j ELSE view(i) = view(j)

-----------------------------------------------------------------------------
\* Interned strings.

\* Table lookup compares hashes first.
Found(i) == {k \in interned : hash(k) = hash(i) /\ String_equal(k, i)}

\* Mutant: the string that was asked for gets the flag, also if another one is in the table.
intern_impl_flags_copy(i) ==
    /\ objects' = [objects EXCEPT ![i].hash = Cached(i) + (IF IsInterned(i) THEN 0 ELSE InternedFlag)]
    /\ interned' = IF Found(i) = {} THEN interned \cup {i} ELSE interned
intern_impl(i) ==
    IF Found(i) # {}
    THEN objects' = [objects EXCEPT ![i].hash = Cached(i)] /\ UNCHANGED interned
    ELSE /\ objects' = [objects EXCEPT ![i].hash = Cached(i) + InternedFlag]
         /\ interned' = interned \cup {i}

\* The result is the string of the table, or i itself.
get_interned_string(i) ==
    /\ IsString(i) /\ ~IsInterned(i)
    /\ intern_impl(i)
    /\ UNCHANGED <<buffer, size, content, appended>>

\* The result is the symbol beside the string of the table.
get_symbol(i) ==
    /\ IsString(i)
    /\ intern_impl(i)
    /\ UNCHANGED <<buffer, size, content, appended>>

-----------------------------------------------------------------------------
\* Slices.

slice_arg(n) == IF n < 0 THEN 0 ELSE n
MinOf(a, b) == IF a < b THEN a ELSE b

\* A slice of a string, or of the string behind a slice.
StringSlice(i, offset, n) ==
    IF IsString(i) THEN Part("StringSlice", i, offset, n)
    ELSE Part("StringSlice", objects[i].of, objects[i].offset + offset, n)

slice_first(i, arg) ==
    LET n == MinOf(slice_arg(arg), Size(i))
    IN  /\ IsStringLike(i)
        /\ Create(StringSlice(i, 0, n), SubSeq(content[i], 1, MinOf(slice_arg(arg), Len(content[i]))))

slice_last(i, arg) ==
    LET n == MinOf(slice_arg(arg), Size(i))
    IN  /\ IsStringLike(i)
        /\ Create(StringSlice(i, Size(i) - n, n),
                  SubSeq(content[i], Len(content[i]) - MinOf(slice_arg(arg), Len(content[i])) + 1, Len(content[i])))

slice(i, arg1, arg2) ==
    LET offset == MinOf(slice_arg(arg1), Size(i))
        n == MinOf(slice_arg(arg2), Size(i) - offset)
    IN  /\ IsStringLike(i)
        /\ Create(StringSlice(i, offset, n),
                  SubSeq(content[i], slice_arg(arg1) + 1, MinOf(slice_arg(arg1) + slice_arg(arg2), Len(content[i]))))

\* The copy of a slice.
to_string(i) == IsSlice(i) /\ Create(NewString(view(i)), content[i])

make_iterator(i) ==
    /\ IsStringLike(i)
    /\ Create(IF IsString(i) THEN Part("StringIterator", i, 0, Size(i))
              ELSE Part("StringIterator", objects[i].of, objects[i].offset, Size(i)), content[i])

\* One byte, as a new string; the iterator has one byte less before it.
iterator_next(i) ==
    LET o == objects[i] IN
    /\ o.t = "StringIterator" /\ o.size > 0 /\ Len(objects) < MaxObjects
    /\ objects' = Append([objects EXCEPT ![i].offset = @ + 1, ![i].size = @ - 1],
                         NewString(<<objects[o.of].data[o.offset + 1]>>))
    /\ content' = Append([content EXCEPT ![i] = Tail(@)], <<Head(content[i])>>)
    /\ UNCHANGED <<interned, buffer, size, appended>>

-----------------------------------------------------------------------------
\* The builder.

\* The smallest power of two that is not less than n.
ceil_pow2_fast(n) ==
    LET power[k \in 0 .. n] == IF k = 0 THEN 1 ELSE 2 * power[k - 1]
    IN  power[CHOOSE k \in 0 .. n : power[k] >= n /\ \A j \in 0 .. n : power[j] >= n => k <= j]
next_capacity(required) == IF required <= MinCapacity THEN MinCapacity ELSE ceil_pow2_fast(required)

\* The buffer when n more bytes must fit; a larger one keeps all bytes of the old one.
reserve_free(n) ==
    IF size + n <= Len(buffer) THEN buffer
    ELSE [k \in 1 .. next_capacity(size + n) |-> IF k <= Len(buffer) THEN buffer[k] ELSE 0]

append_impl(bytes) ==
    LET room == reserve_free(Len(bytes)) IN
    /\ buffer' = [k \in DOMAIN room |-> IF k \in size + 1 .. size + Len(bytes) THEN bytes[k - size] ELSE room[k]]
    /\ size' = size + Len(bytes)

append(i) ==
    /\ IsStringLike(i) /\ Len(appended) + Len(content[i]) <= MaxText
    /\ IF Size(i) = 0 THEN UNCHANGED <<buffer, size>> ELSE append_impl(view(i))
    /\ appended' = appended \o content[i]
    /\ UNCHANGED <<objects, interned, content>>

append_byte(b) ==
    /\ Len(appended) < MaxText
    /\ append_impl(<<b>>)
    /\ appended' = Append(appended, b)
    /\ UNCHANGED <<objects, interned, content>>

\* The size only: the memory is kept.
clear ==
    /\ size' = 0 /\ appended' = <<>>
    /\ UNCHANGED <<objects, interned, buffer, content>>

builder_to_string == Create(NewString(SubSeq(buffer, 1, size)), appended)

-----------------------------------------------------------------------------
SInit ==
    /\ objects = <<>> /\ interned = {} /\ buffer = <<>> /\ size = 0
    /\ content = <<>> /\ appended = <<>>

SNext ==
    \/ \E s \in Contents : Create(NewString(s), s)
    \/ \E i \in Ids :
        \/ use_hash(i) \/ get_interned_string(i) \/ get_symbol(i) \/ to_string(i) \/ make_iterator(i)
        \/ iterator_next(i) \/ append(i)
        \/ \E n \in SliceArgs : slice_first(i, n) \/ slice_last(i, n) \/ \E m \in SliceArgs : slice(i, n, m)
    \/ \E b \in Bytes : append_byte(b)
    \/ clear
    \/ builder_to_string

SSpec == SInit /\ [][SNext]_svars

-----------------------------------------------------------------------------
\* Slices and iterators stay within their string.
PartsInside ==
    \A i \in Ids : ~IsString(i) =>
        /\ IsString(objects[i].of)
        /\ objects[i].offset >= 0 /\ objects[i].size >= 0
        /\ objects[i].offset + objects[i].size <= Len(objects[objects[i].of].data)

\* Strings, slices, iterators and copies have the bytes they were asked for, through slices of
\* slices and arguments beyond the ends, and the builder has what was appended since it was
\* cleared, whatever its buffer held before; two of them are equal exactly if their bytes are,
\* interned or not, with their hash known or not, and then they have the same hash, so that
\* every name has one symbol (String::equal, StringSlice::hash, intern_impl).
StringsAreContents ==
    /\ PartsInside
    /\ \A i \in Ids : view(i) = content[i]
    /\ size <= Len(buffer) /\ SubSeq(buffer, 1, size) = appended
    /\ \A i, j \in {k \in Ids : IsStringLike(k)} :
        /\ String_equal(i, j) <=> content[i] = content[j]
        /\ content[i] = content[j] => hash(i) = hash(j)
=============================================================================

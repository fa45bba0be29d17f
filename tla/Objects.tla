---- MODULE Objects ----
(***************************************************************************)
(* The objects that a host program and its scripts share: tuples, arrays,  *)
(* buffers, records, results, modules, coroutines and native objects, and  *)
(* the type system that scripts reach them through                         *)
(* (src/src/vm/objects, src/src/vm/type_system.cpp).                       *)
(*                                                                         *)
(* A value is a tuple whose first element names its sort; an object is     *)
(* referred to by its number in the heap.  The storage an array allocates  *)
(* for its elements, the table of a schema and the values of a record are  *)
(* part of the object that owns them: nothing else refers to them.         *)
(***************************************************************************)
EXTENDS Integers, Sequences, FiniteSets, SequencesExt

Null == <<"Null">>
Num(n) == <<"Integer", n>>
Str(name) == <<"String", name>>
TypeValue(public) == <<"Type", public>>
Ref(id) == <<"Object", id>>
NoObject == 0

\* The objects a sequence of values refers to.
Refs(values) == {values[i][2] : i \in {j \in DOMAIN values : values[j][1] = "Object"}}

----------------------------------------------------------------------------
(* Tuples and buffers: a fixed number of slots. *)

Tuple_make(values) == [type |-> "Tuple", values |-> values]

Nulls(size) == [i \in 1..size |-> Null]

Buffer_make(size) == [type |-> "Buffer", bytes |-> [i \in 1..size |-> 0]]

(* Arrays: slots in use and slots allocated. *)

Array_make(capacity) == [type |-> "Array", capacity |-> capacity, values |-> <<>>]

Array_of(values) == [type |-> "Array", capacity |-> Len(values), values |-> values]

MinCapacity == 8

\* The smallest power of two that is not less than n.
ceil_pow2(n) ==
    LET power[e \in 0..n] == IF e = 0 THEN 1 ELSE 2 * power[e - 1]
    IN  power[CHOOSE e \in 0..n : power[e] >= n /\ \A f \in 0..n : power[f] >= n => e <= f]

next_capacity(required) ==
    IF required = 0 THEN 0
    ELSE IF required <= MinCapacity THEN MinCapacity
    ELSE ceil_pow2(required)

\* The storage is replaced by a larger one, unless there is a slot left.
try_append(array, value) ==
    IF Len(array.values) < array.capacity
    THEN [array EXCEPT !.values = Append(@, value)]
    ELSE [array EXCEPT !.capacity = next_capacity(@ + 1), !.values = Append(@, value)]

remove_last(array) == [array EXCEPT !.values = Front(@)]

clear(array) == [array EXCEPT !.values = <<>>]

----------------------------------------------------------------------------
(* Records: a schema assigns every key the index of its value. *)

Unique(keys) == Cardinality(ToSet(keys)) = Len(keys)

RecordSchema_make(keys) ==
    [type |-> "RecordSchema",
     props |-> [k \in ToSet(keys) |-> (CHOOSE i \in DOMAIN keys : keys[i] = k) - 1]]

schema_size(schema) == Cardinality(DOMAIN schema.props)

\* The keys in the order in which they were inserted.
schema_keys(schema) ==
    [i \in 1..schema_size(schema) |-> CHOOSE k \in DOMAIN schema.props : schema.props[k] = i - 1]

Record_make(id, schema) == [type |-> "Record", schema |-> id, values |-> Nulls(schema_size(schema))]

has_key(heap, record, key) == key \in DOMAIN heap[record.schema].props

index_of(heap, record, key) == heap[record.schema].props[key]

record_get(heap, record, key) == record.values[index_of(heap, record, key) + 1]

record_set(heap, record, key, value) ==
    [record EXCEPT !.values[index_of(heap, record, key) + 1] = value]

----------------------------------------------------------------------------
(* Results, modules, functions bound to an object, coroutines, native objects. *)

Result_make(which, value) == [type |-> "Result", which |-> which, value |-> value]

\* Two members of one name are both stored; the table of exports has the later one.
Module_make(name, names, members) ==
    [type |-> "Module", name |-> name, members |-> members,
     exported |-> [n \in ToSet(names) |->
        (CHOOSE i \in DOMAIN names : names[i] = n /\ \A j \in i + 1..Len(names) : names[j] # n) - 1]]

find_exported(module, name) == module.members[module.exported[name] + 1]

BoundMethod_make(method, object) == [type |-> "BoundMethod", method |-> method, object |-> object]

Coroutine_make(arguments) ==
    [type |-> "Coroutine", state |-> "New", arguments |-> arguments,
     native_callback |-> NoObject, result |-> Null]

\* A native object holds memory of the host's; "cleanup" says that the finalizer still
\* has to release what "userdata" stands for.
NativeObject_make(userdata) == [type |-> "NativeObject", userdata |-> userdata, cleanup |-> TRUE]

References_no_schema(object) ==
    CASE object.type \in {"Tuple", "Array", "Record"} -> Refs(object.values)
      [] object.type = "Result" -> Refs(<<object.value>>)
      [] object.type = "Module" -> Refs(object.members)
      [] object.type = "BoundMethod" -> Refs(<<object.object>>)
      [] object.type = "Coroutine" ->
            (Refs(<<object.arguments, object.result>>) \union {object.native_callback}) \ {NoObject}
      [] OTHER -> {}

\* The objects that an object refers to, which the collector follows.
References(object) ==
    CASE object.type \in {"Tuple", "Array"} -> Refs(object.values)
      [] object.type = "Record" -> Refs(object.values) \union {object.schema}
      [] object.type = "Result" -> Refs(<<object.value>>)
      [] object.type = "Module" -> Refs(object.members)
      [] object.type = "BoundMethod" -> Refs(<<object.object>>)
      [] object.type = "Coroutine" ->
            (Refs(<<object.arguments, object.result>>) \union {object.native_callback}) \ {NoObject}
      [] OTHER -> {}

----------------------------------------------------------------------------
(* Types: what a value is internally, to scripts and to the host. *)

value_type(heap, v) ==
    CASE v[1] = "Integer" -> "SmallInteger"
      [] v[1] = "Object" -> heap[v[2]].type
      [] OTHER -> v[1]

\* The types scripts see, and the internal types each of them stands for.
to_value_types ==
    [Array |-> {"Array"}, ArrayIterator |-> {"ArrayIterator"}, Boolean |-> {"Boolean"},
     Buffer |-> {"Buffer"}, Coroutine |-> {"Coroutine"}, CoroutineToken |-> {"CoroutineToken"},
     Exception |-> {"Exception"}, Float |-> {"Float"},
     Function |-> {"BoundMethod", "CodeFunction", "MagicFunction", "NativeFunction"},
     Integer |-> {"HeapInteger", "SmallInteger"}, Map |-> {"HashTable"},
     MapIterator |-> {"HashTableIterator"}, MapKeyIterator |-> {"HashTableKeyIterator"},
     MapKeyView |-> {"HashTableKeyView"}, MapValueIterator |-> {"HashTableValueIterator"},
     MapValueView |-> {"HashTableValueView"}, Module |-> {"Module"},
     NativeObject |-> {"NativeObject"}, NativePointer |-> {"NativePointer"}, Null |-> {"Null"},
     Record |-> {"Record"}, RecordSchema |-> {"RecordSchema"}, Result |-> {"Result"},
     Set |-> {"Set"}, SetIterator |-> {"SetIterator"}, String |-> {"String"},
     StringBuilder |-> {"StringBuilder"}, StringIterator |-> {"StringIterator"},
     StringSlice |-> {"StringSlice"}, Symbol |-> {"Symbol"}, Tuple |-> {"Tuple"},
     TupleIterator |-> {"TupleIterator"}, Type |-> {"Type"}]

\* init_public gives every internal type the public type that lists it.
public_type(type) == CHOOSE pt \in DOMAIN to_value_types : type \in to_value_types[pt]

type_of(heap, v) == public_type(value_type(heap, v))

\* The kinds the host sees (TIRO_KIND_...); every other type is internal.
Kinds ==
    [Null |-> "null", Boolean |-> "boolean", SmallInteger |-> "integer", HeapInteger |-> "integer",
     Float |-> "float", String |-> "string", Buffer |-> "buffer", Tuple |-> "tuple",
     Record |-> "record", RecordSchema |-> "record_schema", BoundMethod |-> "function",
     CodeFunction |-> "function", MagicFunction |-> "function", NativeFunction |-> "function",
     Array |-> "array", Result |-> "result", Exception |-> "exception",
     Coroutine |-> "coroutine", Module |-> "module", Type |-> "type", NativeObject |-> "native"]

tiro_value_kind(heap, v) ==
    LET type == value_type(heap, v) IN
    IF type \in DOMAIN Kinds THEN Kinds[type] ELSE "internal"

get_type ==
    [null |-> "Null", boolean |-> "Boolean", integer |-> "Integer", float |-> "Float",
     string |-> "String", buffer |-> "Buffer", tuple |-> "Tuple", record |-> "Record",
     record_schema |-> "RecordSchema", function |-> "Function", array |-> "Array",
     result |-> "Result", exception |-> "Exception", coroutine |-> "Coroutine",
     module |-> "Module", type |-> "Type", native |-> "NativeObject"]

\* The types whose description declares a method of the name "size".
HasSize == {"Array", "Buffer", "Map", "Set", "String", "StringBuilder", "StringSlice", "Tuple"}

find_member(public, name) == name = "size" /\ public \in HasSize

\* Whether a script's index is an integer within the object.
check_index(size, index) == index[1] = "Integer" /\ index[2] >= 0 /\ index[2] < size

MaxByte == 255

====

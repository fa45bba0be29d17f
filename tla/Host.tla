---- MODULE Host ----
(***************************************************************************)
(* A host program and the virtual machine it embeds: the calls of the C    *)
(* API (src/src/api), the external slots that hold the host's handles      *)
(* (src/src/vm/handles/external.cpp), the collector that follows them, and *)
(* the completion callbacks of coroutines, from which the host may call    *)
(* the API again.                                                          *)
(*                                                                         *)
(* A call is one step, except run_ready, which returns to the host in the  *)
(* middle of its loop for every callback.  A collection may happen inside  *)
(* every call that allocates; all such a call uses is rooted, so that a    *)
(* collection before the call has the same effect and is a step of its own.*)
(* "spec" is not part of the program: it records what the calls promise    *)
(* about the contents of every container.                                  *)
(***************************************************************************)
EXTENDS Objects

CONSTANTS
    Programs,       \* hosts: the families of calls one uses, the objects and handles it
                    \* starts with, and bounds on what it makes (see HostAssumption)
    PageSlots,      \* external slots of a page
    MaxPages, MaxObjects, MaxUsers,
    Numbers, Names  \* integers and strings the host makes

Ids == 1..MaxObjects
Users == 1..MaxUsers
Free == [type |-> "Free"]

\* What values and objects look like, whatever has been done with them.
Live(objects) == {i \in Ids : objects[i].type # "Free"}
IsValue(objects, v) ==
    /\ v[1] \in {"Null", "Integer", "String", "Type", "NativeFunction", "Object"}
    /\ v[1] = "Object" => v[2] \in Live(objects)
IsSequence(s) == s \in Seq({s[i] : i \in DOMAIN s})
AreValues(objects, s) == IsSequence(s) /\ \A i \in DOMAIN s : IsValue(objects, s[i])

TupleOK(objects, o) ==
    o.type = "Tuple" /\ o = [type |-> "Tuple", values |-> o.values] /\ AreValues(objects, o.values)
ArrayOK(objects, o) ==
    /\ o.type = "Array" /\ o = [type |-> "Array", capacity |-> o.capacity, values |-> o.values]
    /\ AreValues(objects, o.values) /\ o.capacity \in Nat /\ Len(o.values) <= o.capacity
BufferOK(o) == o.type = "Buffer" /\ o = [type |-> "Buffer", bytes |-> o.bytes] /\ IsSequence(o.bytes)
\* The keys have the indexes from 0 on.
SchemaOK(o) ==
    /\ o.type = "RecordSchema" /\ o = [type |-> "RecordSchema", props |-> o.props] /\ IsFiniteSet(DOMAIN o.props)
    /\ \A k \in DOMAIN o.props : o.props[k] \in 0..schema_size(o) - 1
    /\ \A k, l \in DOMAIN o.props : o.props[k] = o.props[l] => k = l
RecordOK(objects, o) ==
    /\ o.type = "Record" /\ o = [type |-> "Record", schema |-> o.schema, values |-> o.values]
    /\ o.schema \in Ids /\ objects[o.schema].type = "RecordSchema"
    /\ AreValues(objects, o.values) /\ Len(o.values) = schema_size(objects[o.schema])
ResultOK(objects, o) ==
    o.type = "Result" /\ o = Result_make(o.which, o.value) /\ IsValue(objects, o.value)
ModuleOK(objects, o) ==
    /\ o.type = "Module" /\ o = [type |-> "Module", name |-> o.name, members |-> o.members, exported |-> o.exported]
    /\ o.name \in Names /\ AreValues(objects, o.members)
    /\ \A n \in DOMAIN o.exported : o.exported[n] \in 0..Len(o.members) - 1
MethodOK(objects, o) ==
    o.type = "BoundMethod" /\ o = BoundMethod_make(o.method, o.object) /\ IsValue(objects, o.object)
CoroutineOK(objects, o) ==
    /\ o.type = "Coroutine" /\ o = [type |-> "Coroutine", state |-> o.state, arguments |-> o.arguments,
                                   native_callback |-> o.native_callback, result |-> o.result]
    /\ o.state \in {"New", "Started", "Waiting", "Done"}
    /\ IsValue(objects, o.arguments) /\ IsValue(objects, o.result)
    /\ o.native_callback # NoObject =>
        o.native_callback \in Ids /\ objects[o.native_callback].type = "NativeObject"
NativeOK(o) ==
    /\ o.type = "NativeObject" /\ o = [type |-> "NativeObject", userdata |-> o.userdata, cleanup |-> o.cleanup]
    /\ o.userdata \in Users /\ o.cleanup \in BOOLEAN
ObjectOK(objects, o) ==
    \/ o = Free \/ TupleOK(objects, o) \/ ArrayOK(objects, o) \/ BufferOK(o) \/ SchemaOK(o)
    \/ RecordOK(objects, o) \/ ResultOK(objects, o) \/ ModuleOK(objects, o) \/ MethodOK(objects, o)
    \/ CoroutineOK(objects, o) \/ NativeOK(o)

\* The objects a host starts with.
Given(p) == [i \in Ids |-> IF i \in DOMAIN p.given THEN p.given[i] ELSE Free]

ASSUME HostAssumption ==
    /\ PageSlots \in Nat \ {0} /\ MaxPages \in Nat \ {0} /\ MaxObjects \in Nat /\ MaxUsers \in Nat
    /\ \A p \in Programs :
        /\ DOMAIN p = {"calls", "given", "held", "objects", "length", "users"}
        /\ p.objects \in 0..MaxObjects /\ p.users \in 0..MaxUsers /\ p.length \in Nat
        /\ p.held = <<>> \/ DOMAIN p.held = 1..PageSlots
        /\ \A s \in DOMAIN p.held : IsValue(Given(p), p.held[s])
        /\ \A i \in Ids :
            /\ ObjectOK(Given(p), Given(p)[i]) /\ Given(p)[i].type # "NativeObject"
            /\ Given(p)[i].type = "Coroutine" =>
                Given(p)[i].state = "New" /\ Given(p)[i].native_callback = NoObject

VARIABLES
    program,                                        \* one of Programs
    slot, allocated, pages, first_free, free_slots, \* ExternalStorage
    heap, registry, ready,                          \* objects, modules by name, coroutines
    running, frame,                                 \* run_ready and the callback it is in
    users,                                          \* per userdata: calls of callback and cleanup
    vm, err, crashed, spec

storage == <<allocated, pages, first_free, free_slots>>
scheduling == <<registry, ready, running, frame, users>>
vars == <<program, slot, storage, heap, scheduling, vm, err, crashed, spec>>

NULL == 0
Slots == 1..PageSlots * MaxPages
LocalHandle == PageSlots * MaxPages + 1     \* the handle a callback receives
NoFrame == [coroutine |-> NoObject, callback |-> NoObject]
NoUse == [registered |-> FALSE, cleanup |-> FALSE, called |-> 0, cleaned |-> 0]
Function == <<"NativeFunction">>

----------------------------------------------------------------------------
(* External storage: a slot holds a value or, while it is free, the next free slot. *)

NextFree(s) == <<"next", s>>
Stored(v) == <<"value", v>>
Handles == {s \in Slots : allocated[s]}

link_page_open(page) ==
    [s \in Slots |->
        IF s \in page * PageSlots + 1..(page + 1) * PageSlots
        THEN NextFree(s - 1)
        ELSE slot[s]]

\* The slots of a new page are linked one after the other, the last one on top.
link_page(page) ==
    [s \in Slots |->
        IF s \in page * PageSlots + 1..(page + 1) * PageSlots
        THEN NextFree(IF s = page * PageSlots + 1 THEN NULL ELSE s - 1)
        ELSE slot[s]]

allocate_slot(value) ==
    LET grow == first_free = NULL
        linked == IF grow THEN link_page(pages) ELSE slot
        top == IF grow THEN (pages + 1) * PageSlots ELSE first_free
    IN  /\ grow => pages < MaxPages
        /\ slot' = [linked EXCEPT ![top] = Stored(value)]
        /\ allocated' = [allocated EXCEPT ![top] = TRUE]
        /\ first_free' = linked[top][2]
        /\ free_slots' = free_slots + (IF grow THEN PageSlots ELSE 0) - 1
        /\ pages' = pages + (IF grow THEN 1 ELSE 0)

free_slot(s) ==
    /\ slot' = [slot EXCEPT ![s] = NextFree(first_free)]
    /\ allocated' = [allocated EXCEPT ![s] = FALSE]
    /\ first_free' = s
    /\ free_slots' = free_slots + 1
    /\ UNCHANGED pages

----------------------------------------------------------------------------
(* Calls: their arguments, the error they report, the values they read and write. *)

Nothing == IF "errors" \in program.calls THEN {NULL} ELSE {}
Args == Handles \union Nothing \union (IF frame = NoFrame THEN {} ELSE {LocalHandle})
Results == Handles \union Nothing

Get(h) == IF h = LocalHandle THEN Ref(frame.coroutine) ELSE slot[h][2]
Set(h, v) == slot' = [slot EXCEPT ![h] = Stored(v)]
IsA(h, type) == h # NULL /\ value_type(heap, Get(h)) = type
Id(h) == Get(h)[2]
Obj(h) == heap[Id(h)]

\* An error that the host has not looked at is never overwritten.
report_error(code) == err' = IF err = "OK" THEN code ELSE err

Uses(family) == family \in program.calls /\ vm = "alive" /\ ~crashed

\* A host looks at the error of a call before the next one, unless its program does not.
Checked == err = "OK" \/ "errors" \in program.calls

entry_point(family, code, effect) ==
    /\ Uses(family) /\ Checked
    /\ report_error(code)
    /\ IF code = "OK" THEN effect ELSE UNCHANGED <<slot, heap, spec>>
    /\ UNCHANGED <<program, storage, scheduling, vm, crashed>>

Writes(result, v) == Set(result, v) /\ UNCHANGED <<heap, spec>>

Updates(h, object, promised) ==
    /\ heap' = [heap EXCEPT ![Id(h)] = object]
    /\ spec' = [spec EXCEPT ![Id(h)] = promised]
    /\ UNCHANGED slot

\* An allocation takes a free object or fails.
FreeIds == {i \in 1..program.objects : heap[i].type = "Free"}
NewId == CHOOSE i \in FreeIds : \A j \in FreeIds : i <= j

create_object(object, promised, result) ==
    /\ heap' = [heap EXCEPT ![NewId] = object]
    /\ spec' = [spec EXCEPT ![NewId] = promised]
    /\ Set(result, Ref(NewId))

Makes(family, code, object, promised, result) ==
    \/ code = "OK" /\ FreeIds # {} /\ entry_point(family, "OK", create_object(object, promised, result))
    \/ entry_point(family, IF code = "OK" THEN "ALLOC" ELSE code, FALSE)

\* The code reported for handles that are NULL or of another type.
bad_arg(handles) == IF NULL \in handles THEN "BAD_ARG" ELSE "OK"
bad_type(handles, h, type) ==
    IF NULL \in handles THEN "BAD_ARG" ELSE IF ~IsA(h, type) THEN "BAD_TYPE" ELSE "OK"
out_of_bounds(handles, h, type, index) ==
    LET code == bad_type(handles, h, type) IN
    IF code = "OK" /\ index >= Len(Obj(h).values) THEN "OUT_OF_BOUNDS" ELSE code

----------------------------------------------------------------------------
(* Handles and plain values. *)

tiro_global_new ==
    /\ Uses("globals") /\ Checked
    /\ allocate_slot(Null)
    /\ UNCHANGED <<program, heap, scheduling, vm, err, crashed, spec>>

tiro_global_free(global) ==
    /\ Uses("globals") /\ Checked
    /\ free_slot(global)
    /\ UNCHANGED <<program, heap, scheduling, vm, err, crashed, spec>>

tiro_error_free ==
    /\ err # "OK"
    /\ err' = "OK"
    /\ UNCHANGED <<program, slot, storage, heap, scheduling, vm, crashed, spec>>

tiro_value_copy(value, result) ==
    entry_point("handles", bad_arg({value, result}), Writes(result, Get(value)))

\* A result that is NULL is not reported.
tiro_make_null(result) == result # NULL /\ entry_point("handles", "OK", Writes(result, Null))

tiro_make_integer(n, result) ==
    entry_point("numbers", bad_arg({result}), Writes(result, Num(n)))

tiro_make_string(name, result) ==
    entry_point("strings", bad_arg({result}), Writes(result, Str(name)))

tiro_value_type(value, result) ==
    entry_point("types", bad_arg({value, result}), Writes(result, TypeValue(type_of(heap, Get(value)))))

tiro_kind_type(kind, result) ==
    entry_point("types", IF result = NULL \/ kind = "internal" THEN "BAD_ARG" ELSE "OK",
                Writes(result, TypeValue(get_type[kind])))

tiro_type_name(type, result) ==
    entry_point("types", bad_type({type, result}, type, "Type"), Writes(result, Str(Get(type)[2])))

(* Tuples. *)

tiro_make_tuple(size, result) ==
    Makes("tuples", bad_arg({result}), Tuple_make(Nulls(size)), Nulls(size), result)

tiro_tuple_get(tuple, index, result) ==
    entry_point("tuples", out_of_bounds({tuple, result}, tuple, "Tuple", index),
                Writes(result, Obj(tuple).values[index + 1]))

tiro_tuple_set(tuple, index, value) ==
    entry_point("tuples", out_of_bounds({tuple, value}, tuple, "Tuple", index),
                Updates(tuple, [Obj(tuple) EXCEPT !.values[index + 1] = Get(value)],
                        [spec[Id(tuple)] EXCEPT ![index + 1] = Get(value)]))

(* Arrays. *)

tiro_make_array(capacity, result) ==
    Makes("arrays", bad_arg({result}), Array_make(capacity), <<>>, result)

tiro_array_get(array, index, result) ==
    entry_point("arrays", out_of_bounds({array, result}, array, "Array", index),
                Writes(result, Obj(array).values[index + 1]))

tiro_array_set(array, index, value) ==
    entry_point("arrays", out_of_bounds({array, value}, array, "Array", index),
                Updates(array, [Obj(array) EXCEPT !.values[index + 1] = Get(value)],
                        [spec[Id(array)] EXCEPT ![index + 1] = Get(value)]))

\* Growing the storage may fail; the array is then as it was.
tiro_array_push(array, value) ==
    LET code == bad_type({array, value}, array, "Array") IN
    /\ code = "OK" => Len(Obj(array).values) < program.length
    /\ \/ entry_point("arrays", code, Updates(array, try_append(Obj(array), Get(value)),
                                            Append(spec[Id(array)], Get(value))))
       \/ /\ code = "OK" /\ Len(Obj(array).values) = Obj(array).capacity
          /\ entry_point("arrays", "ALLOC", FALSE)

tiro_array_pop(array) ==
    entry_point("arrays", out_of_bounds({array}, array, "Array", 0),
                Updates(array, remove_last(Obj(array)), Front(spec[Id(array)])))

tiro_array_clear(array) ==
    entry_point("arrays", bad_type({array}, array, "Array"), Updates(array, clear(Obj(array)), <<>>))

(* Buffers: the host reads and writes the bytes in place. *)

tiro_make_buffer(size, result) ==
    Makes("buffers", bad_arg({result}), Buffer_make(size), Buffer_make(size).bytes, result)

WriteByte(buffer, index, byte) ==
    /\ IsA(buffer, "Buffer") /\ index < Len(Obj(buffer).bytes)
    /\ entry_point("buffers", "OK", Updates(buffer, [Obj(buffer) EXCEPT !.bytes[index + 1] = byte],
                                           [spec[Id(buffer)] EXCEPT ![index + 1] = byte]))

(* Records. *)

\* Every element of the array of keys must be a string, and no two the same.
tiro_make_record_schema(keys, result) ==
    LET code == bad_type({keys, result}, keys, "Array")
        values == Obj(keys).values
        symbols == [i \in DOMAIN values |-> values[i][2]]
    IN  Makes("records",
              IF code # "OK" THEN code
              ELSE IF \E i \in DOMAIN values : values[i][1] # "String" THEN "BAD_TYPE"
              ELSE IF ~Unique(symbols) THEN "INTERNAL" ELSE "OK",
              RecordSchema_make(symbols), <<>>, result)

tiro_make_record(schema, result) ==
    Makes("records", bad_type({schema, result}, schema, "RecordSchema"),
          Record_make(Id(schema), Obj(schema)), [k \in DOMAIN Obj(schema).props |-> Null], result)

tiro_record_keys(record, result) ==
    LET keys == schema_keys(heap[Obj(record).schema])
        names == [i \in DOMAIN keys |-> Str(keys[i])]
    IN  Makes("records", bad_type({record, result}, record, "Record"), Array_of(names), names, result)

bad_key(handles, record, key) ==
    LET code == bad_type(handles, record, "Record") IN
    IF code # "OK" THEN code
    ELSE IF ~IsA(key, "String") THEN "BAD_TYPE"
    ELSE IF ~has_key(heap, Obj(record), Get(key)[2]) THEN "BAD_KEY" ELSE "OK"

tiro_record_get(record, key, result) ==
    entry_point("records", bad_key({record, key, result}, record, key),
                Writes(result, record_get(heap, Obj(record), Get(key)[2])))

tiro_record_set(record, key, value) ==
    entry_point("records", bad_key({record, key, value}, record, key),
                Updates(record, record_set(heap, Obj(record), Get(key)[2], Get(value)),
                        [spec[Id(record)] EXCEPT ![Get(key)[2]] = Get(value)]))

(* Results. *)

tiro_make_success(value, result) ==
    Makes("results", bad_arg({value, result}), Result_make("Success", Get(value)),
          <<Get(value)>>, result)

tiro_make_error(error, result) ==
    Makes("results", bad_arg({error, result}), Result_make("Error", Get(error)),
          <<Get(error)>>, result)

bad_state(handles, instance, which) ==
    LET code == bad_type(handles, instance, "Result") IN
    IF code = "OK" /\ Obj(instance).which # which THEN "BAD_STATE" ELSE code

tiro_result_value(instance, out) ==
    entry_point("results", bad_state({instance, out}, instance, "Success"),
                Writes(out, Obj(instance).value))

tiro_result_error(instance, out) ==
    entry_point("results", bad_state({instance, out}, instance, "Error"),
                Writes(out, Obj(instance).value))

----------------------------------------------------------------------------
(* Scripts: the type system's access to the same objects.  An access that throws an *)
(* exception changes nothing and is no step.                                        *)

Elements(object) == IF object.type = "Buffer" THEN object.bytes ELSE object.values

Indexable(h) == \E type \in {"Array", "Tuple", "Buffer"} : IsA(h, type)

load_index(object, index, result) ==
    /\ Indexable(object) /\ check_index(Len(Elements(Obj(object))), index) /\ result # NULL
    /\ LET element == Elements(Obj(object))[index[2] + 1] IN
       entry_point("scripts", "OK",
                   Writes(result, IF Obj(object).type = "Buffer" THEN Num(element) ELSE element))

\* What is stored into a buffer is the byte of an integer from 0 through 255.
store_index(object, index, value) ==
    /\ Indexable(object) /\ check_index(Len(Elements(Obj(object))), index) /\ value # NULL
    /\ LET i == index[2] + 1 IN
       IF Obj(object).type = "Buffer"
       THEN /\ Get(value)[1] = "Integer" /\ Get(value)[2] \in 0..MaxByte
            /\ entry_point("scripts", "OK",
                           Updates(object, [Obj(object) EXCEPT !.bytes[i] = Get(value)[2]],
                                   [spec[Id(object)] EXCEPT ![i] = Get(value)[2]]))
       ELSE entry_point("scripts", "OK",
                        Updates(object, [Obj(object) EXCEPT !.values[i] = Get(value)],
                                [spec[Id(object)] EXCEPT ![i] = Get(value)]))

\* A member of a record or a module is its value; a method of another object is bound to it.
load_member(object, member, result) ==
    /\ object # NULL /\ result # NULL
    /\ \/ /\ IsA(object, "Record") /\ has_key(heap, Obj(object), member)
          /\ entry_point("scripts", "OK", Writes(result, record_get(heap, Obj(object), member)))
       \/ /\ IsA(object, "Module") /\ member \in DOMAIN Obj(object).exported
          /\ entry_point("scripts", "OK", Writes(result, find_exported(Obj(object), member)))
       \/ /\ IsA(object, "Type") /\ find_member(Get(object)[2], member)
          /\ entry_point("scripts", "OK", Writes(result, Function))
       \/ /\ ~\E type \in {"Record", "Module", "Type"} : IsA(object, type)
          /\ find_member(type_of(heap, Get(object)), member) /\ FreeIds # {}
          /\ entry_point("scripts", "OK", create_object(BoundMethod_make(member, Get(object)),
                                                       <<Get(object)>>, result))

store_member(object, member, value) ==
    /\ IsA(object, "Record") /\ has_key(heap, Obj(object), member) /\ value # NULL
    /\ entry_point("scripts", "OK",
                   Updates(object, record_set(heap, Obj(object), member, Get(value)),
                           [spec[Id(object)] EXCEPT ![member] = Get(value)]))

----------------------------------------------------------------------------
(* Modules that the host makes and registers. *)

\* The members are named and taken from handles, in order.
tiro_make_module(name, names, values, result) ==
    LET members == [i \in DOMAIN values |-> Get(values[i])] IN
    Makes("modules", bad_arg(ToSet(values) \union {result}),
          Module_make(name, names, members), members, result)

tiro_module_get_export(module, name, result) ==
    LET code == bad_type({module, result}, module, "Module") IN
    entry_point("modules",
                IF code = "OK" /\ name \notin DOMAIN Obj(module).exported
                THEN "EXPORT_NOT_FOUND" ELSE code,
                Writes(result, find_exported(Obj(module), name)))

tiro_vm_load_module(module) ==
    LET code == bad_type({module}, module, "Module")
        exists == code = "OK" /\ registry[Obj(module).name] # NoObject
    IN  /\ Uses("modules") /\ Checked
        /\ report_error(IF exists THEN "MODULE_EXISTS" ELSE code)
        /\ registry' = IF code = "OK" /\ ~exists
                       THEN [registry EXCEPT ![Obj(module).name] = Id(module)] ELSE registry
        /\ UNCHANGED <<program, slot, storage, heap, ready, running, frame, users, vm, crashed, spec>>

tiro_vm_get_export(module_name, name, result) ==
    LET found == heap[registry[module_name]] IN
    entry_point("modules",
                IF result = NULL THEN "BAD_ARG"
                ELSE IF registry[module_name] = NoObject THEN "MODULE_NOT_FOUND"
                ELSE IF name \notin DOMAIN found.exported THEN "EXPORT_NOT_FOUND" ELSE "OK",
                Writes(result, find_exported(found, name)))

----------------------------------------------------------------------------
(* Native objects and coroutines.  "users" counts what happens to each userdata. *)

NewUser == CHOOSE u \in Users : ~users[u].registered /\ \A v \in 1..u - 1 : users[v].registered
UserLeft == \E u \in 1..program.users : ~users[u].registered
Registered(u, cleanup, cleaned) ==
    [users EXCEPT ![u] = [registered |-> TRUE, cleanup |-> cleanup, called |-> 0, cleaned |-> cleaned]]

tiro_make_native(result) ==
    /\ Uses("natives") /\ Checked /\ UserLeft
    /\ \/ /\ result # NULL /\ FreeIds # {}
          /\ create_object(NativeObject_make(NewUser), <<>>, result)
          /\ users' = Registered(NewUser, TRUE, 0)
          /\ UNCHANGED err
       \/ /\ report_error(IF result = NULL THEN "BAD_ARG" ELSE "ALLOC")
          /\ UNCHANGED <<slot, heap, users, spec>>
    /\ UNCHANGED <<program, storage, registry, ready, running, frame, vm, crashed>>

\* The host gets a function, from a module or from make_sync_function.
MakeFunction(result) == result # NULL /\ entry_point("functions", "OK", Writes(result, Function))

tiro_make_coroutine(func, arguments, result) ==
    LET code == IF NULL \in {func, result} THEN "BAD_ARG"
                ELSE IF ~\E type \in {"NativeFunction", "BoundMethod"} : IsA(func, type) THEN "BAD_TYPE"
                ELSE IF arguments # NULL /\ ~IsA(arguments, "Null") /\ ~IsA(arguments, "Tuple")
                THEN "BAD_TYPE" ELSE "OK"
    IN  Makes("functions", code, Coroutine_make(IF arguments = NULL THEN Null ELSE Get(arguments)),
              <<>>, result)

tiro_coroutine_start(coroutine) ==
    LET code == bad_type({coroutine}, coroutine, "Coroutine")
        state == IF code = "OK" /\ Obj(coroutine).state # "New" THEN "BAD_STATE" ELSE code
    IN  /\ Uses("coroutines") /\ Checked
        /\ report_error(state)
        /\ IF state = "OK"
           THEN /\ heap' = [heap EXCEPT ![Id(coroutine)].state = "Started"]
                /\ ready' = Append(ready, Id(coroutine))
           ELSE UNCHANGED <<heap, ready>>
        /\ UNCHANGED <<program, slot, storage, registry, running, frame, users, vm, crashed, spec>>

tiro_coroutine_result(coroutine, result) ==
    LET code == bad_type({coroutine, result}, coroutine, "Coroutine") IN
    entry_point("coroutines",
                IF code = "OK" /\ Obj(coroutine).state # "Done" THEN "BAD_STATE" ELSE code,
                Writes(result, Obj(coroutine).result))

\* A callback that is there already is dropped before the object for the new one is
\* allocated.  When the call fails, the new one is cleaned up at once: on the paths that
\* report bad arguments without a test whether there is a cleanup function.
tiro_coroutine_set_callback(coroutine, callback, cleanup) ==
    LET code == IF ~callback THEN "BAD_ARG" ELSE bad_type({coroutine}, coroutine, "Coroutine")
        dropped == [heap EXCEPT ![Id(coroutine)].native_callback = NoObject]
        object == [NativeObject_make(NewUser) EXCEPT !.cleanup = cleanup]
    IN  /\ Uses("coroutines") /\ Checked /\ UserLeft
        /\ \/ /\ code # "OK"
              /\ report_error(code)
              /\ users' = Registered(NewUser, cleanup, IF cleanup THEN 1 ELSE 0)
              /\ crashed' = ~cleanup
              /\ UNCHANGED heap
           \/ /\ code = "OK"
              /\ report_error("ALLOC")
              /\ heap' = dropped
              /\ users' = Registered(NewUser, cleanup, IF cleanup THEN 1 ELSE 0)
              /\ UNCHANGED crashed
           \/ /\ code = "OK" /\ FreeIds # {}
              /\ heap' = [dropped EXCEPT ![Id(coroutine)].native_callback = NewId, ![NewId] = object]
              /\ users' = Registered(NewUser, cleanup, 0)
              /\ UNCHANGED <<err, crashed>>
        /\ UNCHANGED <<program, slot, storage, registry, ready, running, frame, vm, spec>>

tiro_vm_run_ready ==
    /\ Uses("coroutines") /\ Checked
    /\ report_error(IF running THEN "INTERNAL" ELSE "OK")
    /\ running' = TRUE
    /\ UNCHANGED <<program, slot, storage, heap, registry, ready, frame, users, vm, crashed, spec>>

\* The coroutine at the front runs until it waits or completes; run_ready calls the
\* callback of one that completes and is in it until CallbackReturns.
execute_callbacks(coroutine, callback) ==
    IF callback = NoObject THEN UNCHANGED <<frame, users>>
    ELSE /\ frame' = [coroutine |-> coroutine, callback |-> callback]
         /\ users' = [users EXCEPT ![heap[callback].userdata].called = @ + 1]

RunCoroutine(completes) ==
    /\ running /\ frame = NoFrame /\ ready # <<>> /\ ~crashed
    /\ ready' = Tail(ready)
    /\ LET c == Head(ready) IN
       IF completes
       THEN /\ heap' = [heap EXCEPT ![c].state = "Done", ![c].result = heap[c].arguments]
            /\ execute_callbacks(c, heap[c].native_callback)
       ELSE /\ heap' = [heap EXCEPT ![c].state = "Waiting"]
            /\ UNCHANGED <<frame, users>>
    /\ UNCHANGED <<program, slot, storage, registry, running, vm, err, crashed, spec>>

\* The native function that a coroutine waits for completes; the host may still hold its token.
ResumeCoroutine(c) ==
    /\ Uses("coroutines") /\ heap[c].type = "Coroutine" /\ heap[c].state = "Waiting"
    /\ heap' = [heap EXCEPT ![c].state = "Started"]
    /\ ready' = Append(ready, c)
    /\ UNCHANGED <<program, slot, storage, registry, running, frame, users, vm, err, crashed, spec>>

CallbackReturns_keeps_cleanup ==
    /\ frame # NoFrame /\ ~crashed
    /\ LET callback == heap[frame.callback] IN
       users' = IF callback.cleanup THEN [users EXCEPT ![callback.userdata].cleaned = @ + 1] ELSE users
    /\ frame' = NoFrame
    /\ UNCHANGED <<program, slot, storage, heap, registry, ready, running, vm, err, crashed, spec>>

\* done(): the cleanup function follows the callback and is forgotten.
CallbackReturns ==
    /\ frame # NoFrame /\ ~crashed
    /\ LET callback == heap[frame.callback] IN
       /\ users' = IF callback.cleanup THEN [users EXCEPT ![callback.userdata].cleaned = @ + 1] ELSE users
       /\ heap' = [heap EXCEPT ![frame.callback].cleanup = FALSE]
    /\ frame' = NoFrame
    /\ UNCHANGED <<program, slot, storage, registry, ready, running, vm, err, crashed, spec>>

RunReadyReturns ==
    /\ running /\ frame = NoFrame /\ ready = <<>> /\ ~crashed
    /\ running' = FALSE
    /\ UNCHANGED <<program, slot, storage, heap, registry, ready, frame, users, vm, err, crashed, spec>>

----------------------------------------------------------------------------
(* The collector and the end of the virtual machine. *)

\* The collector starts at the handles, the modules, the coroutines that are ready, the
\* callback that is being called and the tokens of waiting coroutines.
trace(tokens) ==
    Refs([i \in 1..Cardinality(Slots) |-> IF allocated[i] THEN slot[i][2] ELSE Null])
        \union {registry[n] : n \in Names} \union ToSet(ready)
        \union {frame.coroutine, frame.callback} \union tokens

\* What can be reached from roots when every i refers to refs[i].
Closure(roots, refs) ==
    LET reach[n \in 0..MaxObjects] ==
            IF n = 0 THEN roots
            ELSE reach[n - 1] \union UNION {refs[i] : i \in reach[n - 1]}
    IN  reach[MaxObjects]

Reachable(roots) == Closure(roots \ {NoObject}, [i \in Ids |-> References(heap[i])])

\* The finalizer of a native object runs its cleanup, if that has not been done.
finalize(dead) ==
    [u \in Users |->
        LET pending == {i \in dead : /\ heap[i].type = "NativeObject" /\ heap[i].cleanup
                                     /\ heap[i].userdata = u}
        IN  [users[u] EXCEPT !.cleaned = @ + Cardinality(pending)]]

Waiting == {i \in Ids : heap[i].type = "Coroutine" /\ heap[i].state = "Waiting"}

collect(tokens) ==
    LET dead == {i \in Ids : heap[i].type # "Free"} \ Reachable(trace(tokens)) IN
    /\ vm = "alive" /\ ~crashed /\ dead # {}
    /\ heap' = [i \in Ids |-> IF i \in dead THEN Free ELSE heap[i]]
    /\ spec' = [i \in Ids |-> IF i \in dead THEN <<>> ELSE spec[i]]
    /\ users' = finalize(dead)
    /\ UNCHANGED <<program, slot, storage, registry, ready, running, frame, vm, err, crashed>>

\* The host frees the machine while it is not in one of its calls.
tiro_vm_free ==
    /\ vm = "alive" /\ ~crashed /\ ~running
    /\ vm' = "freed"
    /\ users' = finalize({i \in Ids : heap[i].type # "Free"})
    /\ heap' = [i \in Ids |-> Free] /\ spec' = [i \in Ids |-> <<>>]
    /\ registry' = [n \in Names |-> NoObject] /\ ready' = <<>>
    /\ slot' = [s \in Slots |-> NextFree(NULL)] /\ allocated' = [s \in Slots |-> FALSE]
    /\ pages' = 0 /\ first_free' = NULL /\ free_slots' = 0
    /\ UNCHANGED <<program, running, frame, err, crashed>>

\* What an object holds, as the calls describe it.
View(objects, object) ==
    CASE object.type \in {"Tuple", "Array"} -> object.values
      [] object.type = "Buffer" -> object.bytes
      [] object.type = "Record" ->
            [k \in DOMAIN objects[object.schema].props |-> record_get(objects, object, k)]
      [] object.type = "Result" -> <<object.value>>
      [] object.type = "Module" -> object.members
      [] object.type = "BoundMethod" -> <<object.object>>
      [] OTHER -> <<>>

\* A host starts with an empty machine, or after it has made some objects and a page of handles.
Init ==
    /\ program \in Programs
    /\ pages = IF program.held = <<>> THEN 0 ELSE 1
    /\ allocated = [s \in Slots |-> s \in DOMAIN program.held]
    /\ slot = [s \in Slots |-> IF allocated[s] THEN Stored(program.held[s]) ELSE NextFree(NULL)]
    /\ first_free = NULL /\ free_slots = 0
    /\ heap = Given(program)
    /\ spec = [i \in Ids |-> View(heap, heap[i])]
    /\ registry = [n \in Names |-> NoObject] /\ ready = <<>>
    /\ running = FALSE /\ frame = NoFrame
    /\ users = [u \in Users |-> NoUse]
    /\ vm = "alive" /\ err = "OK" /\ crashed = FALSE

Indexes == 0..program.length
ScriptIndexes == {Num(n) : n \in -1..program.length} \union {Str(n) : n \in Names}
Members == Names \union {"size"}

CallContainer ==
    \/ \E n \in Indexes, r \in Results : tiro_make_tuple(n, r)
    \/ \E t \in Args, i \in Indexes, r \in Results : tiro_tuple_get(t, i, r)
    \/ \E t \in Args, i \in Indexes, v \in Args : tiro_tuple_set(t, i, v)
    \/ \E n \in 0..1, r \in Results : tiro_make_array(n, r)
    \/ \E a \in Args, i \in Indexes, r \in Results : tiro_array_get(a, i, r)
    \/ \E a \in Args, i \in Indexes, v \in Args : tiro_array_set(a, i, v)
    \/ \E a \in Args, v \in Args : tiro_array_push(a, v)
    \/ \E a \in Args : tiro_array_pop(a)
    \/ \E a \in Args : tiro_array_clear(a)
    \/ \E n \in Indexes, r \in Results : tiro_make_buffer(n, r)
    \/ \E b \in Args, i \in Indexes, v \in Numbers \cap (0..MaxByte) : WriteByte(b, i, v)
    \/ \E k \in Args, r \in Results : tiro_make_record_schema(k, r)
    \/ \E s \in Args, r \in Results : tiro_make_record(s, r)
    \/ \E o \in Args, r \in Results : tiro_record_keys(o, r)
    \/ \E o \in Args, k \in Args, r \in Results : tiro_record_get(o, k, r)
    \/ \E o \in Args, k \in Args, v \in Args : tiro_record_set(o, k, v)
    \/ \E v \in Args, r \in Results : tiro_make_success(v, r)
    \/ \E v \in Args, r \in Results : tiro_make_error(v, r)
    \/ \E o \in Args, r \in Results : tiro_result_value(o, r)
    \/ \E o \in Args, r \in Results : tiro_result_error(o, r)

CallScript ==
    \/ \E o \in Args, i \in ScriptIndexes, r \in Results : load_index(o, i, r)
    \/ \E o \in Args, i \in ScriptIndexes, v \in Args : store_index(o, i, v)
    \/ \E o \in Args, m \in Members, r \in Results : load_member(o, m, r)
    \/ \E o \in Args, m \in Members, v \in Args : store_member(o, m, v)

CallHandle ==
    \/ tiro_global_new
    \/ \E g \in Handles : tiro_global_free(g)
    \/ tiro_error_free
    \/ \E v \in Args, r \in Results : tiro_value_copy(v, r)
    \/ \E r \in Results : tiro_make_null(r)
    \/ \E n \in Numbers, r \in Results : tiro_make_integer(n, r)
    \/ \E n \in Names, r \in Results : tiro_make_string(n, r)
    \/ \E v \in Args, r \in Results : tiro_value_type(v, r)
    \/ \E k \in {"array", "function", "internal"}, r \in Results : tiro_kind_type(k, r)
    \/ \E t \in Args, r \in Results : tiro_type_name(t, r)

CallModule ==
    \/ \E n \in Names, names \in BoundedSeq(Names, program.length), r \in Results :
            \E values \in [DOMAIN names -> Args] : tiro_make_module(n, names, values, r)
    \/ \E o \in Args, n \in Names, r \in Results : tiro_module_get_export(o, n, r)
    \/ \E o \in Args : tiro_vm_load_module(o)
    \/ \E m \in Names, n \in Names, r \in Results : tiro_vm_get_export(m, n, r)

CallCoroutine ==
    \/ \E r \in Results : tiro_make_native(r)
    \/ \E r \in Results : MakeFunction(r)
    \/ \E f \in Args, a \in Args, r \in Results : tiro_make_coroutine(f, a, r)
    \/ \E c \in Args : tiro_coroutine_start(c)
    \/ \E c \in Args, r \in Results : tiro_coroutine_result(c, r)
    \/ \E c \in Args, callback \in BOOLEAN, cleanup \in BOOLEAN :
            tiro_coroutine_set_callback(c, callback, cleanup)
    \/ tiro_vm_run_ready
    \/ \E completes \in BOOLEAN : RunCoroutine(completes)
    \/ \E c \in Ids : ResumeCoroutine(c)
    \/ CallbackReturns
    \/ RunReadyReturns

Next ==
    \/ CallHandle \/ CallContainer \/ CallScript \/ CallModule \/ CallCoroutine
    \/ \E tokens \in SUBSET Waiting : collect(tokens)
    \/ tiro_vm_free

Spec == Init /\ [][Next]_vars

----------------------------------------------------------------------------
(* Properties. *)

Codes == {"OK", "BAD_ARG", "BAD_TYPE", "BAD_STATE", "BAD_KEY", "OUT_OF_BOUNDS", "ALLOC",
          "INTERNAL", "MODULE_EXISTS", "MODULE_NOT_FOUND", "EXPORT_NOT_FOUND"}

\* The variables have their types: handles hold values, free slots a slot or none, the
\* error is one of tiro_errc_t, and run_ready is in a callback only while it runs.
TypeOK ==
    /\ program \in Programs /\ vm \in {"alive", "freed"} /\ err \in Codes /\ crashed \in BOOLEAN
    /\ pages \in 0..MaxPages /\ first_free \in Slots \union {NULL}
    /\ free_slots \in 0..Cardinality(Slots)
    /\ \A s \in Slots : slot[s][1] = IF allocated[s] THEN "value" ELSE "next"
    /\ \A s \in Slots \ Handles : slot[s][2] \in Slots \union {NULL}
    /\ \A i \in Ids : References(heap[i]) \subseteq Ids
    /\ registry \in [Names -> Ids \union {NoObject}] /\ ToSet(ready) \subseteq Ids
    /\ frame # NoFrame => running

FreeSlots == (1..pages * PageSlots) \ Handles

\* The list of free slots that allocate_slot and free_slot thread through the pages
\* contains every slot of every page that no handle uses, each once, and is as long as
\* free_slots says: no slot is lost and none is given out twice.
FreeListExact ==
    \E list \in [1..free_slots -> FreeSlots] :
        /\ \A s \in FreeSlots : \E n \in 1..free_slots : list[n] = s
        /\ \A m, n \in 1..free_slots : list[m] = list[n] => m = n
        /\ first_free = IF free_slots = 0 THEN NULL ELSE list[1]
        /\ \A n \in 1..free_slots :
            slot[list[n]] = NextFree(IF n = free_slots THEN NULL ELSE list[n + 1])

\* What the calls have promised that an object refers to.
PromisedRefs(i) == Refs([k \in DOMAIN spec[i] |-> spec[i][k]])

\* Whatever the host can reach from its handles, from the modules, the coroutines that are
\* ready and the callback it is in, has not been collected, and holds what was last stored
\* there: through the growth of an array, the indexes a schema assigns, scripts and the
\* host writing to the same object, and the reuse of handles and objects.
ContentsKept ==
    LET roots == (UNION {Refs(<<slot[h][2]>>) : h \in Handles}) \union ToSet(ready)
                    \union (({registry[n] : n \in Names} \union {frame.coroutine, frame.callback})
                            \ {NoObject})
        promised == [i \in Ids |-> IF heap[i].type = "Buffer" THEN {} ELSE PromisedRefs(i)]
    IN  /\ \A i \in Closure(roots, promised) :
            /\ heap[i].type # "Free"
            /\ heap[i].type = "Record" => heap[heap[i].schema].type = "RecordSchema"
            /\ View(heap, heap[i]) = spec[i]
        /\ frame # NoFrame => heap[frame.callback].type = "NativeObject"

\* An array never holds more elements than its storage has slots, and a record has one value
\* for every key of its schema: nothing is read or written outside of an object.
StorageFits ==
    \A i \in Ids :
        /\ heap[i].type = "Array" => Len(heap[i].values) <= heap[i].capacity
        /\ heap[i].type = "Record" => Len(heap[i].values) = schema_size(heap[heap[i].schema])

\* The cleanup function of a completion callback and the finalizer of a native object run
\* exactly once, the callback at most once and before its cleanup: when the callback was
\* invoked, replaced, never due, set on a coroutine that had completed, set from within a
\* callback, when set_callback failed, and when the machine was freed first.
CleanedOnce ==
    /\ \A u \in Users :
        /\ users[u].called <= 1
        /\ users[u].cleaned <= IF users[u].cleanup THEN 1 ELSE 0
        /\ vm = "freed" /\ users[u].cleanup => users[u].cleaned = 1
    /\ frame # NoFrame => users[heap[frame.callback].userdata].cleaned = 0

\* The kind the host is told of a value (tiro_value_kind) and the type object a script gets
\* for it (type_of) name the same type, as tiro_kind_type maps one to the other.
KindsMatchTypes ==
    \A h \in Handles :
        LET kind == tiro_value_kind(heap, slot[h][2]) IN
        kind # "internal" => get_type[kind] = type_of(heap, slot[h][2])

\* What the host can reach keeps its contents, its storage and its kind through collections,
\* growth and the reuse of slots (api/objects.cpp, vm/objects).
ObjectsKept == TypeOK /\ ContentsKept /\ StorageFits /\ KindsMatchTypes
====

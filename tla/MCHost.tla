---- MODULE MCHost ----
EXTENDS Host

HostOf(calls, given, held, objects, length, users_left) ==
    [calls |-> calls, given |-> given, held |-> held, objects |-> objects, length |-> length,
     users |-> users_left]

NoValues == <<Null, Null>>
Keys(names) == Array_of([i \in DOMAIN names |-> Str(names[i])])
TwoKeys == RecordSchema_make(<<"b", "a">>)

\* What the hosts are for: slots and their reuse; errors that are not looked at; arrays that
\* grow; containers in containers; records by key, from schemas with one, two and equal keys
\* and with a key that is no string; bytes; types and methods; modules; finalizers; callbacks
\* that are replaced, set from a callback, and of coroutines that are given up.
MCPrograms ==
    {HostOf({"globals", "handles", "tuples"}, <<>>, <<>>, 1, 1, 0),
     HostOf({"handles", "numbers", "tuples", "results", "errors"}, <<>>, NoValues, 1, 1, 0),
     HostOf({"handles", "numbers", "arrays", "scripts"}, <<>>, NoValues, 1, 2, 0),
     HostOf({"handles", "arrays", "tuples"}, <<>>, NoValues, 2, 1, 0),
     HostOf({"handles", "strings", "records"}, <<Keys(<<"a">>)>>, <<Ref(1), Null>>, 3, 0, 0),
     HostOf({"strings", "records"}, <<TwoKeys, Record_make(1, TwoKeys)>>, <<Ref(2), Null>>, 3, 0, 0),
     HostOf({"numbers", "records", "scripts"}, <<TwoKeys, Record_make(1, TwoKeys)>>,
            <<Ref(2), Null>>, 2, 0, 0),
     HostOf({"records"}, <<Keys(<<"a", "a">>)>>, <<Ref(1), Null>>, 2, 0, 0),
     HostOf({"arrays", "records"}, <<Array_of(<<Null>>)>>, <<Ref(1), Null>>, 2, 0, 0),
     HostOf({"handles", "numbers", "buffers", "scripts"}, <<>>, NoValues, 2, 1, 0),
     HostOf({"handles", "tuples", "types", "scripts"}, <<>>, NoValues, 1, 1, 0),
     HostOf({"handles", "strings", "modules"}, <<>>, NoValues, 1, 2, 0),
     HostOf({"handles", "modules", "scripts"}, <<>>, NoValues, 2, 1, 0),
     HostOf({"handles", "natives", "tuples"}, <<>>, NoValues, 2, 1, 2),
     HostOf({"handles", "coroutines"}, <<Coroutine_make(Null)>>, <<Ref(1), Null>>, 3, 0, 3),
     HostOf({"handles", "coroutines", "functions"}, <<>>, NoValues, 2, 0, 1)}
====

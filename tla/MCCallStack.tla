---------------------------- MODULE MCCallStack ----------------------------
(* Model checking the call stack: the functions that programs may call. *)
EXTENDS CallStack

\* A function of every kind, a value that is none, and a bound method.
SomeFunctions ==
    {[kind |-> "Code", params |-> 0, bound |-> FALSE],
     [kind |-> "Native", params |-> 1, bound |-> TRUE],
     [kind |-> "Catch", params |-> 1, bound |-> FALSE],
     [kind |-> "None", params |-> 1, bound |-> FALSE]}
=============================================================================

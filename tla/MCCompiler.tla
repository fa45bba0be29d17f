----------------------------- MODULE MCCompiler -----------------------------
(* Assignments to x from y and to y from z, for the model checker. *)
EXTENDS Compiler

MCPairs == {<<"x", "y">>, <<"y", "z">>}

=============================================================================

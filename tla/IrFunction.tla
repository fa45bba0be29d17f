----------------------------- MODULE IrFunction -----------------------------
(***************************************************************************)
(* The intermediate representation of one function: a control flow graph   *)
(* of basic blocks whose instructions are in SSA form (compiler/ir).       *)
(* Instructions and blocks are numbered in the order they are made; an     *)
(* instruction is a record of its type, the instructions it uses and the   *)
(* symbol it is about.  The field "src" is not part of the program: it     *)
(* says which symbol the source code uses here, <<"use", s>>, or how the   *)
(* assigned value comes about, and is what the execution is compared with. *)
(***************************************************************************)
EXTENDS Integers, Sequences, FiniteSets, SequencesExt

entry == 1

body == 2

exit == 3

\* The types of values an instruction can hold: reads of a location, named by
\* what is read, constants, groups of values with the access to a member, and
\* the others.
LValueTypes == {"param", "closure", "module", "field", "tuple_field", "index"}

ConstantTypes == {"const"}

AggregateTypes == {"aggregate", "member"}

ValueTypes ==
    LValueTypes \union ConstantTypes \union AggregateTypes
      \union {"write", "alias", "phi", "observe", "publish", "outer_env", "binary", "unary", "call",
              "method_call", "make_env", "make_closure", "make_iterator", "record", "container",
              "format", "error", "nop"}

\* The locations that can be read without any effect.
PureLocations == {"param", "module", "closure"}

\* The values that may be left out when nothing uses them.
Removable == PureLocations \union {"alias", "publish", "phi", "observe", "const", "outer_env",
                                   "member", "make_env", "make_closure", "record", "container",
                                   "format", "nop"}

Value(t, ops, sym, src) == [t |-> t, ops |-> ops, sym |-> sym, src |-> src]

TerminatorTypes == {"none", "entry", "exit", "jump", "branch", "return", "rethrow",
                    "assert_fail", "never"}

\* A terminator with the instructions it uses and its targets in the order
\* of visit_targets.
Terminator(t, ops, targets, src) == [t |-> t, ops |-> ops, targets |-> targets, src |-> src]

\* The instructions that a value or a terminator refers to.
visit_insts(x) == ToSet(x.ops)

NoTerminator == Terminator("none", <<>>, <<>>, <<>>)

Block(handler) ==
    [insts |-> <<>>, preds |-> <<>>, term |-> NoTerminator, sealed |-> FALSE,
     handler |-> handler, is_handler |-> FALSE]

\* The function as FunctionIRGen starts with it: the entry block leads to the
\* body, the exit block is the target of every return.
Function ==
    [insts |-> <<>>,
     blocks |-> <<[Block(0) EXCEPT !.sealed = TRUE,
                                   !.term = Terminator("entry", <<>>, <<body>>, <<>>)],
                  [Block(0) EXCEPT !.sealed = TRUE, !.preds = <<entry>>],
                  [Block(0) EXCEPT !.term = Terminator("exit", <<>>, <<>>, <<>>)]>>,
     variables |-> <<>>, values |-> <<>>, incomplete |-> <<>>, regions |-> <<>>, handler |-> 0,
     env |-> 0, failed |-> {}]

targets(f, b) == f.blocks[b].term.targets

is_phi_define(f, i) == f.insts[i].t = "phi"

phi_count(f, b) ==
    LET s == f.blocks[b].insts IN
    Cardinality({k \in DOMAIN s : \A j \in 1..k : is_phi_define(f, s[j])})

\* The instruction keeps its place among the values of the block but is no
\* longer a phi: it moves behind the remaining phis.
remove_phi(f, b, i, value) ==
    LET s == f.blocks[b].insts
        n == phi_count(f, b)
        rest == SelectSeq(SubSeq(s, 1, n), LAMBDA j : j /= i)
    IN  [f EXCEPT !.insts[i] = value,
                  !.blocks[b].insts = rest \o <<i>> \o SubSeq(s, n + 1, Len(s))]

replace_predecessor(f, b, old, new) ==
    LET p == f.blocks[b].preds
        at == CHOOSE k \in DOMAIN p : p[k] = old /\ \A j \in 1..(k - 1) : p[j] /= old
    IN  IF old \in ToSet(p) THEN [f EXCEPT !.blocks[b].preds[at] = new] ELSE f

\* Blocks in the order of a depth first search from the entry.  A block is
\* marked when it is pushed, so the order is that of the stack, not of the
\* first visit along each edge.
dfs_preorder(f) ==
    LET visit(st, ts) ==
            LET new == SelectSeq(Reverse(ts), LAMBDA t : t \notin st.seen)
            IN  [st EXCEPT !.seen = @ \union ToSet(ts), !.stack = @ \o new]
        walk[st \in [seen : SUBSET Nat, stack : Seq(Nat), order : Seq(Nat)]] ==
            IF st.stack = <<>> THEN st.order
            ELSE LET b == Last(st.stack)
                 IN  walk[visit([st EXCEPT !.stack = Front(@), !.order = Append(@, b)],
                                targets(f, b))]
    IN  walk[[seen |-> {entry}, stack |-> <<entry>>, order |-> <<>>]]

\* A block comes after everything it pushed.
dfs_postorder(f) ==
    LET visit(st, ts) ==
            LET new == SelectSeq(Reverse(ts), LAMBDA t : t \notin st.seen)
            IN  [st EXCEPT !.seen = @ \union ToSet(ts),
                           !.stack = @ \o [k \in DOMAIN new |-> <<new[k], TRUE>>]]
        walk[st \in [seen : SUBSET Nat, stack : Seq(Nat \X BOOLEAN), order : Seq(Nat)]] ==
            IF st.stack = <<>> THEN st.order
            ELSE LET top == Last(st.stack) IN
                 IF top[2]
                 THEN walk[visit([st EXCEPT !.stack[Len(st.stack)] = <<top[1], FALSE>>],
                                 targets(f, top[1]))]
                 ELSE walk[[st EXCEPT !.stack = Front(@), !.order = Append(@, top[1])]]
    IN  walk[[seen |-> {entry}, stack |-> <<<<entry, TRUE>>>>, order |-> <<>>]]

Reachable(f) == ToSet(dfs_preorder(f))

=============================================================================

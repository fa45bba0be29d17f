------------------------------- MODULE IrGen --------------------------------
(***************************************************************************)
(* The construction of the intermediate representation (compiler/ir_gen):  *)
(* FunctionIRGen keeps the function under construction, the value of every *)
(* symbol in every block, the phi functions of blocks that may still get   *)
(* predecessors and the regions (loops and scopes) that are open.  Every   *)
(* operator takes the generator's state f and returns the next one.  An    *)
(* assertion of the source that fails is recorded in f.failed.             *)
(***************************************************************************)
EXTENDS IrFunction, TLC

CONSTANTS
    Symbols,    \* the variables of the function, all of them parameters
    Captured    \* those among them a closure captures

ASSUME SymbolsAssumption == Captured \subseteq Symbols

Assert_(f, ok, what) == IF ok THEN f ELSE [f EXCEPT !.failed = @ \union {what}]

NewBlock(f) == Len(f.blocks) + 1

NewInst(f) == Len(f.insts) + 1

\* A new block is protected by the handler that is active now.
make_block(f) == [f EXCEPT !.blocks = Append(@, Block(f.handler))]

make_blocks(f, n) == [f EXCEPT !.blocks = @ \o [k \in 1..n |-> Block(f.handler)]]

\* Phis and observers come first in their block, everything else last.
define_new(f, value, b) ==
    [Assert_(Assert_(f, f.blocks[b].term.t = "none" \/ value.t \in {"phi", "observe", "error"}, "filled"),
             IF f.blocks[b].is_handler THEN value.t /= "phi" ELSE value.t /= "observe", "handler_phi")
        EXCEPT !.insts = Append(@, value),
               !.blocks[b].insts = IF value.t \in {"phi", "observe"}
                                   THEN InsertAt(@, phi_count(f, b) + 1, NewInst(f))
                                   ELSE Append(@, NewInst(f))]

write_variable(f, s, i, b) == [f EXCEPT !.variables = (<<s, b>> :> i) @@ @]

preds(f, b) == f.blocks[b].preds

\* The state and the value an expression leaves, and the value remembered for the symbol.
State(f, v) == [f |-> f, v |-> v]
Remember(r, s, b) == State(write_variable(r.f, s, r.v, b), r.v)

\* What stands for a symbol the block does not assign.
UnknownType(f, b) ==
    CASE b = body -> "error" [] b /= body /\ f.blocks[b].is_handler -> "observe" [] OTHER -> "phi"

\* A phi with at most one operand other than itself becomes an alias of it;
\* with none at all the variable was never initialized.
set_operands(r, s, i, b) ==
    LET others == ToSet(r.vs) \ {i}
    IN  CASE Cardinality(others) = 1 ->
                remove_phi(r.f, b, i, Value("alias", <<CHOOSE v \in others : TRUE>>, s, <<>>))
          [] others = {} -> Assert_(r.f, FALSE, "never_initialized")
          [] OTHER -> [r.f EXCEPT !.insts[i].ops = r.vs]

RECURSIVE read_variable(_, _, _), read_unknown(_, _, _, _), add_phi_operands(_, _, _, _), ReadAll(_, _, _, _),
          ReadRest(_, _, _, _)

\* The value of the symbol at the end of the block as far as it is known: the
\* value assigned last, the observed one in a handler, an empty phi where
\* predecessors may be missing, and otherwise what the predecessors hold.
read_variable(f, s, b) ==
    IF <<s, b>> \in DOMAIN f.variables THEN State(f, f.variables[<<s, b>>])
    ELSE IF f.blocks[b].sealed /\ Len(preds(f, b)) = 1 /\ b /= body /\ ~f.blocks[b].is_handler
    THEN Remember(read_variable(f, s, preds(f, b)[1]), s, b)
    ELSE Remember(State(read_unknown(define_new(f, Value(UnknownType(f, b), <<>>, s, <<>>), b), s, NewInst(f), b),
                         NewInst(f)), s, b)

\* A new value i stands for the symbol; a phi gets its operands now or when the block is sealed.
read_unknown(f, s, i, b) ==
    CASE f.insts[i].t /= "phi" -> f
      [] f.insts[i].t = "phi" /\ ~f.blocks[b].sealed -> [f EXCEPT !.incomplete = Append(@, <<b, s, i>>)]
      [] OTHER -> add_phi_operands(write_variable(Assert_(f, preds(f, b) /= <<>>, "no_predecessor"), s, i, b), s, i, b)

ReadAll(f, s, ps, vs) ==
    IF ps = <<>> THEN [f |-> f, vs |-> vs] ELSE ReadRest(read_variable(f, s, Head(ps)), s, Tail(ps), vs)

ReadRest(r, s, ps, vs) == ReadAll(r.f, s, ps, Append(vs, r.v))

\* Completes a phi with the values of the predecessors.
add_phi_operands(f, s, i, b) == set_operands(ReadAll(f, s, preds(f, b), <<>>), s, i, b)

\* The incomplete phis <<block, symbol, value>> one after the other.
RECURSIVE Complete(_, _)
Complete(f, phis) ==
    IF phis = <<>> THEN f
    ELSE Complete(add_phi_operands(f, Head(phis)[2], Head(phis)[3], Head(phis)[1]), Tail(phis))

\* All predecessors are known now.
seal(f, b) ==
    [Complete(Assert_(f, ~f.blocks[b].sealed, "sealed_twice"), SelectSeq(f.incomplete, LAMBDA p : p[1] = b))
        EXCEPT !.incomplete = SelectSeq(@, LAMBDA p : p[1] /= b), !.blocks[b].sealed = TRUE]

\* The block ends and becomes a predecessor of its targets.
end(f, term, b) ==
    FoldLeft(LAMBDA g, t : [g EXCEPT !.blocks[t].preds = Append(@, b)],
             [Assert_(Assert_(f, f.blocks[b].term.t = "none", "terminated_twice"),
                      \A t \in ToSet(term.targets) : ~f.blocks[t].sealed, "target_sealed")
                EXCEPT !.blocks[b].term = term],
             term.targets)

Jump(f, b, target) == end(f, Terminator("jump", <<>>, <<target>>, <<>>), b)

Branch(f, b, cond, src, target, fallthrough) ==
    end(f, Terminator("branch", <<cond>>, <<target, fallthrough>>, src), b)

\* The handler is sealed before the entry block becomes its predecessor.
make_handler_block(f) ==
    LET h == NewBlock(f)
    IN  [seal(make_block(f), h)
            EXCEPT !.blocks[h].is_handler = TRUE, !.blocks[h].preds = <<entry>>,
                   !.blocks[entry].term.targets = Append(@, h)]

\* Continues in a new block, which is protected by the current handler.
advance(f, b) == LET n == NewBlock(f) IN seal(Jump(make_block(f), b, n), n)

(***************************************************************************)
(* Expressions                                                             *)
(***************************************************************************)

\* A symbol is read through the closure environment when it is captured.
compile_reference(f, s, b) ==
    IF s \in Captured
    THEN [f |-> define_new(f, Value("closure", <<f.env>>, s, <<>>), b), v |-> NewInst(f)]
    ELSE read_variable(f, s, b)

\* The symbol has a new value.  The assignment is published for the handlers.
compile_assign(f, s, i, b, src) ==
    IF s \in Captured THEN define_new(f, Value("write", <<f.env, i>>, s, src), b)
    ELSE define_new(write_variable(f, s, i, b), Value("publish", <<i>>, s, src), b)

\* A function called with some values; it may throw.
compile_call(f, args, b, src) == define_new(f, Value("call", args, "", src), b)

\* A binary operation is computed once per block for the same operands; those
\* of a commutative operation are put in order first.
compile_binary(f, l, r, b) ==
    LET key == <<IF l < r THEN l ELSE r, IF l < r THEN r ELSE l, b>>
        i == NewInst(f)
    IN  IF key \in DOMAIN f.values THEN [f |-> f, v |-> f.values[key]]
        ELSE [f |-> [define_new(f, Value("binary", <<key[1], key[2]>>, "", <<>>), b)
                        EXCEPT !.values = (key :> i) @@ @],
              v |-> i]

\* The value of both ways into a block, left out when they agree.
Merge(f, vs, b) ==
    IF \A k \in DOMAIN vs : vs[k] = vs[1] THEN [f |-> f, v |-> vs[1]]
    ELSE [f |-> define_new(f, Value("phi", vs, "", <<>>), b), v |-> NewInst(f)]

\* The value decides whether the next block runs or the one behind it.
BranchOn(lhs, s, b) ==
    seal(Branch(make_block(make_block(lhs.f)), b, lhs.v, <<"use", s>>, NewBlock(lhs.f) + 1, NewBlock(lhs.f)),
         NewBlock(lhs.f))

\* Both ways meet in the block behind n.
Join(f, vs, n) == Merge(seal(Jump(f, n, n + 1), n + 1), vs, n + 1)

AssignIn(r, s, b) == [f |-> compile_assign(r.f, s, r.v, b, <<"acc">>), b |-> b]

\* Block n calls a function with the value just read; s gets its result or the value tested.
CallUnless(tested, arg, more, s, read, n) ==
    AssignIn(Join(compile_call(arg.f, <<arg.v>> \o more, n, <<"use", read>>), <<tested.v, NewInst(arg.f)>>, n),
             s, n + 1)

ShortCircuitRhs(lhs, s, t, b) ==
    CallUnless(lhs, compile_reference(BranchOn(lhs, s, b), t, NewBlock(lhs.f)), <<>>, s, t, NewBlock(lhs.f))

\* s = s && call(t)
compile_short_circuit_op(f, s, t, b) == ShortCircuitRhs(compile_reference(f, s, b), s, t, b)

PathRest(inst, s, t, b) ==
    CallUnless(inst, compile_reference(BranchOn(inst, t, b), s, NewBlock(inst.f)), <<inst.v>>, s, s, NewBlock(inst.f))

\* s = t?.method(s): the chain is left for its end when t is null.
compile_path(f, s, t, b) == PathRest(compile_reference(f, t, b), s, t, b)

\* The failing branch of an assertion.
AssertFail(f, fail_block) ==
    end(define_new(f, Value("const", <<>>, "", <<>>), fail_block),
        Terminator("assert_fail", <<NewInst(f)>>, <<exit>>, <<>>), fail_block)

AssertBranches(cond, s, b, ok_block) ==
    seal(seal(Branch(make_block(make_block(cond.f)), b, cond.v, <<"use", s>>, ok_block, ok_block + 1),
              ok_block + 1), ok_block)

AssertOn(cond, s, b) ==
    [f |-> AssertFail(AssertBranches(cond, s, b, NewBlock(cond.f)), NewBlock(cond.f) + 1), b |-> NewBlock(cond.f)]

\* assert(s): the failing branch ends in an exception.
visit_assert_stmt(f, s, b) == AssertOn(compile_reference(f, s, b), s, b)

(***************************************************************************)
(* Scopes, deferred expressions and loops                                  *)
(***************************************************************************)

enter_scope(f) ==
    [f EXCEPT !.regions = Append(@, [t |-> "scope", original |-> f.handler, deferred |-> <<>>])]

enter_loop(f, jump_break, jump_continue) ==
    [f EXCEPT !.regions = Append(@, [t |-> "loop", jump_break |-> jump_break,
                                     jump_continue |-> jump_continue])]

leave_region(f) == [f EXCEPT !.regions = Front(@)]

\* A function is called with the value of s.
CallWith(arg, s, b) == compile_call(arg.f, <<arg.v>>, b, <<"use", s>>)

\* The deferred expression call(s), in the current block.
compile_deferred(f, s, b) == CallWith(compile_reference(f, s, b), s, b)

\* Block h runs the deferred expression when an exception passes.
DeferHandler(f, s, h) ==
    end(compile_deferred(make_handler_block(f), s, h), Terminator("rethrow", <<>>, <<exit>>, <<>>), h)

\* Continues in a new block with the state f.
AdvanceTo(f, b) == [f |-> advance(f, b), b |-> NewBlock(f)]

\* defer call(s): compiled once for the way with an exception, and remembered
\* for the normal one.
visit_defer_stmt(f, s, b) ==
    AdvanceTo([DeferHandler(f, s, NewBlock(f))
                 EXCEPT !.regions[Len(f.regions)].deferred = Append(@, <<s, f.handler>>),
                        !.handler = NewBlock(f)], b)

\* Runs one deferred expression <<symbol, handler>> under that handler.
RunDeferred(p, item) ==
    LET at == AdvanceTo([p.f EXCEPT !.handler = item[2]], p.b)
    IN  [at EXCEPT !.f = compile_deferred(@, item[1], at.b)]

\* Runs the deferred expressions of a scope, the last one first, each under
\* the handler that was active where it was deferred.
compile_scope_exit(f, b, k) ==
    [FoldLeft(RunDeferred, [f |-> f, b |-> b], Reverse(f.regions[k].deferred))
        EXCEPT !.f.handler = f.regions[k].original]

\* The innermost loop, 0 if there is none.
current_loop(f) ==
    LET loops == {k \in DOMAIN f.regions : f.regions[k].t = "loop"}
    IN  IF loops = {} THEN 0 ELSE CHOOSE k \in loops : \A j \in loops : j <= k

ExitRegion(p, k) == IF p.f.regions[k].t = "scope" THEN compile_scope_exit(p.f, p.b, k) ELSE p

\* Leaves all scopes above the region, the innermost first.
compile_scope_exit_until(f, b, target) ==
    FoldLeft(ExitRegion, [f |-> f, b |-> b], Reverse([k \in 1..(Len(f.regions) - target) |-> target + k]))

\* A parameter is read into the body block and assigned to its symbol.
compile_param(f, s) ==
    compile_assign(define_new(f, Value("param", <<>>, s, <<"acc">>), body), s, NewInst(f), body, <<"acc">>)

\* The environment for the captured parameters is made first.
compile_params ==
    enter_scope(FoldLeft(compile_param,
                         IF Captured = {} THEN Function
                         ELSE [define_new(Function, Value("make_env", <<>>, "", <<>>), body) EXCEPT !.env = 1],
                         SetToSeq(Symbols)))
=============================================================================

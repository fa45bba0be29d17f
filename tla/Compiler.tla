------------------------------ MODULE Compiler ------------------------------
(***************************************************************************)
(* One function on its way through the compiler.  Its statements are       *)
(* chosen one after the other and translated as the visitors of            *)
(* compile_stmt and compile_expr do; then the passes run, registers are    *)
(* assigned, and the resulting code is executed with arbitrary outcomes of *)
(* branches and exceptions.  Beside the registers, the execution keeps the *)
(* values that the symbols have according to the source code: every use of *)
(* a symbol must find that value in the register the compiler chose.       *)
(***************************************************************************)
EXTENDS IrGen, Registers

CONSTANTS
    Pairs,      \* the symbols s and t in assignments to s from t, as pairs <<s, t>>
    Tested,     \* the symbols in conditions and in the other statements
    Loops,      \* the kinds of loops in the functions
    Deferrable, \* the symbols that deferred expressions use
    MaxStmts,   \* simple statements in a function
    MaxOpen,    \* compound statements in a function
    MaxDefers,  \* deferred expressions in a function
    MaxSteps    \* blocks that an execution runs through

ASSUME CompilerAssumption ==
    /\ Loops \subseteq {"while", "for", "endless", "for_each"}
    /\ Pairs \subseteq Symbols \X Symbols
    /\ Tested \subseteq Symbols
    /\ Deferrable \subseteq Symbols
    /\ {MaxStmts, MaxOpen, MaxDefers, MaxSteps} \subseteq Nat

\* Copies in the order of the algorithm have the effect of copying all at
\* once, for every assignment of sources to the destinations 1 to 3.
ASSUME CopiesAreParallel ==
    \A D \in SUBSET {1, 2, 3} : \A src \in [D -> 1..4] :
        LET dests == SetToSeq(D)
            out == sequentialize([k \in DOMAIN dests |-> <<src[dests[k]], dests[k]>>], 9)
        IN  \A r \in 1..4 : Copied([q \in 1..9 |-> q], out)[r] = IF r \in D THEN src[r] ELSE r

VARIABLES
    phase,  \* "gen", "connect", "clean", "split", "alloc", "run" or "done"
    f,      \* the function
    cur,    \* the current block, 0 where the code is unreachable
    open,   \* the compound statements that are open, the innermost last
    count,  \* statements, compound statements and defers made so far; and the
            \* history cut: code went on in a block that nothing leads to
    script, \* the instructions of every block before any was removed
    code,   \* registers and phi copies
    run     \* the execution

vars == <<phase, f, cur, open, count, script, code, run>>

Init ==
    /\ phase = "gen"
    /\ f = compile_params
    /\ cur = body
    /\ open = <<>>
    /\ count = [stmts |-> 0, open |-> 0, defers |-> 0, cut |-> FALSE]
    /\ script = <<>>
    /\ code = <<>>
    /\ run = <<>>

-----------------------------------------------------------------------------
\* Statements.  None is compiled where the code is unreachable, or after an
\* assertion has failed.

Compiling == phase = "gen" /\ f.failed = {}
Generating == Compiling /\ cur /= 0

Simple == Generating /\ count.stmts < MaxStmts /\ count' = [count EXCEPT !.stmts = @ + 1]

\* Continues with the next state of the generator and the block it is in.
Go(r) == f' = r.f /\ cur' = r.b /\ UNCHANGED <<phase, open, script, code, run>>

\* s = call(t)
AssignCall(s, t) ==
    /\ Simple
    /\ \E arg \in {compile_reference(f, t, cur)} :
          Go(AssignIn(State(CallWith(arg, t, cur), NewInst(arg.f)), s, cur))

\* s = s + t, where the source names the operands in either order
AssignBinary(s, t) ==
    /\ Simple
    /\ \E l \in {compile_reference(f, s, cur)} : \E r \in {compile_reference(l.f, t, cur)} :
       \E v \in {compile_binary(r.f, l.v, r.v, cur)} :
          Go([f |-> compile_assign(v.f, s, v.v, cur, <<"sum", t>>), b |-> cur])

\* const tmp = s; s = t; t = tmp
Swap(s, t) ==
    /\ Simple
    /\ s /= t
    /\ {s, t} \intersect Captured = {}
    /\ \E l \in {compile_reference(f, s, cur)} : \E r \in {compile_reference(l.f, t, cur)} :
          Go([f |-> compile_assign(compile_assign(r.f, s, r.v, cur, <<"swap", t>>), t, l.v, cur, <<>>),
              b |-> cur])

ShortCircuit(s, t) == Simple /\ Go(compile_short_circuit_op(f, s, t, cur))

Path(s, t) == Simple /\ s /= t /\ Go(compile_path(f, s, t, cur))

AssertStmt(s) == Simple /\ Go(visit_assert_stmt(f, s, cur))

Defer(s) ==
    /\ Generating
    /\ count.defers < MaxDefers
    /\ count' = [count EXCEPT !.defers = @ + 1]
    /\ Go(visit_defer_stmt(f, s, cur))

\* return s, break and continue leave the scopes in between; what follows in
\* the same block is unreachable.
Return(s) ==
    /\ Simple
    /\ \E v \in {compile_reference(f, s, cur)} : \E r \in {compile_scope_exit_until(v.f, cur, 0)} :
          Go([f |-> end(r.f, Terminator("return", <<v.v>>, <<exit>>, <<"use", s>>), r.b), b |-> 0])

Leave(how) ==
    /\ Simple
    /\ current_loop(f) /= 0
    /\ \E loop \in {f.regions[current_loop(f)]}, r \in {compile_scope_exit_until(f, cur, current_loop(f))} :
          Go([f |-> Jump(r.f, r.b, IF how = "break" THEN loop.jump_break ELSE loop.jump_continue), b |-> 0])

-----------------------------------------------------------------------------
\* Compound statements.

Compound == Generating /\ count.open < MaxOpen /\ count' = [count EXCEPT !.open = @ + 1]

Enter(g, b, frame) ==
    /\ f' = enter_scope(g)
    /\ cur' = b
    /\ open' = Append(open, frame)
    /\ UNCHANGED <<phase, script, code, run>>

\* if (s) { ... } with or without an else branch
BeginIf(s, else) ==
    /\ Compound
    /\ \E cond \in {compile_reference(f, s, cur)} : \E b \in {NewBlock(cond.f)} :
       \E r \in {seal(Branch(make_blocks(cond.f, IF else THEN 3 ELSE 2), cur, cond.v, <<"use", s>>, b, b + 1), b)} :
           Enter(IF else THEN seal(r, b + 1) ELSE r, b,
                 IF else THEN [t |-> "then", else |-> b + 1, end |-> b + 2]
                 ELSE [t |-> "if", end |-> b + 1])

Iterator(c, s) == define_new(c.f, Value("make_iterator", <<c.v>>, "", <<"use", s>>), cur)

\* The next item of the iterator and whether there is one.
Advanced(g, iterator, head) ==
    define_new(define_new(g, Value("aggregate", <<iterator>>, "", <<>>), head),
               Value("member", <<NewInst(g)>>, "", <<>>), head)

Condition(c, s, head, to) == Branch(c.f, head, c.v, <<"use", s>>, to, head + 1)

\* The head of a loop decides whether the body behind it runs again.
LoopHead(kind, g, s, iterator, head, to) ==
    CASE kind = "endless" -> Jump(g, head, head + 1)
      [] kind = "for_each" ->
            Branch(Advanced(g, iterator, head), head, NewInst(g) + 1, <<>>, to, head + 1)
      [] OTHER -> Condition(compile_reference(g, s, head), s, head, to)

\* The item is assigned at the start of the body.
LoopItem(g, s, next_item, b) ==
    compile_assign(define_new(g, Value("member", <<next_item>>, "", <<>>), b), s, NewInst(g), b, <<"acc">>)

\* The blocks of a loop in the order they are made; the condition reads s.
BeginLoop(kind, s) ==
    /\ Compound
    /\ \E c \in {compile_reference(f, s, cur)}, n \in {IF kind \in {"for", "endless"} THEN 4 ELSE 3} :
       \E init \in {IF kind = "for_each" THEN Iterator(c, s) ELSE f} :
       \E head \in {NewBlock(init)} :
       \E g \in {Jump(make_blocks(init, n), cur, head)} :
       \E loop \in {enter_loop(seal(LoopHead(kind, g, s, NewInst(c.f), head, head + n - 1), head + 1),
                               head + n - 1, IF n = 4 THEN head + 2 ELSE head)} :
          Enter(IF kind = "for_each" THEN LoopItem(loop, s, NewInst(g), head + 1) ELSE loop, head + 1,
                [t |-> kind, head |-> head, step |-> head + 2, end |-> head + n - 1, sym |-> s])

LeaveTo(r, to) == Jump(leave_region(r.f), r.b, to)

\* The scope of a block is left, and the block continues at the target.
LeaveScope(to) ==
    IF cur = 0 THEN leave_region(f) ELSE LeaveTo(compile_scope_exit(f, cur, Len(f.regions)), to)

Close(g, b) ==
    /\ Compiling
    /\ f' = g
    /\ cur' = b
    /\ open' = Front(open)
    /\ count' = [count EXCEPT !.cut = @ \/ (b /= 0 /\ preds(g, b) = <<>>)]
    /\ UNCHANGED <<phase, script, code, run>>

EndIf ==
    /\ open /= <<>>
    /\ LET frame == Last(open) IN
       /\ frame.t = "if"
       /\ Close(seal(LeaveScope(frame.end), frame.end), frame.end)

\* The else branch starts where the condition was false.
EndThen ==
    /\ open /= <<>>
    /\ Compiling
    /\ LET frame == Last(open) IN
       /\ frame.t = "then"
       /\ f' = enter_scope(LeaveScope(frame.end))
       /\ cur' = frame.else
       /\ open' = Append(Front(open), [t |-> "else", end |-> frame.end, left |-> cur = 0])
       /\ UNCHANGED <<phase, count, script, code, run>>

\* The code behind is unreachable if neither branch arrives there.  But the
\* compiler notices only if both can be used as a value, as one that ends with
\* the statement that leaves can; not if a dead loop, for example, follows it.
EndElse ==
    /\ open /= <<>>
    /\ LET frame == Last(open) IN
       /\ frame.t = "else"
       /\ \E b \in {0, frame.end} :
            /\ b = 0 => frame.left /\ cur = 0
            /\ Close(seal(LeaveScope(frame.end), frame.end), b)

EndWhile ==
    /\ open /= <<>>
    /\ LET frame == Last(open) IN
       /\ frame.t = "while"
       /\ Close(seal(seal(leave_region(LeaveScope(frame.head)), frame.end), frame.head), frame.end)

EndForEach ==
    /\ open /= <<>>
    /\ LET frame == Last(open) IN
       /\ frame.t = "for_each"
       /\ Close(seal(seal(leave_region(LeaveScope(frame.head)), frame.head), frame.end), frame.end)

StepCall(arg, s, b) == AssignIn(State(CallWith(arg, s, b), NewInst(arg.f)), s, b).f

\* The step is s = call(s); no code is made for it when nothing leads there.
LoopStep(g, s, b, head) ==
    IF preds(g, b) = <<>> THEN end(g, Terminator("never", <<>>, <<exit>>, <<>>), b)
    ELSE Jump(StepCall(compile_reference(g, s, b), s, b), b, head)

EndFor ==
    /\ open /= <<>>
    /\ LET frame == Last(open) IN
       /\ frame.t \in {"for", "endless"}
       /\ Close(seal(seal(LoopStep(seal(leave_region(LeaveScope(frame.step)), frame.step),
                                   frame.sym, frame.step, frame.head), frame.head), frame.end), frame.end)

ReturnNull(r) ==
    end(define_new(r.f, Value("const", <<>>, "", <<>>), r.b),
        Terminator("return", <<NewInst(r.f)>>, <<exit>>, <<>>), r.b)

\* The end of the function returns null.
EndFunction ==
    /\ Compiling
    /\ open = <<>>
    /\ \E h \in {IF cur = 0 THEN f ELSE ReturnNull(compile_scope_exit(f, cur, 1))} :
           /\ f' = seal(leave_region(h), exit)
           /\ script' = [b \in DOMAIN h.blocks |-> h.blocks[b].insts]
    /\ phase' = "connect"
    /\ UNCHANGED <<cur, open, count, code, run>>

-----------------------------------------------------------------------------
\* Passes.

Pass(from, to, g) ==
    /\ phase = from
    /\ phase' = to
    /\ f' = g
    /\ UNCHANGED <<cur, open, count, script, code, run>>

Connect ==
    \E order \in SetToSeqs(Handlers(f)) :
        Pass("connect", "clean", connect_assignment_observers(f, order))

Clean == Pass("clean", "split", eliminate_dead_code(f))

Split == Pass("split", "alloc", split_critical_edges(f))

-----------------------------------------------------------------------------
\* Code: for every block the instructions with their registers, the copies at
\* its end, the terminator and the handler.  An instruction that was removed
\* before stays as a trace of what the source does there.

Null == 0

EmitInst(c, b, i) ==
    LET v == f.insts[i]
        reg(j) == IF normalize(f, j) \in DOMAIN c.loc THEN storage_location(f, c.loc, j) ELSE None
    IN  [t |-> v.t, sym |-> v.sym, src |-> v.src, kept |-> i \in ToSet(f.blocks[b].insts),
         to |-> reg(i), ops |-> [k \in DOMAIN v.ops |-> reg(v.ops[k])]]

EmitBlock(c, b) ==
    LET seq == IF b \in DOMAIN script THEN script[b] ELSE <<>>
        term == f.blocks[b].term
    IN  [insts |-> [k \in DOMAIN seq |-> EmitInst(c, b, seq[k])], copies |-> c.copies[b],
         term |-> [term EXCEPT !.ops = [k \in DOMAIN @ |-> storage_location(f, c.loc, @[k])]],
         handler |-> f.blocks[b].handler, is_handler |-> f.blocks[b].is_handler]

Back(from, to, c) ==
    /\ phase = from
    /\ phase' = to
    /\ code' = c
    /\ UNCHANGED <<f, cur, open, count, script, run>>

AnalyzeFunction == Back("alloc", "color", Analyze(f))

Allocate == Back("color", "emit", allocate_locations(f, code))

\* The function is compiled; only the code is kept.
Emit ==
    /\ phase = "emit"
    /\ phase' = "run"
    /\ LET c == code
           used == {c.loc[i] : i \in DOMAIN c.loc} \union (0..Len(c.pre))
                     \union {d[2] : d \in UNION {ToSet(c.copies[b]) : b \in DOMAIN c.copies}}
       IN  /\ code' = [pre |-> c.pre, blocks |-> [b \in Reachable(f) |-> EmitBlock(c, b)]]
           /\ run' = [b |-> body, regs |-> [r \in used |-> Null],
                      env |-> [s \in Symbols |-> Null], acc |-> Null, n |-> 0, steps |-> 0,
                      bad |-> {}]
    /\ f' = Function
    /\ script' = <<>>
    /\ cur' = 0
    /\ UNCHANGED <<open, count>>

-----------------------------------------------------------------------------
\* Execution.

\* The values that calls return are all different, sums of them as well.
Fresh(n) == 4 ^ n

\* The value that stands for the closure environment.
Environment == 1

MayThrow(v) == v.kept /\ v.t \in {"call", "binary", "aggregate", "make_iterator"}

Makes(v) == v.t \in {"param", "call", "aggregate", "make_iterator"}

\* What the source says of an instruction: the last result, and the symbols.
SourceStep(m, v) ==
    LET how == IF v.src = <<>> THEN "" ELSE v.src[1]
        set(x) == [m EXCEPT !.env[v.sym] = x]
    IN  CASE Makes(v) -> [m EXCEPT !.acc = Fresh(m.n + 1), !.n = @ + 1]
          [] how = "acc" -> set(m.acc)
          [] how = "sum" -> set(m.env[v.sym] + m.env[v.src[2]])
          [] how = "swap" -> [set(m.env[v.src[2]]) EXCEPT !.env[v.src[2]] = m.env[v.sym]]
          [] OTHER -> m

\* What the bytecode of an instruction leaves in its register.
Result(m, v) ==
    LET arg(k) == m.regs[v.ops[k]]
    IN  CASE v.t \in {"alias", "publish"} -> arg(1)
          [] v.t = "observe" -> m.regs[PreallocatedReg(code.pre, v.sym)]
          [] v.t = "binary" -> arg(1) + arg(2)
          [] v.t = "make_env" -> Environment
          [] v.t = "closure" -> IF arg(1) = Environment THEN m.env[v.sym] ELSE Null
          [] v.t = "const" -> Null
          [] OTHER -> Fresh(m.n + 1)

Stores(v) == v.kept /\ v.t \notin {"phi", "member", "write", "error", "nop"}

\* A use finds something else than the source says.
Check(m, v, kind) ==
    IF v.src = <<>> \/ v.src[1] /= "use" \/ m.regs[v.ops[1]] = m.env[v.src[2]] THEN m
    ELSE [m EXCEPT !.bad = @ \union {<<kind, v.src[2]>>}]

Kind(b) == IF code.blocks[b].is_handler THEN "handler" ELSE "code"

\* The first k instructions of the block.
Execute(m, b, k) ==
    LET one(p, v) ==
            LET c == IF v.kept THEN Check(p, v, Kind(b)) ELSE p
                y == SourceStep(c, v)
            IN  IF Stores(v) THEN [y EXCEPT !.regs[v.to] = Result(c, v)] ELSE y
    IN  FoldLeft(one, m, SubSeq(code.blocks[b].insts, 1, k))

Goto(m, b) ==
    /\ run' = [m EXCEPT !.b = b, !.steps = @ + 1]
    /\ UNCHANGED <<phase, f, cur, open, count, script, code>>

\* The exception leaves the function or continues in the handler.
Unwind(m, b) == Goto(m, IF code.blocks[b].handler = 0 THEN exit ELSE code.blocks[b].handler)

Running == phase = "run" /\ run.b /= exit /\ run.steps < MaxSteps

\* An instruction of the block throws; its result is not stored.
Throw ==
    /\ Running
    /\ LET s == code.blocks[run.b].insts IN
       \E k \in DOMAIN s :
        /\ MayThrow(s[k])
        /\ Unwind(Check(Execute(run, run.b, k - 1), s[k], Kind(run.b)), run.b)

\* The block runs to its end and continues at a target of its terminator.
Step ==
    /\ Running
    /\ LET blk == code.blocks[run.b]
           term == blk.term
           c == Check(Execute(run, run.b, Len(blk.insts)), term, Kind(run.b))
           m == IF term.src = <<>> THEN c ELSE [c EXCEPT !.acc = c.env[term.src[2]]]
       IN  CASE term.t = "jump" -> Goto([m EXCEPT !.regs = Copied(@, blk.copies)], term.targets[1])
             [] term.t = "branch" -> \E b \in ToSet(term.targets) : Goto(m, b)
             [] term.t \in {"rethrow", "assert_fail"} -> Unwind(m, run.b)
             [] OTHER -> Goto(m, exit)

Done == ((phase = "run" /\ ~Running) \/ f.failed /= {}) /\ UNCHANGED vars

-----------------------------------------------------------------------------
Statement ==
    \/ \E p \in Pairs :
        \/ AssignCall(p[1], p[2])
        \/ /\ p[1] \in Tested
           /\ \/ AssignBinary(p[1], p[2]) \/ Swap(p[1], p[2])
              \/ ShortCircuit(p[1], p[2]) \/ Path(p[1], p[2])
    \/ \E s \in Tested :
        \/ AssertStmt(s)
        \/ Return(s)
        \/ \E else \in BOOLEAN : BeginIf(s, else)
        \/ \E kind \in Loops : BeginLoop(kind, s)
    \/ \E s \in Deferrable : Defer(s)
    \/ \E how \in {"break", "continue"} : Leave(how)

Next ==
    \/ Statement
    \/ EndIf \/ EndThen \/ EndElse \/ EndWhile \/ EndForEach \/ EndFor \/ EndFunction
    \/ Connect \/ Clean \/ Split \/ AnalyzeFunction \/ Allocate \/ Emit
    \/ Throw \/ Step \/ Done

Spec == Init /\ [][Next]_vars

-----------------------------------------------------------------------------
Generated == phase \in {"connect", "alloc"}

\* Instructions and blocks only refer to existing ones, phis have one operand
\* per predecessor, and a reachable block of a finished function has an end.
TypeOK ==
    /\ phase \in {"gen", "connect", "clean", "split", "alloc", "color", "emit", "run"}
    /\ \A i \in DOMAIN f.insts :
        /\ f.insts[i].t \in ValueTypes
        /\ visit_insts(f.insts[i]) \subseteq DOMAIN f.insts
    /\ cur \in 0..Len(f.blocks)
    /\ Generated => \A b \in Reachable(f) :
        /\ f.blocks[b].term.t \in TerminatorTypes \ {"none"}
        /\ f.blocks[b].sealed \/ b > Len(script)
        /\ \A k \in 1..phi_count(f, b) :
            Len(f.insts[f.blocks[b].insts[k]].ops) = Len(f.blocks[b].preds)

\* The assertions of the generator hold (func.cpp): a block is terminated and
\* sealed once, gets no predecessor after it was sealed and no instruction
\* after its terminator, handlers have no phis, and the search for the value
\* of a symbol does not end in a block nothing leads to.  Except in code that
\* is compiled although nothing leads to it, behind an endless loop and behind
\* an if whose branches both leave.
AssertionsHold ==
    f.failed /= {} => count.cut /\ f.failed \subseteq {"no_predecessor", "never_initialized"}

\* The place of an instruction in its block.
Place(b, i) == CHOOSE k \in DOMAIN f.blocks[b].insts : f.blocks[b].insts[k] = i

\* Every use is dominated by its definition, the operands of a phi at the end
\* of the predecessor they come from: what the liveness analysis and the order
\* of the register allocation rely on, whatever statements, early exits and
\* deferred expressions the function is made of.  Except for the closure
\* environment where a handler reads a captured symbol: no way to the handler
\* leads through the block that makes it.
UsesDominated ==
    phase = "clean" =>
        LET def == DefinedIn(f)
            dominance == Dominance(f)
        IN
        \A b \in Reachable(f) :
            LET s == f.blocks[b].insts
                environment(o) == f.insts[o].t = "make_env" /\ f.blocks[b].is_handler
                before(o, k) ==
                    \/ environment(o)
                    \/ IF def[o] = b THEN Place(b, o) < k ELSE <<def[o], b>> \in dominance
            IN  /\ \A k \in DOMAIN s :
                    LET v == f.insts[s[k]] IN
                    \A p \in DOMAIN v.ops :
                        CASE v.t = "observe" -> TRUE
                          [] v.t = "phi" -> <<def[v.ops[p]], f.blocks[b].preds[p]>> \in dominance
                          [] OTHER -> before(v.ops[p], k)
                /\ \A p \in DOMAIN f.blocks[b].term.ops :
                    before(f.blocks[b].term.ops[p], Len(s) + 1)

\* The iteration over the immediate dominators ends with the closest block
\* that every way from the entry goes through, also with loops, handlers and
\* split edges (dominators.cpp).
DominatorsExact ==
    phase = "color" =>
        LET dominance == Dominance(f) IN
        \A b \in Reachable(f) \ {entry} :
            LET idom == code.idom[b] IN
            /\ idom /= b
            /\ <<idom, b>> \in dominance
            /\ \A a \in Reachable(f) \ {b} : <<a, b>> \in dominance => <<a, idom>> \in dominance

\* In every execution, with exceptions anywhere and branches either way, each
\* use of a symbol outside of handlers finds in its register the value that
\* the source code assigned last: SSA construction, dead code elimination,
\* liveness, coloring and the order of the phi copies agree.
CodeSeesAssignments == phase = "run" => \A s \in Symbols : <<"code", s>> \notin run.bad

\* The same for deferred expressions that run because of an exception: they
\* see the assignments that happened up to the instruction that threw.  Except
\* for captured symbols, whose environment may be lost on the way.
HandlersSeeAssignments == phase = "run" => \A s \in Symbols \ Captured : <<"handler", s>> \notin run.bad

\* The intermediate code is in SSA form: no assertion of the construction fails but in code that
\* nothing leads to, definitions dominate their uses but for the environment of a captured symbol
\* in a handler, and the dominators are those of the graph (ir_gen/func.cpp, dominators.cpp).
IrWellFormed == TypeOK /\ AssertionsHold /\ UsesDominated /\ DominatorsExact

\* In the generated code every use of a symbol, in a handler that was entered between any two
\* instructions too unless the symbol is captured, finds the value assigned last (ir_passes,
\* bytecode_gen).
AssignmentsSeen == CodeSeesAssignments /\ HandlersSeeAssignments
=============================================================================

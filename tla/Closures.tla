------------------------------ MODULE Closures ------------------------------
(***************************************************************************)
(* Closure environments: where the generation of the intermediate          *)
(* representation puts captured variables, and how functions reach them    *)
(* (src/src/compiler/ir_gen/func.cpp, module.cpp, closures.cpp).           *)
(*                                                                         *)
(* The functions of a module are compiled one by one from a queue of jobs; *)
(* a nested function is queued when its expression is compiled, with the   *)
(* environment that is the current one there.  g is the state of           *)
(* ModuleIRGen and of the FunctionIRGen at work, s the result of the       *)
(* semantic analysis.  The instructions themselves are not part of this    *)
(* module; what counts here is which code is compiled, in which order, and *)
(* with which environments.  A function is identified by its symbol, an    *)
(* environment by its number in its collection, 0 is none.                 *)
(***************************************************************************)
EXTENDS Semantics

\* ModuleIRGen: the jobs, the functions with a module member, one collection of environments and
\* locations for every function at module level.
\* FunctionIRGen: the collection, the outer environment, local_env_stack_, local_env_locations_,
\* active_regions_; dead: the code that follows is unreachable.
\* History: the accesses to captured variables and the closures that were made.
Generator ==
    [jobs |-> <<>>, funcs |-> {}, cols |-> <<>>,
     func |-> 0, col |-> 0, outer |-> 0, stack |-> <<>>, local |-> {}, regions |-> <<>>, dead |-> FALSE,
     entered |-> FALSE, accesses |-> {}, closures |-> {}, failed |-> ""]

\* The node of a tree at a path.
RECURSIVE NodeAt(_, _)
NodeAt(node, path) == IF path = <<>> THEN node ELSE NodeAt(node.kids[Head(path)], Tail(path))

\* TIRO_DEBUG_ASSERT, TIRO_CHECK and TIRO_ERROR; nothing is compiled after one of them.
Require(g, holds, message) == IF holds \/ g.failed # "" THEN g ELSE [g EXCEPT !.failed = message]

Stopped(g) == g.dead \/ g.failed # ""

-----------------------------------------------------------------------------
\* ClosureEnvCollection.

ClosureEnvCollection == [envs |-> <<>>, locs |-> {}]

envs(g) == g.cols[g.col].envs

make_env(g, parent, size, starter) ==
    [g EXCEPT !.cols[g.col].envs = Append(@, [parent |-> parent, size |-> size, starter |-> starter])]

write_location(g, symbol, env, index) ==
    Require([g EXCEPT !.cols[g.col].locs = @ \cup {[symbol |-> symbol, env |-> env, index |-> index]}],
           \A loc \in g.cols[g.col].locs : loc.symbol # symbol,
           "Symbol is already associated with a location.")

read_location(g, symbol) == {loc \in g.cols[g.col].locs : loc.symbol = symbol}

-----------------------------------------------------------------------------
\* The environments of a function.

can_open_closure_env(s, scope) == s.scopes[scope].type \in {"Module", "Function"} \/ s.scopes[scope].loop

\* current_env: the innermost environment of the function, or the outer one.
current_env(g) == IF g.stack = <<>> THEN g.outer ELSE Last(g.stack).env

\* The captured symbols of a scope and of the scopes below it that open no environment.
RECURSIVE gather_captured(_, _, _)
gather_captured(s, starter, scope) ==
    LET below == SelectSeq([i \in DOMAIN s.scopes |-> i], LAMBDA i : s.scopes[i].parent = scope)
    IN  IF scope # starter /\ can_open_closure_env(s, scope) THEN <<>>
        ELSE SelectSeq(s.scopes[scope].entries, LAMBDA i : s.symbols[i].captured)
             \o FlattenSeq([k \in DOMAIN below |-> gather_captured(s, starter, below[k])])

\* Makes an environment for the captured symbols, if there are any.
enter_env(g, s, starter) ==
    LET captured == gather_captured(s, starter, starter)
        parent == current_env(g)
        env == Len(envs(g)) + 1
        made == make_env(g, parent, Len(captured), starter)
        placed == FoldLeft(LAMBDA r, i : write_location(r, captured[i], env, i - 1), made,
                           [i \in DOMAIN captured |-> i])
    IN  IF captured = <<>> THEN g
        ELSE Require([placed EXCEPT !.stack = Append(@, [env |-> env, starter |-> starter]),
                                   !.local = @ \cup {env}],
                    parent # 0 => parent \in g.local, "Local environment was not found.")

\* The environment is left only by the scope that started it.
exit_env(g, starter) ==
    IF g.stack = <<>> THEN g
    ELSE IF Last(g.stack).starter # starter THEN g
    ELSE [g EXCEPT !.stack = Front(@), !.local = @ \ {Last(g.stack).env}]

\* The number of steps from an environment up to another one, -1 if it is not reached.
RECURSIVE Levels(_, _, _)
Levels(g, env, target) ==
    IF env = 0 THEN -1
    ELSE IF env = target THEN 0
    ELSE LET n == Levels(g, envs(g)[env].parent, target) IN IF n = -1 THEN -1 ELSE n + 1

\* The levels are counted from the parent of the outer environment (mutant).
get_captured_lvalue_from_parent(g, loc) ==
    IF loc.env \in g.local THEN [base |-> loc.env, levels |-> 0, index |-> loc.index]
    ELSE [base |-> g.outer, levels |-> Levels(g, g.outer, loc.env) + 1, index |-> loc.index]

\* An environment of the own function, or one that is some levels above the outer one.
get_captured_lvalue(g, loc) ==
    IF loc.env \in g.local THEN [base |-> loc.env, levels |-> 0, index |-> loc.index]
    ELSE [base |-> g.outer, levels |-> Levels(g, g.outer, loc.env), index |-> loc.index]

is_static(s, symbol) == s.scopes[s.symbols[symbol].scope].type \in {"Global", "Module", "File"}

\* A symbol is read or written by the code of a node: module members have a place in the module,
\* captured symbols one in an environment, all others none (find_lvalue).
find_lvalue(g, s, symbol, path) ==
    LET locs == read_location(g, symbol)
        lvalue == get_captured_lvalue(g, CHOOSE loc \in locs : TRUE)
    IN  IF is_static(s, symbol) \/ ~s.symbols[symbol].captured THEN g
        ELSE IF locs = {} THEN Require(g, FALSE, "Captured symbol without a defined location used as lvalue.")
        ELSE Require([g EXCEPT !.accesses = @ \cup {[path |-> path, symbol |-> symbol, func |-> g.func,
                                                     col |-> g.col, lvalue |-> lvalue]}],
                    lvalue.levels # -1, "Failed to access a captured variable")

-----------------------------------------------------------------------------
\* The queue of functions.

\* enqueue_function_job and link.
enqueue_function_job(g, s, path, col, env) ==
    LET job == [symbol |-> get_decl(s, path), path |-> path, col |-> col, env |-> env]
    IN  [g EXCEPT !.jobs = Append(@, job), !.funcs = @ \cup {job}]

\* A function that is visited again is not compiled again.
add_function(g, s, path) ==
    IF \E f \in g.funcs : f.symbol = get_decl(s, path) THEN g
    ELSE enqueue_function_job(g, s, path, g.col, current_env(g))

\* make_closure with the current environment, or the plain function if there is none.
visit_func_expr(g, s, path) ==
    [add_function(g, s, Append(path, 1))
        EXCEPT !.closures = @ \cup {[path |-> path, symbol |-> get_decl(s, Append(path, 1)),
                                     col |-> g.col, env |-> current_env(g)]}]

-----------------------------------------------------------------------------
\* The code of a function.

RECURSIVE Gen(_, _, _, _)

GenKids(g, s, node, path, ks) == Fold(g, node, path, ks, LAMBDA r, kid, at : Gen(r, s, kid, at))

\* The names of a binding or a loop are assigned.
AssignNames(g, s, spec, path) ==
    FoldLeft(LAMBDA r, k : IF Stopped(r) THEN r
                           ELSE find_lvalue(r, s, get_decl(s, Append(path, k)), Append(path, k)),
             g, All(spec))

\* The code that runs in one branch only; the code behind it is reachable.
Branch(g, s, node, path) == [Gen(g, s, node, path) EXCEPT !.dead = g.dead]

EnterRegion(g, kind) ==
    [g EXCEPT !.regions = Append(@, [kind |-> kind, deferred |-> <<>>, processed |-> 0,
                                     continued |-> FALSE])]
LeaveRegion(g) == [g EXCEPT !.regions = Front(@)]

Innermost(g, kind) ==
    LET hits == {i \in DOMAIN g.regions : g.regions[i].kind = kind}
    IN  IF hits = {} THEN 0 ELSE CHOOSE i \in hits : \A j \in hits : j <= i

\* compile_scope_exit: the deferred statements of region i that are not processed, the last one
\* first.
RECURSIVE RunDeferred(_, _, _, _)
RunDeferred(g, s, i, n) ==
    LET d == g.regions[i].deferred[n]
    IN  IF n = 0 \/ Stopped(g) THEN g
        ELSE RunDeferred(Gen([g EXCEPT !.regions[i].processed = @ + 1], s, d.node, d.path), s, i, n - 1)

compile_scope_exit(g, s, i) ==
    LET region == g.regions[i]
    IN  [RunDeferred(g, s, i, Len(region.deferred) - region.processed)
            EXCEPT !.regions[i].processed = region.processed]

\* All scopes above the target.
RECURSIVE exit_scopes(_, _, _, _)
exit_scopes(g, s, i, target) ==
    IF i = target \/ Stopped(g) THEN g
    ELSE exit_scopes(IF g.regions[i].kind = "scope" THEN compile_scope_exit(g, s, i) ELSE g, s, i - 1, target)

compile_scope_exit_until(g, s, target) == exit_scopes(g, s, Len(g.regions), target)

\* Statements, the value and the deferred statements of a block.
visit_block_expr(g, s, expr, path) ==
    LET r == GenKids(EnterRegion(g, "scope"), s, expr, path, All(expr))
    IN  LeaveRegion(IF Stopped(r) THEN r ELSE compile_scope_exit(r, s, Len(r.regions)))

\* A statement is deferred: its code as an exception handler is compiled at once, the code for
\* the exits of the scope later.
visit_defer_stmt(g, s, stmt, path) ==
    LET r == Branch(g, s, stmt.kids[1], Append(path, 1))
        i == Innermost(r, "scope")
        d == [node |-> stmt.kids[1], path |-> Append(path, 1)]
    IN  Require([r EXCEPT !.regions[i].deferred = Append(@, d)], r.regions[i].processed = 0,
               "Cannot add additional deferred items when generating scope exit code.")

\* Unreachable if it has a value and both branches are.
visit_if_expr(g, s, expr, path) ==
    LET cond == Gen(g, s, expr.kids[1], Append(path, 1))
        then == Gen(cond, s, expr.kids[2], Append(path, 2))
        else == Gen([then EXCEPT !.dead = FALSE], s, expr.kids[3], Append(path, 3))
        has_value == can_use_as_value(Lookup(s.types, path))
    IN  IF Stopped(cond) THEN cond
        ELSE IF expr.kids[3] = Null THEN [then EXCEPT !.dead = FALSE]
        ELSE [else EXCEPT !.dead = has_value /\ then.dead /\ else.dead]

\* A loop body has an environment of its own; before: the names assigned in it.
compile_loop_body(g, s, scope, Before(_), body, path) ==
    LET r == Before(enter_env(EnterRegion(g, "loop"), s, scope))
    IN  exit_env(Gen(r, s, body, path), scope)

ScopeOf(s, path) == Lookup(s.scope_of, path)

visit_while_stmt(g, s, stmt, path) ==
    LET cond == Gen(g, s, stmt.kids[1], Append(path, 1))
        at == Append(path, 2)
        body == compile_loop_body(cond, s, ScopeOf(s, at), LAMBDA r : r, stmt.kids[2], at)
    IN  IF Stopped(cond) THEN cond ELSE [LeaveRegion(body) EXCEPT !.dead = FALSE]

\* The step is compiled if the end of the body is reachable or there is a continue.
visit_for_stmt(g, s, stmt, path) ==
    LET decl == GenKids(g, s, stmt, path, <<1>>)
        cond == GenKids(decl, s, stmt, path, <<2>>)
        at == Append(path, 4)
        body == compile_loop_body(cond, s, ScopeOf(s, at), LAMBDA r : r, stmt.kids[4], at)
        done == [LeaveRegion(body) EXCEPT !.dead = ~(~body.dead \/ Last(body.regions).continued)]
    IN  IF Stopped(decl) \/ Stopped(cond) THEN cond
        ELSE [GenKids(done, s, stmt, path, <<3>>) EXCEPT !.dead = FALSE]

\* The names of the loop are part of the environment of its body.
visit_for_each_stmt(g, s, stmt, path) ==
    LET container == Gen(g, s, stmt.kids[2], Append(path, 2))
        names(r) == AssignNames(r, s, stmt.kids[1], Append(path, 1))
        body == compile_loop_body(container, s, ScopeOf(s, path), names, stmt.kids[3], Append(path, 3))
    IN  IF Stopped(container) THEN container ELSE [LeaveRegion(body) EXCEPT !.dead = FALSE]

\* break and continue.
visit_jump(g, s, node) ==
    LET loop == Innermost(g, "loop")
        r == compile_scope_exit_until(g, s, loop)
    IN  IF loop = 0 THEN Require(g, FALSE, "Jump outside a loop.")
        ELSE IF Stopped(r) THEN r
        ELSE [r EXCEPT !.dead = TRUE, !.regions[loop].continued = @ \/ node.k = "ContinueExpr"]

visit_return_expr(g, s, expr, path) ==
    LET value == GenKids(g, s, expr, path, <<1>>)
        r == compile_scope_exit_until(value, s, 0)
    IN  IF Stopped(value) THEN value ELSE [r EXCEPT !.dead = TRUE]

\* The targets of an assignment: the instances and elements of their members, and the variables.
AssignedVars(lhs, path) ==
    IF lhs.k = "TupleLiteral"
    THEN SelectSeq([k \in DOMAIN lhs.kids |-> Append(path, k)], LAMBDA p : lhs.kids[Last(p)].k = "VarExpr")
    ELSE IF lhs.k = "VarExpr" THEN <<path>> ELSE <<>>

compile_target(g, s, expr, path) ==
    IF expr.k = "VarExpr" THEN g ELSE GenKids(g, s, expr, path, All(expr))

compile_assign_expr(g, s, expr, path) ==
    LET lhs == expr.kids[1]
        at == Append(path, 1)
        targets == IF lhs.k = "TupleLiteral"
                   THEN Fold(g, lhs, at, All(lhs), LAMBDA r, kid, p : compile_target(r, s, kid, p))
                   ELSE compile_target(g, s, lhs, at)
        rhs == Gen(targets, s, expr.kids[2], Append(path, 2))
    IN  FoldLeft(LAMBDA r, p : IF Stopped(r) THEN r ELSE find_lvalue(r, s, Lookup(s.refs, p), p),
                 rhs, AssignedVars(lhs, at))

visit_binary_expr(g, s, expr, path) ==
    CASE expr.name = "Equals" -> compile_assign_expr(g, s, expr, path)
      [] expr.name \in {"LogicalOr", "LogicalAnd", "QuestionQuestion"} ->
            LET lhs == Gen(g, s, expr.kids[1], Append(path, 1))
            IN  IF Stopped(lhs) THEN lhs ELSE Branch(lhs, s, expr.kids[2], Append(path, 2))
      [] OTHER -> GenKids(g, s, expr, path, <<1, 2>>)

\* A chain of members and calls; behind an optional one that is reached the end of the chain is
\* reachable.
RECURSIVE Chain(_, _, _, _)
Chain(g, s, expr, path) ==
    LET r == Chain(g, s, expr.kids[1], Append(path, 1))
        rest == SelectSeq(All(expr), LAMBDA k : k > 1)
    IN  IF expr.k \notin AccessPath THEN Gen(g, s, expr, path)
        ELSE IF Stopped(r) THEN r
        ELSE GenKids([r EXCEPT !.entered = @ \/ expr.flag], s, expr, path, rest)

compile_path(g, s, expr, path) ==
    LET r == Chain([g EXCEPT !.entered = FALSE], s, expr, path)
    IN  [r EXCEPT !.dead = @ /\ ~r.entered, !.entered = g.entered]

\* The names of a binding with an initializer are assigned.
compile_binding(g, s, binding, path) ==
    LET init == GenKids(g, s, binding, path, <<2>>)
    IN  IF binding.kids[2] = Null THEN g ELSE AssignNames(init, s, binding.kids[1], Append(path, 1))

Gen(g, s, node, path) ==
    CASE Stopped(g) \/ node = Null -> g
      [] node.k = "VarExpr" -> find_lvalue(g, s, Lookup(s.refs, path), path)
      [] node.k = "FuncExpr" -> visit_func_expr(g, s, path)
      [] node.k = "BlockExpr" -> visit_block_expr(g, s, node, path)
      [] node.k = "IfExpr" -> visit_if_expr(g, s, node, path)
      [] node.k = "ReturnExpr" -> visit_return_expr(g, s, node, path)
      [] node.k \in {"BreakExpr", "ContinueExpr"} -> visit_jump(g, s, node)
      [] node.k = "BinaryExpr" -> visit_binary_expr(g, s, node, path)
      [] node.k \in AccessPath -> compile_path(g, s, node, path)
      [] node.k = "Binding" -> compile_binding(g, s, node, path)
      [] node.k = "DeferStmt" -> visit_defer_stmt(g, s, node, path)
      [] node.k = "WhileStmt" -> visit_while_stmt(g, s, node, path)
      [] node.k = "ForStmt" -> visit_for_stmt(g, s, node, path)
      [] node.k = "ForEachStmt" -> visit_for_each_stmt(g, s, node, path)
      [] OTHER -> IF Stopped(g) \/ node = Null THEN g ELSE GenKids(g, s, node, path, All(node))

-----------------------------------------------------------------------------
\* Functions and the module.

\* The function of a job is the one at work; its outer environment is at hand.
enter_compilation(g, symbol, col, env, Compile(_)) ==
    LET r == Compile([g EXCEPT !.func = symbol, !.col = col, !.outer = env, !.stack = <<>>,
                               !.local = IF env = 0 THEN {} ELSE {env}, !.regions = <<>>, !.dead = FALSE])
    IN  Require([r EXCEPT !.dead = FALSE], r.stack = <<>> /\ r.regions = <<>>,
               "No active environments must be left behind.")

\* The parameters are assigned, and then the body is compiled.
compile_function(g, s, ast, job) ==
    LET func == NodeAt(ast, job.path)
        n == Len(func.kids)
        scope == ScopeOf(s, job.path)
        params(r) == FoldLeft(LAMBDA q, k : find_lvalue(q, s, get_decl(s, Append(job.path, k)), Append(job.path, k)),
                              r, [k \in 1..(n - 1) |-> k])
    IN  enter_compilation(g, job.symbol, job.col, job.env,
            LAMBDA r : exit_env(Gen(params(enter_env(r, s, scope)), s, func.kids[n], Append(job.path, n)), scope))

\* The variables of all files.
compile_initializer(g, s, ast, col) ==
    LET stmts == FlattenSeq([i \in DOMAIN ast.kids |-> [j \in DOMAIN ast.kids[i].kids |-> <<i, j, 1>>]])
        vars_of == SelectSeq(stmts, LAMBDA p : NodeAt(ast, p).k = "VarDecl")
        decls(r) == FoldLeft(LAMBDA q, p : Gen(q, s, NodeAt(ast, p), p), r, vars_of)
        scope == ScopeOf(s, <<>>)
    IN  enter_compilation(g, 0, col, 0, LAMBDA r : exit_env(decls(enter_env(r, s, scope)), scope))

\* Every function at module level is queued with a collection of its own; the initializer of the
\* variables is compiled at once.
start_module(s, ast) ==
    LET statics == SelectSeq([i \in DOMAIN s.symbols |-> i], LAMBDA i : is_static(s, i))
        visit(g, i) ==
            IF s.symbols[i].type # "Function" THEN g
            ELSE enqueue_function_job([g EXCEPT !.cols = Append(@, ClosureEnvCollection)], s,
                                      s.symbols[i].node, Len(g.cols) + 1, 0)
        queued == FoldLeft(visit, Generator, statics)
        has_vars == \E k \in DOMAIN statics : s.symbols[statics[k]].type = "Variable"
    IN  IF ~has_vars THEN queued
        ELSE compile_initializer([queued EXCEPT !.cols = Append(@, ClosureEnvCollection)], s, ast,
                                 Len(queued.cols) + 1)

\* One turn of the loop in compile_module.
compile_job(g, s, ast) ==
    compile_function([g EXCEPT !.jobs = Tail(@)], s, ast, Head(g.jobs))
=============================================================================

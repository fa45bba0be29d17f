----------------------------- MODULE Semantics -----------------------------
(***************************************************************************)
(* The semantic analysis of an abstract syntax tree                        *)
(* (src/src/compiler/semantics): scopes and declarations, symbol           *)
(* references, expression types and the structural checks.                 *)
(*                                                                         *)
(* Every visitor of the code is an operator from the analysis to the       *)
(* analysis after the visit.  A node is identified by its path; the tables *)
(* of the code that map nodes to something are sets of pairs.  has_error   *)
(* is the set bad of paths.                                                *)
(***************************************************************************)
EXTENDS AstGen

\* SymbolTable(): scope 1 is the global one.  scope, func and loop are the members current_scope_,
\* current_func_ (a symbol for the scope builder), current_function_ and current_loop_ (paths)
\* of the visitors.
Scope(parent, function, type) ==
    [parent |-> parent, function |-> function, type |-> type, entries |-> <<>>, loop |-> FALSE]

Analysis ==
    [scopes |-> <<Scope(0, 0, "Global")>>, symbols |-> <<>>, refs |-> {}, scope_of |-> {},
     surrounding |-> {}, types |-> {}, bad |-> {}, diag |-> 0,
     scope |-> 1, func |-> 0, module |-> 0, function |-> <<>>, loop |-> <<>>]

\* The value a table maps a node to.
Lookup(table, path) == CHOOSE v \in {e[2] : e \in {p \in table : p[1] = path}} : TRUE

Skipped(s, node, path) == node.k = "Null" \/ node.diag \/ path \in s.bad

reportf(s) == [s EXCEPT !.diag = @ + 1]
fail(s, path) == [reportf(s) EXCEPT !.bad = @ \cup {path}]

\* The children of a node with positions in ks, from left to right.
Fold(s, node, path, ks, Visit(_, _, _)) ==
    FoldLeft(LAMBDA r, k : Visit(r, node.kids[k], Append(path, k)), s, ks)

All(node) == [k \in DOMAIN node.kids |-> k]

-----------------------------------------------------------------------------
\* SymbolTable.

find_local(s, scope, name) ==
    SelectSeq(s.scopes[scope].entries, LAMBDA i : s.symbols[i].name = name /\ name # "")

\* The innermost scope around scope that has an entry for the name, <<0, 0>> if there is none.
RECURSIVE find_name(_, _, _)
find_name(s, scope, name) ==
    IF scope = 0 THEN <<0, 0>>
    ELSE LET local == find_local(s, scope, name)
         IN  IF local # <<>> THEN <<scope, local[1]>> ELSE find_name(s, s.scopes[scope].parent, name)

RECURSIVE is_strict_ancestor(_, _, _)
is_strict_ancestor(s, ancestor, child) ==
    /\ child # 0
    /\ \/ s.scopes[child].parent = ancestor
       \/ is_strict_ancestor(s, ancestor, s.scopes[child].parent)

get_decl(s, path) == CHOOSE i \in DOMAIN s.symbols : s.symbols[i].node = path

-----------------------------------------------------------------------------
\* ScopeBuilder.

register_scope(s, type, path) ==
    [s EXCEPT !.scopes = Append(@, Scope(s.scope, s.func, type)),
              !.scope_of = @ \cup {<<path, Len(s.scopes) + 1>>}]

\* Visits with a new scope of the given type as the current one.
InScope(s, type, path, Visit(_)) ==
    LET r == register_scope(s, type, path)
    IN  [Visit([r EXCEPT !.scope = Len(r.scopes)]) EXCEPT !.scope = s.scope]

\* Declarations at file level but imports are lifted to the module.  A name that is taken is
\* reported and gets an anonymous symbol.
register_decl(s, path, name, const, type) ==
    LET scope == IF s.scopes[s.scope].type = "File" /\ type # "Import" THEN s.module ELSE s.scope
        taken == find_local(s, scope, name) # <<>>
        symbol == [scope |-> scope, name |-> IF taken THEN "" ELSE name, node |-> path, type |-> type,
                   const |-> const, active |-> FALSE, captured |-> FALSE, exported |-> FALSE]
    IN  [(IF taken THEN fail(s, path) ELSE s)
            EXCEPT !.symbols = Append(@, symbol),
                   !.scopes[scope].entries = Append(@, Len(s.symbols) + 1)]

\* The names of a binding: the node is the specification at path.
DeclareNames(s, spec, path, const) ==
    FoldLeft(LAMBDA r, k : register_decl(r, Append(path, k), spec.kids[k].name, const, "Variable"),
             s, All(spec))

mark_exported(s, path) ==
    LET i == get_decl(s, path)
    IN  IF s.symbols[i].name = "" \/ ~s.symbols[i].const THEN reportf(s)
        ELSE [s EXCEPT !.symbols[i].exported = TRUE]

\* The paths of the symbols a declaration declares.
DeclaredBy(decl, path) ==
    IF decl.k # "VarDecl" THEN <<path>>
    ELSE FlattenSeq([b \in DOMAIN decl.kids |->
            [k \in DOMAIN decl.kids[b].kids[1].kids |-> path \o <<b, 1, k>>]])

handle_decl_modifiers(s, decl, path) ==
    IF path \in s.bad \/ ~decl.export THEN s
    ELSE IF s.scopes[s.scope].type # "File" THEN reportf(s)
    ELSE FoldLeft(mark_exported, s, DeclaredBy(decl, path))

RECURSIVE Declare(_, _, _)

DeclareKids(s, node, path, ks) == Fold(s, node, path, ks, Declare)

\* dispatch_block: the node is always wrapped in a block scope.
dispatch_block(s, node, path) ==
    IF node.k \in {"BlockExpr", "Null"} THEN Declare(s, node, path)
    ELSE InScope(s, "Block", path, LAMBDA r : Declare(r, node, path))

dispatch_loop_body(s, node, path) ==
    LET r == dispatch_block(s, node, path)
    IN  IF Skipped(s, node, path) THEN s ELSE [r EXCEPT !.scopes[Lookup(r.scope_of, path)].loop = TRUE]

declare_func(s, func, path) ==
    LET n == Len(func.kids)
        r == register_decl(s, path, func.name, TRUE, "Function")
        body(q) == dispatch_block(DeclareKids(q, func, path, [k \in 1..(n - 1) |-> k]),
                                  func.kids[n], Append(path, n))
        t == InScope([r EXCEPT !.func = Len(r.symbols)], "Function", path, body)
    IN  handle_decl_modifiers([t EXCEPT !.func = s.func], func, path)

declare_binding(s, binding, path) ==
    DeclareKids(DeclareNames(s, binding.kids[1], Append(path, 1), binding.flag), binding, path, <<2>>)

declare_for_stmt(s, stmt, path) ==
    InScope(s, "ForStatement", path,
            LAMBDA r : dispatch_loop_body(DeclareKids(r, stmt, path, <<1, 2, 3>>), stmt.kids[4], Append(path, 4)))

\* The variables of the loop are part of the loop scope.
declare_for_each_stmt(s, stmt, path) ==
    LET r == DeclareKids(s, stmt, path, <<2>>)
        body(q) == DeclareKids(DeclareNames([q EXCEPT !.scopes[q.scope].loop = TRUE],
                                            stmt.kids[1], Append(path, 1), TRUE),
                               stmt, path, <<3>>)
    IN  InScope(r, "ForStatement", path, body)

declare_while_stmt(s, stmt, path) ==
    dispatch_loop_body(DeclareKids(s, stmt, path, <<1>>), stmt.kids[2], Append(path, 2))

declare_module(s, node, path) ==
    InScope(s, "Module", path, LAMBDA r : DeclareKids([r EXCEPT !.module = r.scope], node, path, All(node)))

Declare(s, node, path) ==
    LET kids(r) == DeclareKids(r, node, path, All(node))
    IN  CASE Skipped(s, node, path) -> s
          [] node.k = "Module" -> declare_module(s, node, path)
          [] node.k = "File" -> InScope(s, "File", path, kids)
          [] node.k = "ImportDecl" ->
                handle_decl_modifiers(register_decl(s, path, node.name, TRUE, "Import"), node, path)
          [] node.k = "FuncDecl" -> declare_func(s, node, path)
          [] node.k = "ParamDecl" -> register_decl(s, path, node.name, FALSE, "Parameter")
          [] node.k = "VarDecl" -> handle_decl_modifiers(kids(s), node, path)
          [] node.k = "Binding" -> declare_binding(s, node, path)
          [] node.k = "ForStmt" -> declare_for_stmt(s, node, path)
          [] node.k = "ForEachStmt" -> declare_for_each_stmt(s, node, path)
          [] node.k = "WhileStmt" -> declare_while_stmt(s, node, path)
          [] node.k = "BlockExpr" -> InScope(s, "Block", path, kids)
          [] node.k = "VarExpr" -> [s EXCEPT !.surrounding = @ \cup {<<path, s.scope>>}]
          [] OTHER -> IF Skipped(s, node, path) THEN s ELSE kids(s)

-----------------------------------------------------------------------------
\* SymbolResolver.

activate(s, path) == [s EXCEPT !.symbols[get_decl(s, path)].active = TRUE]

activate_var(s, spec, path) ==
    FoldLeft(LAMBDA r, k : activate(r, Append(path, k)), s, All(spec))

\* Any nested scope captures (mutant).
resolve_var_expr_captures(s, expr, path) ==
    LET from == Lookup(s.surrounding, path)
        found == find_name(s, from, expr.name)
        captured == /\ s.scopes[found[1]].type \notin {"Module", "File", "Global"}
                    /\ is_strict_ancestor(s, found[1], from)
    IN  CASE found[2] = 0 -> fail(s, path)
          [] found[2] # 0 /\ ~s.symbols[found[2]].active -> fail(s, path)
          [] OTHER -> [s EXCEPT !.refs = @ \cup {<<path, found[2]>>},
                                !.symbols[found[2]].captured = @ \/ captured]

\* A symbol is captured when a nested function refers to it.
resolve_var_expr(s, expr, path) ==
    LET from == Lookup(s.surrounding, path)
        found == find_name(s, from, expr.name)
        scope == s.scopes[found[1]]
        captured == /\ scope.type \notin {"Module", "File", "Global"}
                    /\ scope.function # s.scopes[from].function
                    /\ is_strict_ancestor(s, found[1], from)
    IN  CASE found[2] = 0 -> fail(s, path)
          [] found[2] # 0 /\ ~s.symbols[found[2]].active -> fail(s, path)
          [] OTHER -> [s EXCEPT !.refs = @ \cup {<<path, found[2]>>},
                                !.symbols[found[2]].captured = @ \/ captured]

RECURSIVE Resolve(_, _, _)

ResolveKids(s, node, path, ks) == Fold(s, node, path, ks, Resolve)

\* The variable is active in its own initializer (mutant).
resolve_binding_early(s, binding, path) ==
    IF Skipped(s, binding, path) THEN s
    ELSE ResolveKids(activate_var(s, binding.kids[1], Append(path, 1)), binding, path, <<2>>)

\* A variable is not active in its initializer.
resolve_binding(s, binding, path) ==
    IF Skipped(s, binding, path) THEN s
    ELSE activate_var(ResolveKids(s, binding, path, <<2>>), binding.kids[1], Append(path, 1))

\* Functions at module scope are always active.
resolve_module(s, node, path) ==
    LET entries == ToSet(s.scopes[Lookup(s.scope_of, path)].entries)
        r == [s EXCEPT !.symbols =
                [i \in DOMAIN s.symbols |->
                    IF i \in entries /\ s.symbols[i].type = "Function"
                    THEN [s.symbols[i] EXCEPT !.active = TRUE] ELSE s.symbols[i]]]
    IN  ResolveKids(r, node, path, All(node))

Resolve(s, node, path) ==
    LET kids(r) == ResolveKids(r, node, path, All(node))
    IN  CASE Skipped(s, node, path) -> s
          [] node.k = "Module" -> resolve_module(s, node, path)
          [] node.k = "ImportDecl" -> activate(s, path)
          [] node.k = "FuncDecl" -> kids(activate(s, path))
          [] node.k = "ParamDecl" -> activate(s, path)
          [] node.k = "VarDecl" -> Fold(s, node, path, All(node), resolve_binding)
          [] node.k = "ForEachStmt" ->
                ResolveKids(activate_var(ResolveKids(s, node, path, <<2>>), node.kids[1], Append(path, 1)),
                            node, path, <<3>>)
          [] node.k = "VarExpr" -> resolve_var_expr(s, node, path)
          [] OTHER -> IF Skipped(s, node, path) THEN s ELSE kids(s)

resolve_symbols(ast) == Resolve(Declare(Analysis, ast, <<>>), ast, <<>>)

-----------------------------------------------------------------------------
\* TypeAnalyzer.

Stmts == {"ExprStmt", "DeferStmt", "AssertStmt", "DeclStmt", "WhileStmt", "ForStmt", "ForEachStmt", "ErrorStmt"}
NotExprs ==
    Stmts \cup {"Null", "Module", "File", "ImportDecl", "FuncDecl", "ParamDecl", "VarDecl", "Binding",
                "VarBindingSpec", "TupleBindingSpec", "Identifier", "RecordItem", "MapItem"}

\* Whether child k of a node has to produce a value, when required tells so for the node itself.
Required(node, k, required) ==
    CASE node.k = "FuncDecl" -> node.flag /\ k = Len(node.kids)
      [] node.k = "BlockExpr" -> required /\ k = Len(node.kids)
      [] node.k = "IfExpr" -> k = 1 \/ required
      [] node.k \in {"ForStmt", "ForEachStmt"} -> k = 2
      [] node.k = "WhileStmt" -> k = 1
      [] node.k = "DeferStmt" -> FALSE
      [] node.k = "ExprStmt" -> required
      [] OTHER -> TRUE

can_use_as_value(type) == type \in {"Value", "Never"}

\* The type of the last statement of a block, and of the branches of an if.
block_type(s, expr, path) ==
    LET n == Len(expr.kids)
        type == Lookup(s.types, path \o <<n, 1>>)
    IN  IF n = 0 THEN "None" ELSE IF expr.kids[n].k # "ExprStmt" THEN "None" ELSE type

if_type(s, expr, path) ==
    LET branches == {Lookup(s.types, Append(path, k)) : k \in {2, 3}}
    IN  IF expr.kids[3] = Null THEN "None"
        ELSE IF ~(\A type \in branches : can_use_as_value(type)) THEN "None"
        ELSE IF "Value" \in branches THEN "Value" ELSE "Never"

register_type(s, path, type) == [s EXCEPT !.types = @ \cup {<<path, type>>}]

\* A missing value is reported and taken for a value.  An if with both branches leaves the report
\* to them.
register_value(s, expr, path, required, type) ==
    IF ~required \/ can_use_as_value(type) THEN register_type(s, path, type)
    ELSE register_type(IF expr.k = "IfExpr" /\ expr.kids[3] # Null
                       THEN [s EXCEPT !.bad = @ \cup {path}] ELSE fail(s, path), path, "Value")

RECURSIVE TypeOf(_, _, _, _)
TypeOf(s, node, path, required) ==
    LET r == FoldLeft(LAMBDA q, k : TypeOf(q, node.kids[k], Append(path, k), Required(node, k, required)),
                      s, All(node))
    IN  CASE Skipped(s, node, path) -> s
          [] node.k = "BlockExpr" -> register_value(r, node, path, required, block_type(r, node, path))
          [] node.k = "IfExpr" -> register_value(r, node, path, required, if_type(r, node, path))
          [] node.k \in {"ReturnExpr", "ContinueExpr", "BreakExpr"} -> register_type(r, path, "Never")
          [] node.k \in NotExprs \ {"Null"} -> r
          [] OTHER -> IF Skipped(s, node, path) THEN s ELSE register_type(r, path, "Value")

check_types(s, ast) == TypeOf(s, ast, <<>>, FALSE)

-----------------------------------------------------------------------------
\* StructureChecker.

RECURSIVE Check(_, _, _)

CheckKids(s, node, path, ks) == Fold(s, node, path, ks, Check)

check_file(s, file, path) ==
    LET bad == SelectSeq(All(file), LAMBDA k : file.kids[k].k # "DeclStmt")
    IN  IF bad # <<>> THEN fail(s, Append(path, bad[1])) ELSE CheckKids(s, file, path, All(file))

check_binding(s, binding, path) ==
    LET r == IF binding.flag /\ binding.kids[2] = Null THEN fail(s, path) ELSE s
    IN  CheckKids(r, binding, path, All(binding))

\* enter_func leaves the loop around the function alone.
check_func_decl(s, decl, path) ==
    [CheckKids([s EXCEPT !.function = path], decl, path, All(decl)) EXCEPT !.function = s.function]

\* The body is child n.
check_loop(s, stmt, path, n) ==
    LET r == CheckKids(s, stmt, path, [k \in 1..(n - 1) |-> k])
    IN  [CheckKids([r EXCEPT !.loop = path], stmt, path, <<n>>) EXCEPT !.loop = s.loop]

AccessPath == {"FieldExpr", "TupleFieldExpr", "ElementExpr", "CallExpr"}

\* Results of the checks of an assignment: the analysis, and whether the check was passed.
Ok(s) == [s |-> s, ok |-> TRUE]
Failed(s, path) == [s |-> fail(s, path), ok |-> FALSE]

RECURSIVE check_assignment_path(_, _, _)
check_assignment_path(s, expr, path) ==
    IF expr.k \notin AccessPath THEN Ok(s)
    ELSE IF expr.flag THEN Failed(s, path)
    ELSE check_assignment_path(s, expr.kids[1], Append(path, 1))

check_assignment_var(s, path) ==
    LET symbol == s.symbols[Lookup(s.refs, path)]
    IN  IF symbol.type = "Parameter" \/ (symbol.type = "Variable" /\ ~symbol.const)
        THEN Ok(s) ELSE Failed(s, path)

RECURSIVE check_assignment_lhs(_, _, _, _)

check_assignment_lhs(s, expr, path, allow_tuple) ==
    LET item(r, k) == IF ~r.ok THEN r
                      ELSE check_assignment_lhs(r.s, expr.kids[k], Append(path, k), FALSE)
        items == FoldLeft(item, Ok(s), All(expr))
    IN  CASE expr.k \in AccessPath \ {"CallExpr"} -> check_assignment_path(s, expr, path)
          [] expr.k = "VarExpr" -> check_assignment_var(s, path)
          [] expr.k = "TupleLiteral" /\ allow_tuple ->
                IF items.ok THEN items ELSE [items EXCEPT !.s.bad = @ \cup {path}]
          [] OTHER -> IF expr.k = "TupleLiteral" /\ allow_tuple THEN items ELSE Failed(s, path)

check_binary_expr(s, expr, path) ==
    LET assign == expr.name \in {"Equals", "PlusEquals"}
        lhs == check_assignment_lhs(s, expr.kids[1], Append(path, 1), expr.name = "Equals")
        r == IF lhs.ok THEN lhs.s ELSE [lhs.s EXCEPT !.bad = @ \cup {path}]
    IN  CheckKids(IF assign THEN r ELSE s, expr, path, All(expr))

\* Keys of a record that are there again.
check_record_literal(s, expr, path) ==
    LET again == {k \in DOMAIN expr.kids :
                    \E j \in 1..(k - 1) : expr.kids[j].kids[1].name = expr.kids[k].kids[1].name}
    IN  CheckKids([s EXCEPT !.diag = @ + Cardinality(again)], expr, path, All(expr))

Check(s, node, path) ==
    LET kids == CheckKids(s, node, path, All(node))
    IN  CASE Skipped(s, node, path) -> s
          [] node.k = "File" -> check_file(s, node, path)
          [] node.k = "Binding" -> check_binding(s, node, path)
          [] node.k = "FuncDecl" -> check_func_decl(s, node, path)
          [] node.k = "ForStmt" -> check_loop(s, node, path, 4)
          [] node.k = "ForEachStmt" -> check_loop(s, node, path, 3)
          [] node.k = "WhileStmt" -> check_loop(s, node, path, 2)
          [] node.k = "BinaryExpr" -> check_binary_expr(s, node, path)
          [] node.k \in {"ContinueExpr", "BreakExpr"} -> IF s.loop = <<>> THEN fail(s, path) ELSE kids
          [] node.k = "ReturnExpr" -> IF s.function = <<>> THEN fail(s, path) ELSE kids
          [] node.k = "RecordLiteral" -> check_record_literal(s, node, path)
          [] OTHER -> IF Skipped(s, node, path) THEN s ELSE kids

check_structure(s, ast) == Check(s, ast, <<>>)
=============================================================================

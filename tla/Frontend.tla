------------------------------ MODULE Frontend ------------------------------
(***************************************************************************)
(* The front end of the compiler (src/src/compiler/compiler.cpp run,       *)
(* parse_file and analyze): the source is split into tokens, the tokens    *)
(* are parsed to events, the events become the syntax tree and that the    *)
(* abstract syntax tree; without errors, the symbols are resolved and the  *)
(* types and the structure are checked.  Every pass is one step.           *)
(***************************************************************************)
EXTENDS Closures

CONSTANTS Sources,   \* the source files, sequences of symbols
          Valid      \* the ones that follow the grammar

ASSUME SourcesAssumption == Valid \subseteq Sources

VARIABLES stage, src, toks, parsed, tree, ast, sem, gen

vars == <<stage, src, toks, parsed, tree, ast, sem, gen>>

None == <<>>

Init ==
    /\ stage = "lex"
    /\ src \in Sources
    /\ toks = None /\ parsed = None /\ tree = None /\ ast = None /\ sem = None /\ gen = None

lex ==
    /\ stage = "lex"
    /\ toks' = Lex(src)
    /\ stage' = "parse"
    /\ UNCHANGED <<src, parsed, tree, ast, sem, gen>>

\* A parser that does not get on throws an exception.
parse ==
    /\ stage = "parse"
    /\ parsed' = parse_file(toks)
    /\ stage' = IF parsed'.stuck = "" THEN "build_tree" ELSE "stuck"
    /\ UNCHANGED <<src, toks, tree, ast, sem, gen>>

build_tree ==
    /\ stage = "build_tree"
    /\ tree' = build_syntax_tree(parsed.ev)
    /\ stage' = "build_ast"
    /\ UNCHANGED <<src, toks, parsed, ast, sem, gen>>

\* The errors of the syntax tree, and the ones reported while the abstract tree is built.
Diagnosed(t, root) == t.errors + Cardinality({p \in AstNodes(root, <<>>) : p[2].diag})

build_ast ==
    /\ stage = "build_ast"
    /\ ast' = build_module_ast(tree.nodes)
    /\ stage' = IF Diagnosed(tree, ast') > 0 THEN "syntax errors" ELSE "resolve"
    /\ UNCHANGED <<src, toks, parsed, tree, sem, gen>>

\* One pass of analyze_ast; the analysis ends with the first pass that reports an error.
Analyze(pass, after, failed, passed) ==
    /\ stage = pass
    /\ sem' = after
    /\ stage' = IF after.diag > 0 THEN failed ELSE passed
    /\ UNCHANGED <<src, toks, parsed, tree, ast, gen>>

analyze_symbols == Analyze("resolve", resolve_symbols(ast), "symbol errors", "types")
analyze_types == Analyze("types", check_types(sem, ast), "type errors", "structure")
analyze_structure == Analyze("structure", check_structure(sem, ast), "structure errors", "accepted")

\* A debug assertion or an exception of the generator ends the compilation.
Generate(turn, then) ==
    /\ gen' = turn
    /\ stage' = IF turn.failed = "" THEN then ELSE "ir failed"
    /\ UNCHANGED <<src, toks, parsed, tree, ast, sem>>

start_generation == stage = "accepted" /\ Generate(start_module(sem, ast), "generate")

\* The jobs of compile_module, one function after the other.
generate ==
    /\ stage = "generate"
    /\ IF gen.jobs = <<>> THEN Generate(gen, "generated") ELSE Generate(compile_job(gen, sem, ast), "generate")

Next ==
    \/ lex
    \/ parse
    \/ build_tree
    \/ build_ast
    \/ analyze_symbols
    \/ analyze_types
    \/ analyze_structure
    \/ start_generation
    \/ generate

Spec == Init /\ [][Next]_vars

-----------------------------------------------------------------------------
\* The stages with a result of each pass.
Resolved == {"types", "type errors", "structure", "structure errors", "accepted", "generate", "generated", "ir failed"}
AstBuilt == Resolved \cup {"syntax errors", "resolve", "symbol errors"}
TreeBuilt == AstBuilt \cup {"build_ast"}

Nodes == AstNodes(ast, <<>>)
Kinds(ks) == {p \in Nodes : p[2].k \in ks}

\* The types of the results: parents of events are later start events, children of a node are
\* finished before it, and the analysis refers to scopes and symbols that are there.
TypeOK ==
    /\ stage \in TreeBuilt \cup {"lex", "parse", "build_tree", "stuck"}
    /\ stage = "build_tree" =>
         \A i \in DOMAIN parsed.ev : parsed.ev[i].e = "start" =>
             LET j == parsed.ev[i].forward_parent
             IN  j # 0 => j \in (i + 1)..Len(parsed.ev) /\ parsed.ev[j].e = "start"
    /\ stage = "build_ast" =>
         /\ tree.errors \in Nat
         /\ \A p \in tree.parents : p[1] < p[2] /\ p[2] \in DOMAIN tree.nodes
    /\ stage \in Resolved =>
         /\ \A i \in DOMAIN sem.symbols : sem.symbols[i].scope \in DOMAIN sem.scopes
         /\ \A r \in sem.refs : r[2] \in DOMAIN sem.symbols

\* In the tokens of every text, closing quotes and braces close what was opened last: a block in
\* a string may hold braces and strings with blocks of their own (Lexer::State).
StringsNest ==
    stage = "parse" => Nested(toks, {"StringStart", "StringBlockStart", "LeftBrace"}, FALSE)

\* Whatever the errors, the syntax tree holds every token of the source once and in order: the
\* recovery skips nothing, and nothing is taken twice.
EveryTokenOnce ==
    stage = "build_ast" =>
        LET leaves == SelectSeq(Leaves(tree.nodes, Len(tree.nodes)), LAMBDA tok : tok.type # "Eof")
        IN  /\ Len(leaves) = Len(toks) - 1
            /\ \A i \in DOMAIN leaves : leaves[i].first = toks[i].first

\* The parser gets to the end of every text but the ones in which a block of a string is met
\* where another token is expected: SKIP_CONSUME_ON_ERROR leaves it to a caller, and no caller
\* takes it (Parser::on_inspection throws).
StuckOnlyAtStringBlocks ==
    stage = "stuck" => parsed.stuck \in {"StringBlockStart", "StringBlockEnd"}

\* Binary operators bind as their precedence and associativity tell, in every chain
\* (parse_expr with its binding power).
OperatorsBind ==
    stage = "build_ast" =>
        LET t == tree.nodes
            op(id) == t[id].kids[2].tok.type
            prec(id) == infix_operator_precedence[op(id)]
            binary(kid) == IF kid.node = 0 THEN FALSE ELSE t[kid.node].type = "BinaryExpr"
        IN  \A id \in DOMAIN t : t[id].type = "BinaryExpr" /\ Len(t[id].kids) = 3 =>
                /\ binary(t[id].kids[1]) =>
                     \/ prec(t[id].kids[1].node) > prec(id)
                     \/ prec(t[id].kids[1].node) = prec(id) /\ op(id) \notin right_assoc
                /\ binary(t[id].kids[3]) =>
                     \/ prec(t[id].kids[3].node) > prec(id)
                     \/ prec(t[id].kids[3].node) = prec(id) /\ op(id) \in right_assoc

\* A text that is accepted by the parser has balanced brackets of all kinds.
AcceptedAreBalanced == stage = "resolve" => Nested(toks, DOMAIN Closing, TRUE)

\* A text that follows the grammar is parsed without an error.
ValidAccepted == stage = "build_ast" /\ src \in Valid => tree.errors = 0

\* The parser never makes a tree that the construction of the abstract tree does not expect,
\* broken texts included ("This is either a bug in the parser or in the ast construction
\* algorithm").
NoUnexpected == stage \in {"resolve", "syntax errors"} => Kinds({"Unexpected"}) = {}

\* Without errors the abstract tree holds all names and literals of the source, in order.
AstComplete ==
    stage = "resolve" =>
        LET atoms == SelectSeq(toks, LAMBDA tok : tok.type \in
                        {"Identifier", "TupleField", "StringContent"} \cup LITERAL_FIRST)
        IN  Atoms(ast) = [i \in DOMAIN atoms |-> atoms[i].text]

-----------------------------------------------------------------------------
\* The rules of the language, stated with the paths of the abstract tree alone.

StrictPrefixes(path) == {SubSeq(path, 1, n) : n \in 0..(Len(path) - 1)}
Longest(paths) == CHOOSE p \in paths : \A q \in paths : Len(q) <= Len(p)

\* The names of the module: declarations are functions, parameters, imports and the identifiers
\* of bindings.
Declarations ==
    {p \in Kinds({"FuncDecl", "ParamDecl", "ImportDecl"}) : p[2].name # ""}
    \cup {p \in Kinds({"Identifier"}) :
            NodeAt(ast, Front(p[1])).k \in {"VarBindingSpec", "TupleBindingSpec"}}

\* The part of the tree where a declaration is visible: the block, function or loop around it.
\* The body of a function is a part of its own even if it is no block.
Region(path) ==
    LET scopes == {"Module", "BlockExpr", "FuncDecl", "ForStmt", "ForEachStmt"}
                  \cup (IF NodeAt(ast, path).k = "ImportDecl" THEN {"File"} ELSE {})
    IN  Longest({q \in StrictPrefixes(path) :
            \/ NodeAt(ast, q).k \in scopes
            \/ /\ q # <<>>
               /\ NodeAt(ast, Front(q)).k = "FuncDecl"
               /\ Last(q) = Len(NodeAt(ast, Front(q)).kids)})

\* The container of a for each loop does not see the variables of the loop.
Sees(use, decl) ==
    LET r == Region(decl)
    IN  IsPrefix(r, use) /\ ~(NodeAt(ast, r).k = "ForEachStmt" /\ IsPrefix(Append(r, 2), use))

DeclarationOf(use, name) ==
    LET seen == {d[1] : d \in {e \in Declarations : e[2].name = name /\ Sees(use, e[1])}}
        inner == {d \in seen : \A e \in seen : Len(Region(e)) <= Len(Region(d))}
    IN  inner

\* d comes before u in the source, or around it.
Before(d, u) ==
    \/ IsPrefix(d, u)
    \/ \E n \in 1..Len(d) :
          n <= Len(u) /\ SubSeq(d, 1, n - 1) = SubSeq(u, 1, n - 1) /\ d[n] < u[n]

\* Functions of the module can be used everywhere, other names behind their declaration and,
\* for variables, outside of their initializer.
Usable(use, d) ==
    LET node == NodeAt(ast, d)
    IN  \/ node.k = "FuncDecl" /\ NodeAt(ast, Front(Front(d))).k = "File"
        \/ /\ Before(d, use)
           /\ node.k = "Identifier" => ~IsPrefix(Append(Front(Front(d)), 2), use)

\* Every name refers to the innermost visible declaration (SymbolTable::find_name).
ResolvesLexically ==
    stage = "types" =>
        \A u \in Kinds({"VarExpr"}) : \E r \in sem.refs :
            r[1] = u[1] /\ DeclarationOf(u[1], u[2].name) = {sem.symbols[r[2]].node}

\* Symbol errors are reported iff a name is declared twice in one scope, is not declared, or is
\* used before its declaration: no legal program is refused, and no other one gets on.
SymbolErrorsExact ==
    stage \in {"types", "symbol errors"} =>
        ((stage = "types") <=>
            /\ \A d, e \in Declarations :
                  d[2].name = e[2].name /\ Region(d[1]) = Region(e[1]) => d = e
            /\ \A u \in Kinds({"VarExpr"}) :
                  \E d \in DeclarationOf(u[1], u[2].name) : Usable(u[1], d)
            /\ \A p \in Kinds({"VarDecl"}) : p[2].export => \A k \in DOMAIN p[2].kids : p[2].kids[k].flag)

\* The function a path belongs to, <<>> for none.
FuncOf(path) ==
    LET around == {q \in StrictPrefixes(path) : NodeAt(ast, q).k = "FuncDecl"}
    IN  IF around = {} THEN <<>> ELSE Longest(around)

\* A symbol is captured iff it is local to a function and a function inside of that one uses
\* it: only these live in a closure environment, the others in registers.
CapturedExactly ==
    stage = "types" =>
        \A i \in DOMAIN sem.symbols :
            LET d == sem.symbols[i].node
            IN  sem.symbols[i].captured <=>
                    /\ NodeAt(ast, Region(d)).k \notin {"Module", "File"}
                    /\ \E r \in sem.refs : r[2] = i /\ FuncOf(r[1]) # FuncOf(d)

\* A node produces a value: a block by its last statement, an if by both of its branches.
RECURSIVE Produces(_)
Produces(node) ==
    CASE node.k = "BlockExpr" ->
            IF node.kids = <<>> THEN FALSE
            ELSE IF Last(node.kids).k # "ExprStmt" THEN FALSE ELSE Produces(Last(node.kids).kids[1])
      [] node.k = "IfExpr" ->
            IF node.kids[3] = Null THEN FALSE ELSE Produces(node.kids[2]) /\ Produces(node.kids[3])
      [] OTHER -> TRUE

\* The children whose value is used whatever the use of the node itself.
Used(node) ==
    CASE node.k = "FuncDecl" -> IF node.flag THEN {Len(node.kids)} ELSE {}
      [] node.k \in {"BlockExpr", "DeferStmt", "ExprStmt"} -> {}
      [] node.k \in {"IfExpr", "WhileStmt"} -> {1}
      [] node.k \in {"ForStmt", "ForEachStmt"} -> {2}
      [] OTHER -> DOMAIN node.kids

\* Type errors are reported iff the value of some expression is used that produces none.
TypeErrorsExact ==
    stage \in {"structure", "type errors"} =>
        ((stage = "structure") <=> \A p \in Nodes : \A k \in Used(p[2]) : Produces(p[2].kids[k]))

\* What may be assigned to: variables that are not constant and parameters, members and
\* elements that are not accessed with ?, and tuples of these for the operator =.
RECURSIVE Plain(_)
Plain(node) ==
    IF node.k \in AccessPath THEN ~node.flag /\ Plain(node.kids[1]) ELSE TRUE

Assignable(node, path) ==
    CASE node.k = "VarExpr" ->
            LET d == NodeAt(ast, CHOOSE d \in DeclarationOf(path, node.name) : TRUE)
                at == CHOOSE q \in DeclarationOf(path, node.name) : TRUE
            IN  \/ d.k = "ParamDecl"
                \/ d.k = "Identifier" /\ LET b == NodeAt(ast, Front(Front(at))) IN b.k = "Binding" /\ ~b.flag
      [] OTHER -> node.k \in AccessPath \ {"CallExpr"} /\ Plain(node)

AssignmentLegal(node, path) ==
    LET lhs == node.kids[1]
        at == Append(path, 1)
    IN  IF lhs.k = "TupleLiteral" /\ node.name = "Equals"
        THEN \A k \in DOMAIN lhs.kids : Assignable(lhs.kids[k], Append(at, k))
        ELSE Assignable(lhs, at)

Around(path, kinds) == \E q \in StrictPrefixes(path) : NodeAt(ast, q).k \in kinds

\* The loops around a part of the tree, without the one whose header it is in.
Loops == {"WhileStmt", "ForStmt", "ForEachStmt"}
LoopsAround(path) ==
    {q \in StrictPrefixes(path) :
        NodeAt(ast, q).k \in Loops /\ IsPrefix(Append(q, Len(NodeAt(ast, q).kids)), path)}

\* A jump leaves a loop around it, of its own function.
InLoop(path) == \E q \in LoopsAround(path) : FuncOf(q) = FuncOf(path)

\* The jumps that are overlooked: their loops are around the function they are in.
Escapes(path) == LoopsAround(path) # {} /\ ~InLoop(path)

\* Structure errors are reported iff a constant has no value, an assignment has no target, a
\* jump no loop, a return no function, or a record a key twice. Except for the jumps out of a
\* function, which are not reported (current_loop_, structure_check.cpp).
StructureErrorsExact ==
    stage \in {"accepted", "structure errors"} =>
        ((stage = "accepted") <=>
            \A p \in Nodes :
                /\ p[2].k = "Binding" /\ p[2].flag => p[2].kids[2] # Null
                /\ p[2].k = "BinaryExpr" /\ p[2].name \in {"Equals", "PlusEquals"} =>
                     AssignmentLegal(p[2], p[1])
                /\ p[2].k \in {"BreakExpr", "ContinueExpr"} => InLoop(p[1]) \/ Escapes(p[1])
                /\ p[2].k = "ReturnExpr" => FuncOf(p[1]) # <<>>
                /\ p[2].k = "RecordLiteral" =>
                     \A j, k \in DOMAIN p[2].kids :
                         p[2].kids[j].kids[1].name = p[2].kids[k].kids[1].name => j = k)

-----------------------------------------------------------------------------
\* The closure environments of the generated code.

\* The part of the tree whose environment holds a captured declaration: the innermost function or
\* loop body around it; a for each loop counts as a whole, without its container.
OpenerOf(path) ==
    Longest({q \in StrictPrefixes(path) :
        \/ NodeAt(ast, q).k \in {"Module", "FuncDecl"}
        \/ NodeAt(ast, q).k = "ForEachStmt" /\ ~IsPrefix(Append(q, 2), path)
        \/ /\ q # <<>>
           /\ NodeAt(ast, Front(q)).k \in {"WhileStmt", "ForStmt"}
           /\ Last(q) = Len(NodeAt(ast, Front(q)).kids)})

\* The environment some levels above another one, 0 if there is none.
RECURSIVE Above(_, _, _)
Above(col, env, levels) ==
    IF levels = 0 \/ env = 0 THEN env ELSE Above(col, gen.cols[col].envs[env].parent, levels - 1)

\* Every access to a captured variable goes to the environment of the function or loop iteration
\* that declares it, starting from an environment the function has at hand, and no two variables
\* share a place (get_captured_lvalue, ClosureEnvCollection).
ClosuresReachVariables ==
    stage = "generated" =>
        /\ \A a \in gen.accesses :
              LET env == Above(a.col, a.lvalue.base, a.lvalue.levels)
                  opener == OpenerOf(sem.symbols[a.symbol].node)
              IN  /\ env # 0 /\ gen.cols[a.col].envs[env].starter = Lookup(sem.scope_of, opener)
                  /\ [symbol |-> a.symbol, env |-> env, index |-> a.lvalue.index] \in gen.cols[a.col].locs
        /\ \A c \in DOMAIN gen.cols : \A k, l \in gen.cols[c].locs :
              /\ k.index \in 0..(gen.cols[c].envs[k.env].size - 1)
              /\ k.env = l.env /\ k.index = l.index => k = l

\* A function is created with the environment its code was generated for: outside of deferred
\* statements, which are compiled again for every exit of their scope (add_function,
\* visit_func_expr).
ClosuresFit ==
    stage = "generated" =>
        \A c \in gen.closures :
            \/ \E f \in gen.funcs : f.symbol = c.symbol /\ f.col = c.col /\ f.env = c.env
            \/ Around(c.path, {"DeferStmt"})
            \/ is_static(sem, c.symbol)

\* The generator gets through every accepted program but the ones with a jump out of a function
\* and the ones that defer a loop with captured variables, whose environment is then opened
\* once for every exit (structure_check.cpp, write_location).
GenerationCompletes ==
    stage = "ir failed" =>
        \/ \E p \in Kinds({"BreakExpr", "ContinueExpr"}) : Escapes(p[1])
        \/ \E i \in DOMAIN sem.symbols :
              LET q == OpenerOf(sem.symbols[i].node)
              IN  /\ sem.symbols[i].captured
                  /\ NodeAt(ast, q).k \notin {"Module", "FuncDecl"}
                  /\ Around(q, {"DeferStmt"})

\* Lexer and parser take every token into the tree, once and in order, whatever the text is, and the
\* levels of nested strings are those of the text (lexer.cpp, parser.cpp).
TokensKept == TypeOK /\ StringsNest /\ EveryTokenOnce /\ StuckOnlyAtStringBlocks

\* Both trees are those of the text: operators bind as the table says, correct programs are accepted
\* and only balanced ones are, and no part of a tree is lost or unexpected (grammar, ast_gen).
TreesFaithful == OperatorsBind /\ AcceptedAreBalanced /\ ValidAccepted /\ NoUnexpected /\ AstComplete

\* A name denotes the declaration that lexical scoping gives it, and the variables marked captured
\* are those that a nested function uses (symbol_resolution.cpp).
NamesResolved == ResolvesLexically /\ CapturedExactly

\* Semantic errors are reported exactly where the rules of the language say so, but for jumps out
\* of a function (symbol_resolution.cpp, type_check.cpp, structure_check.cpp).
ErrorsExact == SymbolErrorsExact /\ TypeErrorsExact /\ StructureErrorsExact

\* Functions reach their captured variables through the environments they are created with, and
\* every checked program can be generated, but for the deferred statements, module level functions
\* and jumps that the parts name (closures.cpp, ir_gen/func.cpp).
ClosuresCorrect == ClosuresReachVariables /\ ClosuresFit /\ GenerationCompletes
=============================================================================

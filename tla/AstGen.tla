------------------------------- MODULE AstGen -------------------------------
(***************************************************************************)
(* From the syntax tree to the abstract syntax tree                        *)
(* (src/src/compiler/ast_gen).                                             *)
(*                                                                         *)
(* Unexpected stands for the exception "This is either a bug in the parser *)
(* or in the ast construction algorithm".                                  *)
(***************************************************************************)
EXTENDS TypedNodes, Ast

Unexpected == AstNode("Unexpected", <<>>)

\* type(): an error node, or one with an error of its own, is not read.
Readable(t, id) == ~t[id].err /\ t[id].type # "Error"

RECURSIVE build_expr(_, _)
RECURSIVE build_stmt(_, _)

exprs(t, ids) == [j \in DOMAIN ids |-> build_expr(t, ids[j])]

\* read_checked: node is made from what is found; an error node and one that cannot be read yield
\* otherwise.
read_checked(t, id, kind, found, otherwise, node) ==
    IF ~Readable(t, id) THEN otherwise
    ELSE IF t[id].type # kind THEN Unexpected
    ELSE IF found = Unread THEN otherwise ELSE node

\* Nodes that are made from what is found.
OrError(found, node) == IF found = Unread THEN ErrorExpr ELSE node
OrErrorStmt(found, node) == IF found = Unread THEN ErrorStmt ELSE node

\* The expression of an optional child.
optional_expr(t, kid) == IF kid = NoChild THEN Null ELSE build_expr(t, kid.node)

NotNull(nodes) == SelectSeq(nodes, LAMBDA node : node # Null)

build_group_expr(t, id) == LET f == GroupedExpr_read(t, id) IN OrError(f, build_expr(t, f[1].node))

build_var_expr(t, id) == LET f == VarExpr_read(t, id) IN OrError(f, VarExpr(f[1].tok.text))

\* The texts of numbers and symbols are valid here: parsing them is left out.
literal(tok) ==
    CASE tok.type \in {"KwTrue", "KwFalse"} -> BooleanLiteral(tok.text)
      [] tok.type = "KwNull" -> NullLiteral
      [] tok.type = "Symbol" -> SymbolLiteral(tok.text)
      [] tok.type = "Integer" -> IntegerLiteral(tok.text)
      [] tok.type = "Float" -> FloatLiteral(tok.text)
      [] OTHER -> Reported(ErrorExpr)

build_literal_expr(t, id) == LET f == Literal_read(t, id) IN OrError(f, literal(f[1].tok))

build_return_expr(t, id) == LET f == ReturnExpr_read(t, id) IN OrError(f, ReturnExpr(optional_expr(t, f[1])))

build_field_expr(t, id) ==
    LET f == FieldExpr_read(t, id)
    IN  OrError(f, FieldExpr(f[2].tok.type = "QuestionDot", build_expr(t, f[1].node), f[3].tok.text))

build_tuple_field_expr(t, id) ==
    LET f == TupleFieldExpr_read(t, id)
    IN  OrError(f, TupleFieldExpr(f[2].tok.type = "QuestionDot", build_expr(t, f[1].node), f[3].tok.text))

build_index_expr(t, id) ==
    LET f == IndexExpr_read(t, id)
    IN  OrError(f, ElementExpr(f[2].tok.type = "QuestionLeftBracket",
                               build_expr(t, f[1].node), build_expr(t, f[3].node)))

build_binary_expr(t, id) ==
    LET f == BinaryExpr_read(t, id)
    IN  OrError(f, BinaryExpr(f[2].tok.type, build_expr(t, f[1].node), build_expr(t, f[3].node)))

build_unary_expr(t, id) ==
    LET f == UnaryExpr_read(t, id) IN OrError(f, UnaryExpr(f[1].tok.type, build_expr(t, f[2].node)))

build_array_expr(t, id) == ArrayLiteral(exprs(t, node_items(t, id)))
build_tuple_expr(t, id) == TupleLiteral(exprs(t, node_items(t, id)))
build_set_expr(t, id) == SetLiteral(exprs(t, node_items(t, id)))

\* The name of a Name node, "" without one.
build_name(t, id) ==
    IF Readable(t, id) /\ Name_read(t, id) # Unread THEN Name_read(t, id)[1].tok.text ELSE ""

\* Items that cannot be read are left out.
build_record_item(t, id) ==
    LET f == RecordItem_read(t, id)
    IN  read_checked(t, id, "RecordItem", f, Null,
                     IF build_name(t, f[1].node) = "" THEN Null
                     ELSE RecordItem(Identifier(Name_read(t, f[1].node)[1].tok), build_expr(t, f[2].node)))

build_record_expr(t, id) ==
    LET ids == node_items(t, id)
    IN  RecordLiteral(NotNull([j \in DOMAIN ids |-> build_record_item(t, ids[j])]))

build_map_item(t, id) ==
    LET f == MapItem_read(t, id)
    IN  read_checked(t, id, "MapItem", f, Null, MapItem(build_expr(t, f[1].node), build_expr(t, f[2].node)))

build_map_expr(t, id) ==
    LET ids == node_items(t, id)
    IN  MapLiteral(NotNull([j \in DOMAIN ids |-> build_map_item(t, ids[j])]))

\* The contents of one string literal.
format(t, found) == IF found = Unread THEN Null ELSE build_expr(t, found[1].node)

string_item(t, kid) ==
    IF ~is_node(kid) THEN StringLiteral(kid.tok.text)
    ELSE IF ~Readable(t, kid.node) THEN Null
    ELSE CASE t[kid.node].type = "StringFormatItem" -> format(t, StringFormatItem_read(t, kid.node))
           [] t[kid.node].type = "StringFormatBlock" -> format(t, StringFormatBlock_read(t, kid.node))
           [] OTHER -> Unexpected

gather_string_contents(t, id) ==
    LET s == StringExpr_items(t, id)
    IN  IF ~Readable(t, id) THEN <<>>
        ELSE IF t[id].type # "StringExpr" THEN <<Unexpected>>
        ELSE NotNull([j \in DOMAIN s |-> string_item(t, s[j])])

build_string_expr(t, id) == StringExpr(gather_string_contents(t, id))

build_string_group_expr(t, id) ==
    LET ids == node_items(t, id)
    IN  StringExpr(FlattenSeq([j \in DOMAIN ids |-> gather_string_contents(t, ids[j])]))

build_cond(t, id) ==
    LET f == Condition_read(t, id) IN read_checked(t, id, "Condition", f, ErrorExpr, build_expr(t, f[1].node))

build_if_expr(t, id) ==
    LET f == IfExpr_read(t, id)
    IN  OrError(f, IfExpr(build_cond(t, f[1].node), build_expr(t, f[2].node), optional_expr(t, f[3])))

build_block_expr(t, id) ==
    LET ids == node_items(t, id) IN BlockExpr([j \in DOMAIN ids |-> build_stmt(t, ids[j])])

\* The arguments; flag: the optional form.
build_args(t, id) ==
    LET f == ArgList_read(t, id)
    IN  read_checked(t, id, "ArgList", f, Null,
                     Flagged("ArgList", f[1].tok.type = "QuestionLeftParen", exprs(t, node_items(t, id))))

call(t, func, args) == IF args = Null THEN ErrorExpr ELSE CallExpr(args.flag, build_expr(t, func), args.kids)

build_call_expr(t, id) ==
    LET f == CallExpr_read(t, id) IN OrError(f, call(t, f[1].node, build_args(t, f[2].node)))

\* The modifiers: exported, and whether the modifier is there twice (reported).
gather_modifiers(t, kid) ==
    IF kid = NoChild THEN [export |-> FALSE, twice |-> FALSE]
    ELSE IF ~Readable(t, kid.node) THEN [export |-> FALSE, twice |-> FALSE]
    ELSE LET mods == Modifiers_items(t, kid.node) IN [export |-> mods # <<>>, twice |-> Len(mods) > 1]

gather_params(t, id) ==
    IF ~Readable(t, id) THEN <<>>
    ELSE LET names == ParamList_names(t, id) IN [j \in DOMAIN names |-> ParamDecl(names[j].text)]

func_decl(t, f, mods) ==
    Modified(FuncDecl(IF f[2] = NoChild THEN "" ELSE build_name(t, f[2].node), f[4] # NoChild,
                      gather_params(t, f[3].node), build_expr(t, f[5].node)),
             mods.export, mods.twice)

build_func_decl(t, id) ==
    LET f == Func_read(t, id)
    IN  read_checked(t, id, "Func", f, Null, func_decl(t, f, gather_modifiers(t, f[1])))

build_func_expr(t, id) ==
    LET f == FuncExpr_read(t, id) IN OrError(f, FuncExpr(build_func_decl(t, f[1].node)))

build_expr(t, id) ==
    LET k == t[id].type
    IN  CASE ~Readable(t, id) -> ErrorExpr
          [] k = "VarExpr" -> build_var_expr(t, id)
          [] k = "Literal" -> build_literal_expr(t, id)
          [] k = "GroupedExpr" -> build_group_expr(t, id)
          [] k = "ContinueExpr" -> ContinueExpr
          [] k = "BreakExpr" -> BreakExpr
          [] k = "FieldExpr" -> build_field_expr(t, id)
          [] k = "TupleFieldExpr" -> build_tuple_field_expr(t, id)
          [] k = "IndexExpr" -> build_index_expr(t, id)
          [] k = "ReturnExpr" -> build_return_expr(t, id)
          [] k = "BinaryExpr" -> build_binary_expr(t, id)
          [] k = "UnaryExpr" -> build_unary_expr(t, id)
          [] k = "ArrayExpr" -> build_array_expr(t, id)
          [] k = "TupleExpr" -> build_tuple_expr(t, id)
          [] k = "SetExpr" -> build_set_expr(t, id)
          [] k = "RecordExpr" -> build_record_expr(t, id)
          [] k = "MapExpr" -> build_map_expr(t, id)
          [] k = "StringExpr" -> build_string_expr(t, id)
          [] k = "StringGroup" -> build_string_group_expr(t, id)
          [] k = "IfExpr" -> build_if_expr(t, id)
          [] k = "BlockExpr" -> build_block_expr(t, id)
          [] k = "FuncExpr" -> build_func_expr(t, id)
          [] k = "CallExpr" -> build_call_expr(t, id)
          [] OTHER -> Unexpected

build_spec(t, id) ==
    LET names == BindingTuple_names(t, id)
        name == BindingName_read(t, id)
    IN  IF ~Readable(t, id) THEN Null
        ELSE IF t[id].type = "BindingTuple"
             THEN TupleBindingSpec([j \in DOMAIN names |-> Identifier(names[j])])
        ELSE IF t[id].type # "BindingName" THEN Unexpected
        ELSE IF name = Unread THEN Null ELSE VarBindingSpec(Identifier(name[1].tok))

bound(t, is_const, spec, init) ==
    IF spec = Null THEN Null ELSE Binding(is_const, spec, optional_expr(t, init))

build_binding(t, id, is_const) ==
    LET f == Binding_read(t, id)
    IN  read_checked(t, id, "Binding", f, Null, bound(t, is_const, build_spec(t, f[1].node), f[2]))

build_bindings(t, kids, is_const) ==
    NotNull([j \in DOMAIN kids |-> build_binding(t, kids[j].node, is_const)])

var_decl(bindings_made, mods) == Modified(VarDecl(bindings_made), mods.export, mods.twice)

build_var_decl(t, id) ==
    LET f == Var_read(t, id)
    IN  read_checked(t, id, "Var", f, Null,
                     var_decl(build_bindings(t, Var_bindings(t, id), f[2].tok.type = "KwConst"),
                              gather_modifiers(t, f[1])))

build_expr_stmt(t, id) == LET f == ExprStmt_read(t, id) IN OrErrorStmt(f, ExprStmt(build_expr(t, f[1].node)))
build_defer_stmt(t, id) == LET f == DeferStmt_read(t, id) IN OrErrorStmt(f, DeferStmt(build_expr(t, f[1].node)))

assert_stmt(args) ==
    IF args = Null THEN ErrorStmt
    ELSE IF args.flag \/ Len(args.kids) \notin {1, 2} THEN Reported(ErrorStmt)
    ELSE AssertStmt(args.kids[1], IF Len(args.kids) = 2 THEN args.kids[2] ELSE Null)

build_assert_stmt(t, id) ==
    LET f == AssertStmt_read(t, id) IN OrErrorStmt(f, assert_stmt(build_args(t, f[1].node)))

DeclOrError(decl) == IF decl = Null THEN ErrorStmt ELSE DeclStmt(decl)

build_var_stmt(t, id) ==
    LET f == VarStmt_read(t, id) IN OrErrorStmt(f, DeclOrError(build_var_decl(t, f[1].node)))

build_while_stmt(t, id) ==
    LET f == WhileStmt_read(t, id)
    IN  OrErrorStmt(f, WhileStmt(build_cond(t, f[1].node), build_expr(t, f[2].node)))

\* h is what is found in the header.
for_stmt(t, h, decl, body) ==
    IF is_node(h[1]) /\ decl = Null THEN ErrorStmt
    ELSE ForStmt(decl, IF is_node(h[2]) THEN build_cond(t, h[2].node) ELSE Null,
                 optional_expr(t, h[3]), build_expr(t, body))

with_header(t, id, h, body) ==
    read_checked(t, id, "ForStmtHeader", h, ErrorStmt,
                 for_stmt(t, h, IF is_node(h[1]) THEN build_var_decl(t, h[1].node) ELSE Null, body))

build_for_stmt(t, id) ==
    LET f == ForStmt_read(t, id)
    IN  OrErrorStmt(f, with_header(t, f[1].node, ForStmtHeader_read(t, f[1].node), f[2].node))

for_each_stmt(t, h, spec, body) ==
    IF spec = Null THEN ErrorStmt ELSE ForEachStmt(spec, build_expr(t, h[2].node), build_expr(t, body))

with_each_header(t, id, h, body) ==
    read_checked(t, id, "ForEachStmtHeader", h, ErrorStmt,
                 for_each_stmt(t, h, build_spec(t, h[1].node), body))

build_for_each_stmt(t, id) ==
    LET f == ForEachStmt_read(t, id)
    IN  OrErrorStmt(f, with_each_header(t, f[1].node, ForEachStmtHeader_read(t, f[1].node), f[2].node))

build_stmt(t, id) ==
    LET k == t[id].type
    IN  CASE ~Readable(t, id) -> ErrorStmt
          [] k = "ExprStmt" -> build_expr_stmt(t, id)
          [] k = "DeferStmt" -> build_defer_stmt(t, id)
          [] k = "AssertStmt" -> build_assert_stmt(t, id)
          [] k = "VarStmt" -> build_var_stmt(t, id)
          [] k = "WhileStmt" -> build_while_stmt(t, id)
          [] k = "ForStmt" -> build_for_stmt(t, id)
          [] k = "ForEachStmt" -> build_for_each_stmt(t, id)
          [] OTHER -> Unexpected

\* A function or a variable at file level.
build_func_item(t, id) ==
    LET f == FuncItem_read(t, id) IN OrErrorStmt(f, DeclOrError(build_func_decl(t, f[1].node)))
build_var_item(t, id) ==
    LET f == VarItem_read(t, id) IN OrErrorStmt(f, DeclOrError(build_var_decl(t, f[1].node)))

gather_import_path(t, id) == IF Readable(t, id) THEN ImportPath_path(t, id) ELSE <<>>

\* The segments of the path and the alias are the children, name is the name that is bound.
import_decl(path, names) ==
    IF path = <<>> THEN Reported(ErrorStmt)
    ELSE DeclStmt(ImportDecl(Last(names).text, [j \in DOMAIN names |-> Identifier(names[j])]))

with_alias(path, kid) == import_decl(path, IF kid = NoChild THEN path ELSE Append(path, kid.tok))

build_import_item(t, id) ==
    LET f == ImportItem_read(t, id) IN OrErrorStmt(f, with_alias(gather_import_path(t, f[1].node), f[2]))

build_item(t, id) ==
    LET k == t[id].type
    IN  CASE ~Readable(t, id) -> ErrorStmt
          [] k = "FuncItem" -> build_func_item(t, id)
          [] k = "VarItem" -> build_var_item(t, id)
          [] k = "ImportItem" -> build_import_item(t, id)
          [] OTHER -> Unexpected

build_file(t, id) ==
    LET ids == node_items(t, id)
    IN  IF ~Readable(t, id) \/ t[id].type # "File" THEN Unexpected
        ELSE File([j \in DOMAIN ids |-> build_item(t, ids[j])])

\* The module of one file; a root with an error of its own has no file.
build_module_ast(t) ==
    LET root == Root_read(t, Len(t))
    IN  Module(IF ~Readable(t, Len(t)) \/ root = Unread THEN <<>> ELSE <<build_file(t, root[1].node)>>)

-----------------------------------------------------------------------------
\* The nodes of an abstract syntax tree: pairs of path and node.
RECURSIVE AstNodes(_, _)
AstNodes(node, path) ==
    {<<path, node>>} \cup UNION {AstNodes(node.kids[j], Append(path, j)) : j \in DOMAIN node.kids}

\* The names and literals of a tree, from left to right: the member of a member expression
\* comes behind its instance, the others before their children.
Literals == {"BooleanLiteral", "FloatLiteral", "IntegerLiteral", "NullLiteral", "StringLiteral",
             "SymbolLiteral"}

RECURSIVE Atoms(_)
Atoms(node) ==
    LET below == FlattenSeq([j \in DOMAIN node.kids |-> Atoms(node.kids[j])])
    IN  CASE node.k \in {"VarExpr", "Identifier", "ParamDecl"} \cup Literals -> <<node.name>>
          [] node.k \in {"FieldExpr", "TupleFieldExpr"} -> Append(below, node.name)
          [] node.k = "FuncDecl" /\ node.name # "" -> <<node.name>> \o below
          [] OTHER -> below
=============================================================================

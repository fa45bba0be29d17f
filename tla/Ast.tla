-------------------------------- MODULE Ast --------------------------------
(***************************************************************************)
(* The nodes of the abstract syntax tree (src/src/compiler/ast).           *)
(*                                                                         *)
(* A node is a record with the kind k of the node, the name, the text or   *)
(* the operator it carries, one flag (see its constructor), whether it is  *)
(* exported, whether a diagnostic was reported for it, and its children in *)
(* the order do_traverse_children visits them; an optional child that is   *)
(* absent is Null.  A node is identified by its path from the root instead *)
(* of by a number.                                                         *)
(***************************************************************************)
EXTENDS Sequences

AstNode(k, kids) ==
    [k |-> k, name |-> "", flag |-> FALSE, export |-> FALSE, diag |-> FALSE, kids |-> kids]
Named(k, name, kids) == [AstNode(k, kids) EXCEPT !.name = name]
Flagged(k, flag, kids) == [AstNode(k, kids) EXCEPT !.flag = flag]

Null == AstNode("Null", <<>>)
Reported(node) == [node EXCEPT !.diag = TRUE]

\* Expressions.  The flag of a member expression or a call tells the optional form: a?.b, a?[b], a?(b).
BinaryExpr(operation, left, right) == Named("BinaryExpr", operation, <<left, right>>)
BlockExpr(stmts) == AstNode("BlockExpr", stmts)
BreakExpr == AstNode("BreakExpr", <<>>)
CallExpr(optional, func, args) == Flagged("CallExpr", optional, <<func>> \o args)
ContinueExpr == AstNode("ContinueExpr", <<>>)
ElementExpr(optional, instance, element) == Flagged("ElementExpr", optional, <<instance, element>>)
ErrorExpr == AstNode("ErrorExpr", <<>>)
FieldExpr(optional, instance, name) == [Named("FieldExpr", name, <<instance>>) EXCEPT !.flag = optional]
FuncExpr(decl) == AstNode("FuncExpr", <<decl>>)
IfExpr(cond, then_branch, else_branch) == AstNode("IfExpr", <<cond, then_branch, else_branch>>)
ReturnExpr(value) == AstNode("ReturnExpr", <<value>>)
StringExpr(items) == AstNode("StringExpr", items)
TupleFieldExpr(optional, instance, index) ==
    [Named("TupleFieldExpr", index, <<instance>>) EXCEPT !.flag = optional]
UnaryExpr(operation, inner) == Named("UnaryExpr", operation, <<inner>>)
VarExpr(name) == Named("VarExpr", name, <<>>)

\* Literals; the value of a number, a boolean, a symbol or a string is its text.
ArrayLiteral(items) == AstNode("ArrayLiteral", items)
BooleanLiteral(value) == Named("BooleanLiteral", value, <<>>)
FloatLiteral(value) == Named("FloatLiteral", value, <<>>)
IntegerLiteral(value) == Named("IntegerLiteral", value, <<>>)
MapLiteral(items) == AstNode("MapLiteral", items)
NullLiteral == Named("NullLiteral", "null", <<>>)
RecordLiteral(items) == AstNode("RecordLiteral", items)
SetLiteral(items) == AstNode("SetLiteral", items)
StringLiteral(value) == Named("StringLiteral", value, <<>>)
SymbolLiteral(value) == Named("SymbolLiteral", value, <<>>)
TupleLiteral(items) == AstNode("TupleLiteral", items)

Identifier(tok) == Named("Identifier", tok.text, <<>>)
MapItem(key, value) == AstNode("MapItem", <<key, value>>)
RecordItem(key, value) == AstNode("RecordItem", <<key, value>>)

\* Declarations.  The modifiers of a declaration are the field export.
Modified(decl, export, twice) == [decl EXCEPT !.export = export, !.diag = twice]

\* name is the empty string for an anonymous function, flag tells that the body is a value.
FuncDecl(name, body_is_value, params, body) ==
    [Named("FuncDecl", name, Append(params, body)) EXCEPT !.flag = body_is_value]

\* The path of an import is kept as identifiers, although it is no child in the code.
ImportDecl(name, path) == Named("ImportDecl", name, path)
ParamDecl(name) == Named("ParamDecl", name, <<>>)
VarDecl(bindings) == AstNode("VarDecl", bindings)
Binding(is_const, spec, init) == Flagged("Binding", is_const, <<spec, init>>)
TupleBindingSpec(names) == AstNode("TupleBindingSpec", names)
VarBindingSpec(name) == AstNode("VarBindingSpec", <<name>>)

\* Statements and files.
AssertStmt(cond, message) == AstNode("AssertStmt", <<cond, message>>)
DeclStmt(decl) == AstNode("DeclStmt", <<decl>>)
DeferStmt(expr) == AstNode("DeferStmt", <<expr>>)
ErrorStmt == AstNode("ErrorStmt", <<>>)
ExprStmt(expr) == AstNode("ExprStmt", <<expr>>)
ForEachStmt(spec, expr, body) == AstNode("ForEachStmt", <<spec, expr, body>>)
ForStmt(decl, cond, step, body) == AstNode("ForStmt", <<decl, cond, step, body>>)
WhileStmt(cond, body) == AstNode("WhileStmt", <<cond, body>>)
File(items) == AstNode("File", items)
Module(files) == AstNode("Module", files)
=============================================================================
